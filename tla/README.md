# Verification of the clean-room model and of the DockBridge controller

TLA+ modules, TLC configurations and TLAPS proofs for the repository in `src/`: original
macOS research for a USB display dock. What runs there today is an in-memory fake transport,
a device state machine that refuses to activate the dock, a family of parsers that recognise
recorded transfer metadata, an importer that turns a Windows capture into such records, and a
controller application that supervises a vendor engine.
This directory models all five; what is left out of each is said below.

The first half of this file is the inventory of the system and the plan. The second half says
what each module models, what the runs check, and what is proved.

---

## 1. The system

### 1.1 Components

| component | source | state it keeps | operations |
|---|---|---|---|
| ticket counters | `take_lifecycle_epoch()` in `fake_transport.c`, `take_machine_generation()` in `state_machine.c` | one process-wide atomic 64-bit counter each | draw a ticket; 0 once none is left |
| transport seam | `transport.c`, `transport.h` | a context pointer, a table of callbacks, a kind | open, close, write, read, epoch, is-open; NULL and zero-size checks |
| fake transport | `fake_transport.c` | connected and open flags, lifecycle epoch, two rings of packets, counters | initialize, open, close, disconnect, reconnect, write, read, inject inbound, take outbound |
| device state machine | `state_machine.c` | state, identity, topology, generation, epoch, pointer to a transport | initialize, attach, verify topology, request activation, report transport fault, detach, is-exact-verified |
| partial-order matcher | `partial_order_matcher.c` | a table of roles, up to 8 candidate bit masks, count consumed, state | initialize, accept, finish |
| qualified sequences | `qualified_sequences.c`, `protocol_transfer.h` | constant tables of 15, 24, 29 and 29 roles | none |
| transition parser | `transition_parser.c` | kind, binding (machine, generation, epoch), one matcher per profile, active profile mask, count, state | initialize, accept, finish, observed profile, stage |
| exchange parser | `exchange_parser.c` | frame index, order variant, pending flag, state | initialize, validate frame, accept |
| traffic regime window | `traffic_regime.c` | counts, byte sums and maxima per direction, state, finished | initialize, accept, finish |
| activation envelope | `activation_model.c` | marker state, sequence number, timestamps, totals | parse a text |
| activation replay | `activation_replay.c` | counts of events, chunks and bytes | replay an envelope through a fake transport |
| observation transcript | `observation_model.c`, `transcript_check.c` | flags and counts of what was read | validate a text, print its summary |
| metadata importer | `etw_metadata_import.py` | handles of the target, map of pipes, trials, files | attribute the events of a capture to lifetimes of the device, render an envelope for each, publish the files |
| controller | `controller/main.m`, `path_policy.c` | bound engine identity, launch and cleanup flags, fatal reason, pending termination reply | launch, monitor, clean up, prove a zero state, answer a termination |
| descriptor and probe models | `descriptor_model.c`, `probe_model.c` | none | pure predicates |
| hardware probes, labs, scripts | `dock_probe.c`, `standard_descriptor_reader.m`, `*_lab.c`, `scripts/`, `tools/` | none of their own | input and output, straight-line drivers |

### 1.2 How they interact

```
  lab programs          transition parser --- two or one matchers --- qualified sequences
       |                    |   asks at every call: is the machine still exact-verified,
       |                    |   and is it the same attachment?
       v                    v
  device state machine(s) ------> transport seam ------> fake transport <------ dock's side
       |  generation                                        |  lifecycle epoch      (inject,
       +--> machine ticket counter                          +--> epoch counter       take, unplug)

  Windows' USB events -> metadata importer -> envelopes (files)
                                                   |
                                                   v
                    activation check ---> envelope parser, then replay ---> transport seam,
                                                                            fake transport
  observation notes -> transcript check -> summary

  user, AppKit, signals, workspace notifications --> controller delegate (main thread)
                                                      |  launches, adopts, supervises
                                                      v
  other processes, PID reuse, launchd <---------- cleanup worker (a global queue)
```

**The clean-room programs.** All interaction is by direct calls, without callbacks into the caller. There are no locks:
only the two ticket counters are atomic and may be used by several threads. What makes the
code hard is that *a machine only points at its transport*. Several machines may share one
transport; its owner may open, close or reinitialise it, and the dock's side may unplug it,
between any two calls. Nobody is notified. A machine finds out because the transport's
lifecycle epoch no longer equals the one the machine remembered, and a parser finds out
because the machine's generation and epoch no longer equal the ones the parser remembered.

**The importer** reads what a kernel logged about devices that came and went, often in the middle
of their lives, under pointers that were used again. It reads the export twice, and publishes files
beside other runs of itself. What it writes must be what the envelope parser accepts.

**The controller** is concurrent in the ordinary sense. One main thread is told of launches,
exits, signals, timer ticks, quits and answers of alerts in any order; a worker thread stops the
engine with system calls between which processes are born, die, move and inherit PIDs; an alert
runs a nested event loop in which some of these are delivered and others are not.

### 1.3 What is hard, and what must hold

| component | hard behaviour | correctness |
|---|---|---|
| ticket counters | threads race in a weak compare-and-swap loop with relaxed loads; the last ticket | tickets are unique, and the counter stops and never wraps |
| fake transport | wrapping rings at their limits; a session that ends by close, by unplug, or by both; injection while closed | two bounded FIFO channels cut into sessions; nothing outlives its session; an unchanged epoch means an unbroken link |
| state machine | an attach that fails half-way; neighbours on the same transport; exhausted counters | exact-verified is true only of a link that was never interrupted since the attachment; it never comes back by itself |
| matcher | a transfer several roles can take; duplicate candidates; the frontier limit; cyclic tables | the frontier is exactly what the definition of a linear extension allows; refusals are forced |
| transition parser | every break between two calls must be seen; two profiles run side by side on one stream | a live binding is an unbroken one; no hybrid of two profiles; a completed parser names one profile |
| exchange parser | two roles in either order; a table that exists twice | accepts exactly the two observed orders; agrees with the generic matcher on the other table |
| traffic regime | an arithmetic self-check that must admit every legal window; order independence | the check never fires; the regime is a function of the set of transfers |
| activation envelope and replay | the window is counted by a flag in one file and walked by indices in another; chunks at the ring's limits; bounds checked by subtraction | the parser accepts exactly the documented grammar; a replay of what it accepted cannot fail and reports exactly the window |
| observation transcript | flags, counters and limits that together stand for a grammar | accepts exactly the documented transcripts, and the printed summary is that of the whole text |
| metadata importer | handles of devices and pipes used again, equal timestamps, completions logged late, lives cut off by the capture; two runs, a kill, a full disk | each trial has the transfers of its own lifetime and no other; what it renders is accepted by the parser; a published file is whole and stays |
| controller | notifications while a launch or a cleanup is in flight; PID reuse; signals and waits; an alert with a nested event loop | one cleanup at a time; success and exit only after a stable zero state with the bound process proven gone; a signal goes to what was looked at just before; every shutdown request comes to an exit, an alert, or a controller with nothing left to stop |

`PROJECT.json` lists the hazards line by line with the properties that cover them.

---

## 2. Plan

In order of importance for the program's own claims. Done in this version: 1 to 17.

1. `TicketCounter`, refining `UniqueTickets`: everything above assumes that a draw is
   indivisible and unique.
2. `TransportOps` (operators) and `FakeTransport` (state machine), refining `PacketLink`.
3. `DockMachine`: several machines over the operations of `TransportOps`.
4. `PartialOrder` (operators) and `PartialOrderMatcher`, against a reference definition.
5. `TransitionParser`, composing `DockMachine`, `PartialOrder` and `QualifiedSequences`; one run
   on short tables with everything moving, one on the real tables.
6. `ExchangeParser`, shown to move in step with a matcher of 4.
7. `TrafficRegime`.
8. Proofs of the safety properties of 1 to 4, and of the binding property of 5.
9. `ProcessTable`, the external world of the controller; `EngineCleanup`, its worker, refining
   `CleanupContract`; `Controller`, the delegate, which uses of the worker only that contract.
10. Proofs of the safety properties of `Controller`.
11. `ActivationEnvelope` (operators) and `ActivationReplay` (state machine), composing
    `TransportOps` with the parser.
12. In `Controller`, the handlers that are live while the alert of a refused start is on the
    screen, and the information alert of `openDockBridge:`: alerts nested in alerts.
13. `EngineCleanup`, look by look, and proofs of its safety properties and of the refinement.
14. `ObservationModel`, beside `ActivationReplay` in `TextCheckers`; `EtwImport`, which composes
    the importer with the parser of 11.
15. Proofs of the stream properties of 5 for every table that is a chain, and of `NeverStuck` for
    every table.
16. Proofs about the exchange parser, the self-check of the traffic regime, the observation
    transcripts, the envelopes and their replay.
17. Proofs about the importer: what it attributes to a lifetime, what it publishes, and that the parser
    of 11 accepts what it renders.

---

## 3. Modules

```
  UniqueTickets <==== TicketCounter <--\
  PacketLink    <==== FakeTransport <---- Transport_proofs
                        |                     |
                     TransportOps <------ Operators_proofs
                        |                   / |
                     DockMachine           /  |
                        |                 /   |
  QualifiedSequences <- TransitionParser <--- TransitionParser_proofs
                        |               /     |
                     PartialOrder <----/      |
                        |  \                  |
       ExchangeParser --+   PartialOrderMatcher <-- PartialOrderMatcher_proofs (both)
  TrafficRegime <---- TrafficRegime_proofs

  TransportOps <---- ActivationReplay ----> ActivationEnvelope <---- EtwImport
                        |         \                                     | |
  ObservationModel <- TextCheckers \--> Totals <------------------------/ |
                        |                                                 |
                     TextCheckers_proofs ---------------------------------/
                        |
                     Operators_proofs

                  ProcessTable <---- Controller <---- Controller_proofs
                        |               :
  CleanupContract <==== EngineCleanup . . (assumed there: success means ProvenGone)
                        |
                     EngineCleanup_proofs

                 <----  EXTENDS         <====  implements (INSTANCE ... WITH)
```

Modules that start with `MC` give constants their values for TLC and define nothing else.

### TicketCounter, UniqueTickets
The loop is modelled access by access. `Load` is the relaxed load before the loop, `SwapSucceeds`
and `SwapFails` are the two outcomes of `atomic_compare_exchange_weak_explicit`, and
`ReturnExhausted` is the early return at `UINT64_MAX` (`Limit`). A relaxed load may return an
old value: any value between the one the thread saw last and the newest (coherence of a single
atomic object). The weak swap may fail although the values agree. `UniqueTickets` is one
indivisible step: take a ticket nobody had, or get 0 when none is left.

### TransportOps, FakeTransport, PacketLink
`TransportOps` holds one operator per C function on one record: `Opened`, `Closed`, `Disconnected`,
`Reconnected`, `Fresh` (initialize), `Pushed`, `Popped`, and the results in the order in which the
code checks. `FakeTransport` is the state machine: one action per function of the public
interface, the seam's own checks included (`LinkResult` starts with the refusal of a zero size in
`transport.c`). `OtherTransport` is the draw of an epoch by another transport of the process.

`PacketLink` is what a caller may rely on. It has two sequences instead of rings, one phase instead of
two flags, and a set of spent session numbers instead of a counter. The dock's end of it works as soon as
the cable is there, as `db_fake_transport_inject_inbound()` does: a packet injected while the host's end is
closed is the first one that the next session reads.

Abstractions: a packet is its length. The attempt and success counters of reads and writes are
left out, as no code branches on them; open and close counters are kept.

### DockMachine
`db_machine_attach()` has four outcomes that change state, each its own action: no generation left,
transport refuses to open, transport opened without an epoch (and is closed again), attached.
`VerifyTopology`, `RequestActivation`, `ReportTransportFault`, `Detach` and `InitializeMachine` are
the other functions. `OwnerOpens`, `OwnerCloses`, `OwnerInitializes`, `DockUnplugged` and
`DockPluggedIn` are the transport's other users. Calls that are refused without changing anything
are not steps. `last_transport_result`, which is written and never read, is left out.

`interrupted[m]` is a history variable, not a field of the code: was the link down at any moment
since `m` attached?

### PartialOrder, PartialOrderMatcher
A role is a set of transfers it takes and a set of predecessors. A bit mask is a set of roles, and the
sorted array of distinct masks is a set of masks. `RolesFormDag` is the code's pass over the roles,
as a recursive function over passes; the code completes roles within a pass one by one and the
model all at once, which reaches the same set because completion is monotone. `AcceptResult` and
`FinishResult` keep the order of the checks, and `IsConsistent` every clause of the self-check. The
reference is the definition itself: `Explanations(order, history)` is the set of assignments of the
transfers seen to distinct roles that respect every predecessor, and `Completions` is the role sets
these cover.

### QualifiedSequences, TransitionParser
The tables are copied role by role, with transfers told apart by direction, length and whether
they are "plain" (bulk, successful, on the device's one endpoint of that direction). Fact identifiers and
evidence levels are left out. `TransitionParser` extends `DockMachine`: `InitializeParser`,
`InitializeRefused`, `AcceptTransfer`, `RefuseTransfer` and `FinishParser` are the parser's calls, and
`MachineStep` is any step of the machines, the owner or the dock. `AcceptVerdict` keeps the checks in
the code's order: failed, self-check, binding, complete, argument, metadata, matchers. What a
matcher holds after the parser failed is not modelled (`FailParser`), since no call looks at
it again. `db_transition_parser_stage()`, a read-only query, is left out.
`lost` and `trace` are history variables.

### ExchangeParser
The hand-written parser of the start-up burst, which walks a second copy of the table by index and
knows the one pair of roles that may be swapped. Frames are the transfers they are seen as. The
variable-range metadata of the table takes part in no decision and is left out.

### TrafficRegime
The window with its counts, sums and maxima, the arithmetic self-check `WindowIsConsistent`
that every call makes first, and the caller's variable that receives the regime.

### ActivationEnvelope, ActivationReplay
`ActivationEnvelope` holds the parser's record and one operator per decision of the loop in
`db_activation_parse()`: `LineOutcome` is what a line makes the parser return, `WithLine` the record
after a line that is taken, `EndOutcome` the judgement at the end of the text. Lines are classes: a
header, a valid or invalid preamble line, an event with its sequence number, timestamp and value, a
line of no known kind, a line that is too long. The spelling of tokens and numbers is left out, and
so are blank lines and comments, which are skipped before anything looks at them. The locals
`expected_sequence`, `previous_timestamp` and `timestamp_seen` are read off the list of events.

`ActivationReplay` is `activation_check.c`: read lines, judge, and perhaps replay. `EnterTransfer` is
the head of the replay's loop, `ReplayChunk` one round of its inner loop with both calls on the fake
transport (`write` and `take_outbound`, or `inject_inbound` and `read`), `EndReplay` the close and the
report. The counts of calls of the fake transport are left out of the report, as in `TransportOps`.

### ObservationModel, TextCheckers
`TranscriptOutcome` is what a line makes `db_observation_parse()` return and `WithTranscriptLine` what
it records; `EndOfTranscript` is the judgement at the end and the summary that `transcript_check.c`
prints. The device revision and the name of the origin, which nothing branches on, are left out.
`accepted` is a history variable, the lines read so far. `Totals` is the sum of a sequence, in which
properties of both parsers are stated. `TextCheckers` is the two programs that
judge a text, side by side: a user runs one of them.

### EtwImport
The importer and, external, the kernel that logged the events: `Arrive`, `Configure`, `CompleteTransfer` and
`Leave` are what devices do, and each hands its event to the importer at once (`OnCreate`, `OnDelete`,
`OnCompletion`: the second loop of `discover_trials()`). The first loop, which collects the handles of
the target, has read the whole export by then: `ImportInit` foresees its result (`handles`), and
`EndOfCapture` happens only if it was foreseen right. The capture may begin in the life of a device
and end in another. Every refusal, wherever it is raised, is `RefuseExport`. `Inside`, `Trimmed`, `Bounded`
and `Orders` are the end of the loop; where `list.sort()` puts a transfer is given by `Rank`, the number of
those that stand before it, so that the sorted list can be reasoned about without recursion. `Lifetime`,
`Activation`, `Events` and `Renders` are `render_envelope()`. `CountTrials` settles what will be rendered of each trial, so that
the publication need not carry the capture along. `MakeTemporary`, `WriteTemporary`, `Link` and
`Unlink` are `write_exclusive()`, between whose steps the importer may be killed (`Die`) and another
run may publish (`AnotherRun`).

What the kernel is assumed to do, and the importer relies on: the events come in order, except for
completions that are logged a little late; a pipe's pointer goes to no other device while its own one
lives; an endpoint is created once in the life of a device. The importer ignores the deletion of a single
endpoint (event 17 for an address other than 0, lines 202-210): if a kernel gave the pointer of such an endpoint to
another device while the first one lives, `AttributionIsExact` would not hold. The limits of the importer and of
the parser are constants that both modules share, since the numbers in the two files agree; that a change of one
of them is noticed is not checked. A malformed export, which is refused, is
left out.

### ProcessTable
External: the kernel's table as `main.m` sees it through libproc. A PID is used again; the start
time (`life`) tells its processes apart. Executables fall into the three classes the controller
distinguishes: the exact nested engine, another USB-display executable ("foreign"), neither. A newborn's
path cannot be read yet (`settled`), nor can that of a process between `exec` and a stable path (`Execs`,
which may change its class); a running bundle may be moved out of the engine's place or into it (`Moved`).
The processes that are there at the beginning may be in any of these conditions. `BoundStates` is
`DLStateOfBoundProcess()`: same, gone, uncertain or not bound, where a read of a live process may fail.

### EngineCleanup, CleanupContract
`DLPerformCleanup()` on its worker thread, one action per system call: `Ask` (the polite request,
of which nothing is assumed), `ListPids` (one list of PIDs) and then `LookForEngine` or
`LookForForeign` (the path of one PID after the other, while processes go on moving), `Aim` and
`Spare` (the path is read again just before a signal), `Revalidate` (on the bound PID the start time is,
too), `Strike` (the `kill()` itself, which reaches whoever has the PID by then), `CheckBound` and `WaitList` (the wait of 2.4 seconds), `Registrations` (the
launchd check, both labels in one step), `ScanList` and `ClearScan` (the scans). Time is the number of
checks. `look`, `watched` and `quiet` are history variables: which process was looked at before a signal and
which start time was next when the last check was made; which USB-display processes the scan that
is going on cannot miss; and how many scans in a row none of those outlived.

A list of PIDs followed by looks at each is no snapshot, and a clear scan proves less than "an empty array
means proven zero" of the comment at `main.m:279`. `SuccessMeansStable` says what it does prove: of the
processes that were there when it began with an engine's or a foreign executable, none is left that had a
readable path all the time and was not moved into the engine's place. That includes those that were moved
*out of* it between the two looks, which is why the foreign look comes second. Not included are:

- a process that is born behind the list;
- one whose path cannot be read at a look. The look at the engines passes over it (`main.m:288-289`); if the
  path has become readable by the second look and is the engine's, that one passes over it as exact
  (`main.m:326-332` and `356`). The model reaches this, the property does not promise the contrary;
- one that is moved *into* the engine's place between the two looks: the first was too early, and the second
  passes over it.

Each scan looks anew, so such a survivor has to escape every one of the four. The process that the
controller bound is not at risk: it is told by its PID and start time, not by its path (`ImplementsContract`).

`CleanupContract` is what the delegate relies on: a cleanup that reports success had a valid binding
or needed none, and the bound process is gone and does not come back.

### Controller
`DLControllerDelegate`, one action per handler and per turn of the main thread. `Begun` is
`beginCleanupIfReady` and `Requested` is `requestCleanup:`; every handler is a composition of these, as
in the code. `OpenAnswers` is LaunchServices, `OpenCompleted` the completion handler, whose first test is
whether a shutdown request came in between; `Validated`, `Adopts` and `Confirms` are the steps of an
adoption, with processes moving between them. `MonitorTick`, `ApplicationLaunched`,
`ApplicationTerminated`, `Reopen`, `SignalReceived` and `Quit` are the six that ask for a cleanup.
`CleanupAsks` is the worker's `dispatch_sync` to the main queue, `CleanupEnds` its outcome,
`CleanupSucceeds` and `CleanupFails` are `cleanupCompleted:`, and `RetryCleanup`, `KeepOpen` and
`StoppedAlertCloses` the user's answers.

AppKit refuses `terminate:` while an alert is modal. So `Quit` needs `modal = "no"`, and a cleanup that
succeeds under the information alert or under the alert of a refused start, where `cleanupCompleted:` calls
`terminate:` itself (`main.m:1232`), does not exit: `main` stays at `"loop"` with `cleanupSucceeded` set
(`Stranded`). `requestCleanup:` returns at once from then on (`main.m:1175`). The user ends this by closing the
alert of the refused start, or by a quit after the information alert is closed, to which
`applicationShouldTerminate:` agrees at once (`QuitAtOnce`). A reply that is pending excludes it: AppKit asks for
none while an alert is modal, and the menu of the information alert is out of reach while it waits.

`modal` is the alert that no block of the main queue opened, under which the main run loop goes on:
the information alert of `openDockBridge:` and the alert of a refused start, before or after the signal
handlers and the observers were installed. What the loop still delivers then is delivered.

Abstractions: the fatal reason is one bit; notifications wait in the set `news` and are delivered in
any order; blocks on the main queue are not served while an alert that `cleanupCompleted:` opened is on the
screen, but notifications and the reopen event are; an enumeration of processes, which
decides nothing here that is not looked at again, is one atomic look, which may fail.
The first test of `adoptValidatedApplication:` never holds, as both callers made it in the same turn.

### Seeded faults
Operators whose comment starts with *Seeded fault for P* are never used by a specification. Each is
a plausible slip in the definition that follows it (a forgotten clear, an off-by-one, a dropped
check). With the definition's body replaced by it, the run must report property P violated, so
P can fail on this model. `PROJECT.json` lists the pairs under "mutants".

---

## 4. Runs

Three specifications have fairness conditions (below); the others have none, because nothing in that
code makes progress on its own: every step is a call a user may or may not make. Deadlock checking is on
in every run except those whose program ends: `TextCheckers`, `EtwImport`, `Controller` and the two of
`EngineCleanup`.

| run | states | what it shows |
|---|---:|---|
| `TicketCounter.cfg` | 3 109 | Three threads and three tickets (`Limit = 4`): the loop implements the indivisible draw; no two threads hold the same ticket, with stale loads, spurious failures and exhaustion. |
| `FakeTransport.cfg` | 20 926 | Both rings, two slots and two packet sizes, under every order of calls: `WindowIsExact` (no stale or missing packet in a slot), `QueuesDieWithSession`, `EpochWitnessesContinuity`, and the refinement of `PacketLink`. |
| `PartialOrderMatcher.cfg` | 5 265 | The matcher against the definition: `FrontierIsExact`, `NeverCorrupt`, `NeverStuck`, `RejectsOnlyTheInexplicable`. |
| `TransitionParser.cfg` | 886 018 | The parser on short tables, with two machines, the owner and the dock moving between its calls. Of the machines: `VerifiedMeansUninterrupted`, `NoRevival`, `GenerationsDiffer`; of the parser: `LiveBindingIsUnbroken`, `ActiveIsExact`, `ParserNeverCorrupt`, `CompleteNamesItsProfile`. |
| `QualifiedTransitions.cfg` | 16 128 | The parser on the real tables: `NoHybrid`. |
| `ExchangeParser.cfg` | 626 | The real start-up table: `AliveMeansObserved`, `NeverInconsistent`, and `AgreesWithMatcher`, by which the hand-written parser and a generic matcher on the table of `qualified_sequences.c` are the same automaton. |
| `TrafficRegime.cfg` | 40 714 | Windows of up to four transfers: `NeverCorrupted`, `RegimeIsOfTheWholeWindow`, `RefusesOnlyWhenFull`. |
| `TextCheckers.cfg` | 42 279 | Every envelope of up to seven events, replayed through a ring of one packet: `ParsesTheGrammar` (flags, counters and one expected marker accept exactly the grammar of `ACTIVATION-ENVELOPE.md`, line by line), `ReportMatchesWindow`, `ReplaySucceeds`. Every transcript of up to three transfers: `TranscriptsAreParsed`. |
| `EtwImport.cfg` | 398 256 | Two devices, one after the other or together, under two handles and four pipes that are used again: `AttributionIsExact`, `EnvelopesAreAccepted`, and `PublishedForGood` beside another run, failures and a kill. |
| `EngineCleanup.cfg` | 242 363 | The worker among processes that come, go, exec, move and inherit PIDs: `SuccessMeansStable`, `SignalsWhatItAimedAt`, `CleanupEnds`, and the refinement of `CleanupContract`. |
| `EngineCleanupIdentity.cfg` | | A violation, see the finding below: `OnlyTheBoundIsSignalled`. |
| `Controller.cfg` | 326 286 | The delegate with launches, adoptions, six sources of shutdown requests, cleanups and alerts in every order: `OneCleanupAtATime`, `ExitIsProven`, `SupervisedIsBound`, `WaitingIsServed`, `ShutdownEnds`. |

Type invariants of modules with a proof are proved (section 5) and not repeated in the runs;
`ParserTypeOK` is a conjunct of `ParserNeverCorrupt`.

### Fairness, and why the code justifies it

- `TextCheckers`: weak fairness of `ReplayStep`. The replay is a loop of one thread that waits for
  nobody. Nothing is asked of the file or of whoever asks for a replay.
- `EngineCleanup`: weak fairness of `WorkerStep`. The worker is a block on a global queue, its waits are
  bounded by counts and its commands by a watchdog. Nothing is asked of the processes: the engine
  may ignore every signal, and the cleanup then ends in a failure.
- `Controller`: weak fairness of `OpenAnswers` (LaunchServices calls the completion handler), of
  `MainProceeds` (the main queue is served while no alert holds it) and of `WorkerEnds` (a cleanup ends,
  which `EngineCleanup!CleanupEnds` shows). Nothing is asked of the user, the engine, the timer or the
  notifications. `ShutdownEnds` says that a request comes to an exit or to an alert, and not that the
  user answers the alert. It names the one other end, `Stranded`, and says that it is entered only under
  another alert. It does not say when supervision notices a lost engine: the monitor's timer
  stands still under the information alert (`main.m:1041`), for as long as the user leaves it open.

### Finding

`OnlyTheBoundIsSignalled` states what `CONTRIBUTING.md:39-41` and `SECURITY.md:80-81` say: a cleanup
signals only the process it bound by PID, start time and path. The code (`main.m:433`) enumerates every
process with the exact engine path, and checks PID and start time again only when the PID is the bound
one; another process of the same executable is signalled after a check of its path alone. The trace has a
second engine that the controller never bound. What does hold is `SignalsWhatItAimedAt`: whoever can be
reached by `kill()` had the exact path when it was looked at and, on the bound PID, is the bound process; or it
was born after the last check and took the PID. That window cannot be closed with `kill()`.

### Bounds, and why they are enough

- `Limit`, `EpochMax`, `GenMax` stand for `UINT64_MAX`. Small values make exhaustion reachable:
  each run goes to the last ticket and past it. Everything the code does with tickets is equality,
  the comparison with 0 and the comparison with the maximum, so no other distance matters.
- `Threads`: three, so that one thread can be stale by more than one swap.
- `Capacity = 2`, `MaxChunk = 2` in `FakeTransport`: a ring of two wraps, fills and drains, and two
  sizes tell packets apart and make a read buffer too small. `Sizes` goes from 0 to one more than allowed.
  Under `TransitionParser` no packet is ever queued, so both are 1, and there `GenMax = 4`,
  `EpochMax = 5`, `MaxOpens = 2` leave two attachments to each machine and a failed one after them.
- `MaxOpens` bounds the open counter, which only grows, between two initialisations. It does not bound
  anything else: disconnects and reinitialisations go on until the epochs run out, and after that.
- `Orders` of `MCPartialOrderMatcher`: every table of one and two roles (with self-predecessors and
  cycles), chains, forks, joins, pairs and antichains of three with every mix of ambiguous roles,
  a diamond, an antichain of four that overflows a frontier of three candidates (`MaxCandidates = 3`
  for the code's 8), and tables the code refuses.
- Short tables in `MCTransitionParser`: the two unplug profiles part at their second role as the
  real ones do at their sixth, so the mask narrows while machines move. The real tables run
  separately with one machine.
- `TrafficRegime`: limits scaled to `Small = 8`, `Largest = 16`, `Alignment = 4`, with transfers on
  both sides of each; `MaxEvents = 4` and `ByteMax = 64 = MaxEvents * Largest`, so the byte counters
  are exactly full in a full window of largest transfers.
- `TextCheckers`: `MaxEvents = 7` leaves room for three transfers beside the four markers, and an
  eighth event is refused; transfers of 0, 3, 5 and 6 bytes against `MaxTransferLength = 5`, a window of
  `MaxTotalBytes = 8 = 3 + 5` exactly full or one over, chunks of `MaxChunk = 2` with a remainder, and a
  ring of one packet, the least that can work (the code has eight). A transcript may have two
  interfaces and three transfers; one more of each, and lengths of 0, the maximum and one more, are offered.
- `EtwImport`: two devices, so that a handle and the pipes of the first can be the second's; two
  transfers, so that a trial has one on each side of `limit`, two out of order, or one that belongs to the
  other trial; `MaxClock = 2`, so
  that an event can be at, between and after the ends of a life, and `Lateness = 1` for completions;
  `MaxTotalBytes = 4` against transfers of 3, so that a second one in the window is too much.
- `PidCount = 2`, `MaxLife = 3` (`EngineCleanup` and `Controller`): `MaxLife` bounds how many processes are ever born, so that a PID
  is used again, by any kind of process; what happens when it is used a third time is the proofs'.
  Processes of the beginning may still be without a path, so they stand for launched ones, too. Two PIDs allow the bound engine beside a second or a foreign one.
  `Waits = 1`, `Scans = 3`, `Needed = 2` keep every branch of the loops: one check that is not the last,
  a series of clear scans that is broken and one that the limit cuts off.

---

## 5. Proofs

`tlapm` checks eight modules. `Operators_proofs` holds the lemmas about the operators of `TransportOps`
and `PartialOrder` that the others share, the least number principle (`Least`) and the cardinality of
an interval. The theorems hold for every value of the constants that the named assumptions allow:
`Limit`, `GenMax`, `Capacity` and `MaxChunk` positive, `EpochMax` above 1, `MaxRoles` and
`MaxCandidates` positive, `NoTransfer` and `BadTransfer` not transfers, `Unbound` not a machine, at least
one PID and as many lives as PIDs, `Waits` a number, `Scans` positive and `Needed` between 1 and `Scans`,
the sizes of the traffic window ordered as in its header and its byte counter wide enough for a full window
of the largest transfers (`SizesAssumption`), the byte bound of an envelope at least that of a
transfer (`BoundsAssumption`), the frames of the start-up burst
valid transfers (`BurstAssumption`), the handles of the importer's kernel finitely many
(`HandlesAssumption`), its lengths within the parser's bound (`LengthsAssumption`), its clock, lateness
and limits numbers (`TimesAssumption`), and offered orders, profile tables and lines of a text
(`LinesAssumption`, `TranscriptAssumption`) of the right type. Of the profile tables two more facts are
assumed: every role follows the one above it (`ChainAssumption`), and two profiles of a kind differ at
some role (`PartAssumption`). The tables of `qualified_sequences.c` are like this, and
`QualifiedTransitions.cfg` evaluates both assumptions on them; TLC evaluates every assumption in
some run.

| theorem | what it establishes |
|---|---|
| `Transport_proofs!CounterTypeCorrect`, `HeldTicketsAlwaysDiffer`, `DrawsUniqueTickets` | unique tickets for any number of threads, and the refinement of `UniqueTickets` |
| `Transport_proofs!TypeCorrect`, `WindowAlwaysExact`, `QueuesAlwaysDieWithSession`, `OpensAndClosesAlwaysPair`, `EpochAlwaysWitnessesContinuity`, `Refinement` | every property of the run, for any capacity, packet size and number of epochs, and the refinement of `PacketLink` |
| `TransitionParser_proofs!TypeCorrect`, `VerifiedAlwaysUninterrupted`, `GenerationsAlwaysDiffer`, `AttachedAlwaysBound`, `NeverRevived` | what the run checks of the machines, for any set of them (theorems of `DockMachine!Spec`) |
| `PartialOrderMatcher_proofs!TypeCorrect`, `FrontierAlwaysExact`, `CorruptNever`, `CompleteAlwaysLinear`, `RejectionsAreForced`, `NeverStuckAlways` | the matcher computes the definition for every set of tables of any size |
| `TransitionParser_proofs!LiveBindingAlwaysUnbroken` | a live binding means the machine was exact-verified at every moment since the parser was bound |
| `TransitionParser_proofs!ParserTypeCorrect`, `ActiveAlwaysExact`, `HybridNever`, `ParserCorruptNever`, `CompleteAlwaysNamesItsProfile` | what the parser makes of a stream, for chained tables of any length, among any set of machines |
| `PartialOrderMatcher_proofs!AliveAlwaysObserved`, `InconsistentNever`, `AlwaysAgreesWithMatcher` | every property of the exchange parser, on any set of transfers that contains the burst's, and that it answers each call as the generic matcher does |
| `TrafficRegime_proofs!CheckAdmitsEveryWindow`, `RegimeIsOfAllTransfers`, `OnlyAFullWindowRefuses` | every property of the run, for every alignment, limit, and size of the window |
| `TextCheckers_proofs!TranscriptsAlwaysParsed` | flags, counts and limits accept exactly the documented transcripts, of any length |
| `TextCheckers_proofs!EnvelopesAlwaysParsed`, `ReportAlwaysMatchesWindow`, `ReplayNeverFails` | the envelope parser accepts exactly its grammar, the report of a replay is that of the window, and a replay of an accepted envelope meets no failure: for all limits, chunk sizes and rings |
| `TextCheckers_proofs!AttributionAlwaysExact` | the trials are the lifetimes of the target, each with its own transfers, for any number of devices, handles, pipes and transfers and any clock |
| `TextCheckers_proofs!EnvelopesAlwaysAccepted` | the parser accepts every envelope that renders, of any number and length of transfers, and both count the same |
| `TextCheckers_proofs!AlwaysPublishedForGood` | a published file is whole and stays, whatever other runs, failures and kills happen |
| `EngineCleanup_proofs!TypeCorrect`, `StableSuccess`, `ExactSignals`, `KeepsContract` | every safety property of the run and the refinement of `CleanupContract`, for any number of PIDs, processes, waits and scans |
| `Controller_proofs!TypeCorrect`, `OneCleanupAlways`, `ExitAlwaysProven`, `SupervisedAlwaysBound`, `WaitingAlwaysServed` | every safety property of the run, for any number of PIDs and processes |

### The arguments

**Tickets.** `HeldTicketsDiffer` is not inductive: a swap could produce a ticket somebody holds. The
strengthening `IInv` says that every held ticket lies below the counter and no local copy is ahead of
it; a successful swap hands out the counter's own value, which nobody can hold.

**Transport.** The inductive invariant is `Sound(fake)` (`Operators_proofs`): the record's type, the
exact window of both rings, queues only in the session they belong to, opens and closes paired, and
the epoch always below the next one. It is a predicate of the record alone, proved for each operator
(`OpenedSound`, `ClosedSound`, ...), so that `FakeTransport` and `DockMachine` both use it. The work
is in the ring: `SlotUnfolds` and `SlotsDiffer` remove the modulus, and `PushedFacts` and `PoppedFacts`
show that the ring's contents are `Append` and `Tail` of the sequence, on which the refinement rests.

**Machines.** `VerifiedMeansUninterrupted` follows from `Bound`: a machine's non-zero epoch lies below
the next one, and if it is still the transport's epoch then the link is open and was never down.
Every operation of the transport either leaves the epoch and the link alone or takes a fresh epoch
(the `...Moves` lemmas), and a fresh epoch differs from all remembered ones because those lie below the
counter. The case that needs the most care is an attach to a transport that is already open:
`Opened` is then the identity, and the machine shares the epoch with its neighbours.

**Matcher.** `Inv` says that a live matcher is faithful to its history: its candidates are
`Completions(order, history)`. `SuccessorExplained` and `ExplainedIsSuccessor` are the two directions of
one step: a successor of a completion completes the longer history, and every explanation of the longer
history restricts to one of the shorter. `NeverStuck` looks at the passes of `roles_form_dag()`
(`NeverStuckOn`): the first pass that completes a role the candidate lacks completes one whose predecessors
the candidate has. That there is a first one is `Least`, the least number principle, drawn from the
library's theorem that the inclusion of finite sets is well-founded; by the same principle the passes
exist (`PassesExist`).

**Parser, the binding.** The generation carries the argument. A machine that left the attached states can come
back only through an attachment, which takes a generation nobody has (`WhereFrom`). So while the
bound generation is still there, the machine is in the attachment the parser was bound to, and in
that one a broken link never becomes exact again (from the proof of `NeverRevived`).

**Parser, the stream.** None of the stream properties is inductive, since each says only a part of what
one call hands to the next. `Stream` says that a live parser is what its trace makes of it
(`OnStream`): the count and the state are those of the trace, the active profiles are those that explain
it, and each active matcher is faithful to it, so the matcher's lemmas apply to every one. A profile that is
dropped explains nothing longer either (`RuledOutForGood`). In a chain the only explanation takes the
roles from the first one on (`ChainRun`, by the least number principle again), so there is one candidate
and the frontier's limit is never met (`VerdictFacts`); all active matchers then agree on whether they are
complete, which is the last of the checks that could call the record corrupt (`NoCorruptVerdict`).

**Exchange parser.** `ExchangeInv` says what the index, the variant and the pending flag mean: the frames
offered so far are a prefix of one of the two observed orders, and of both until the pair that may be swapped
(`Follows`). The matcher's side is the step lemma of the matcher applied to a
table in which only two roles are not ordered: while neither or both of these are taken there is one candidate,
and between them there is one too, since the two differ.

**Traffic regime.** The self-check is not inductive. With one transfer so far it does not say that this one
was at least as long as the shortest possible, and without that the lower bound of a sum
(`bytes + shortest >= count * shortest + largest`) is lost one step later. `Inv` adds it (`NoneTooShort`).
`SumStep` is the arithmetic for one direction, `SumBound` keeps the sums of a window that is not full below
the byte counter. The regime is that of all transfers because a larger class is never replaced by a smaller.

**Transcripts.** `SummaryOf`, `ViableTranscript` and `CompleteTranscript` speak of all the lines read at once, the parser of flags
and counts. `TranscriptInv` says that the flags and counts are the summary of the lines so far
and that these are viable; `OutcomeIsFit` and `FitIsViable` show that a line is taken exactly when the lines
with it are still viable, `SummaryStep` that the flags follow. Sums are recursive functions
(`Totals`): `SumsExist` finds such a function by `Least`, and `TotalAppended` and its
companions are what the rest uses.

**Envelopes.** In the same way `EnvelopeRight` says of the parser's record what the events in it say: the expected
marker is the first that is missing, the window flag is up between two of them, the window's counts are the
cardinality and the bytes of the window of the grammar, the two indices are where the markers are. What is
hard is that the window of the grammar is defined by positions and may be affected by a later marker;
`WindowAppended` says by which.

**Replay.** `ReplayInv` compares the report with the transfers up to the index, and with the part that is left of the one
being cut into chunks (`Reports`). Its sums of chunks are those of the definition by
`FullChunk` and `LastChunk`. `NoFailure` adds that both rings are empty between two chunks: a chunk
goes into an empty ring and comes out again (`ThroughEmptyRing`), whatever its capacity. The indices of
an accepted envelope enclose its window, so the walk ends where the parser's flag fell.

**Importer, the attribution.** `Capturing` says of every handle the first loop has found that it is in one of
four situations. No device has had it so far (`NotYet`); its first device is there, `pipe_map` leads to it from
its pipes and from no others, and the trial has its transfers so far (`Living`); the device is gone, the trial
begins with its transfers, and whatever `pipe_map` still attributes to it, from a pipe that another device
has by now, is later than its end (`Over`); another device has the handle, and the trial can no longer end well
(`Again`). `Distinct` adds that living devices share no pipe and that no handle has two lifetimes. When
a capture ends well every trial is bounded, so every handle is `Over` (`BoundedIsOver`), and lifetimes
and trials are equally many (`OnePerHandle`). Sorting is `Rank`, a bijection (`PlacedIsOrder`), so `Trimmed` has
each transfer that it keeps as often as it was logged.

**Importer, the envelopes.** The transfers of a trial are sorted and lie inside its lifetime, so the early ones
are a prefix (`ActivationIsPrefix`) and `Events` is known position by position (`EventsOfTrial`), in the order of
the times (`EventsInOrder`). `HasRead` says what the parser's record is after any number of
these events; `ReadsMarker` and `ReadsTransfer` are one line, `ReadsScript` all of them by `Least`. The
parser compares the bytes with its bound after every transfer, the importer once at the end: the partial
sums do not decrease (`SumsOfPrefix`).

**Importer, the files.** `Publishing` says that the names before the current one are this run's, and that
a link is made only of a whole temporary file; nobody replaces a name.

**Controller.** None of the four properties is inductive. `Coherent(d)` is about the delegate alone:
exactly one cleanup while `cleanupInProgress`, on a copy of the current identity, and never with a launch
in flight; a running monitor implies a valid binding of the PID it watches. `Begun` and `Requested` keep it
(`BegunFacts`, `RequestedFacts`), so every handler does. The rest of `Inv` ties the delegate to the main
thread (no adoption is under way when a shutdown was requested; a launch is in flight exactly while
LaunchServices owes an answer) and to the table: start times only grow, so a process proven gone stays
gone (`TableMoves`), however long the success waits on the main queue before the program exits.

**Cleanup.** Everything rests on `TableSound`: a start time is given to one process only, and is
below the next one. So what was looked at keeps its PID until it is gone (`TableMoves`), whatever else
happens. `BoundSound` says this of the bound process, `AimSound` of the one a signal is aimed at: the bound
process was born before the first check, so if the PID still has its start time at the second, the process
that was looked at is the bound one. `GoneSound` follows a process from the check that finds it gone to the
success, and gives the contract. `WatchSound` carries `SuccessMeansStable`: while a scan goes on, each process
that it cannot miss will be noticed, because it is among the PIDs not yet looked at, or found already, or was
moved and will be found by the second list. So a scan that notices nobody was outlived by none of them,
and `CountSound` says that the worker's counter of clear scans never runs ahead of `quiet`.

### What is model-checked only

Liveness (`CleanupEnds`, `ShutdownEnds`, `ReplaySucceeds`) and `ENABLED` are out of the
prover's reach and stay with TLC, and with `ShutdownEnds` its first half, when a controller may be stranded. Every other safety property of the passing runs, and every refinement, is a theorem. The induction theorems of the library take an operator as a parameter,
which the provers cannot instantiate; where an induction over numbers is needed it goes through `Least`.

---

## 6. What is not modelled

- **Controller**: code-signature checks, beyond that they may fail; the parsing of paths in
  `path_policy.c`, of which the three classes are used; the wording of alerts.
- **Metadata importer**: the syntax of an export (XML, malformed numbers and timestamps, limits on its
  size), and that of the text it writes.
- **Descriptor and probe models**: predicates over one structure, without state.
- **Hardware probes**: read-only IOKit input and output.
- **Lab, check and fuzz programs, evidence registry, scripts and tools**:
  straight-line drivers, documentation, and command-line tools around the file system.
- **Data races on the objects**: transports, machines and parsers hold plain fields without locks,
  and every program and test of the repository uses them from one thread. Only the two counters are
  atomic, and only they are modelled with threads. The controller's worker shares nothing with the
  main thread but blocks on the main queue.
