-------------------------- MODULE Controller_proofs --------------------------
(***************************************************************************)
(* Proofs about Controller: cleanups never overlap, an exit is proven, only *)
(* a bound process is supervised, and a waiting quit is served.            *)
(*                                                                         *)
(* The argument has two halves.  Coherent is about the delegate alone: each *)
(* handler is a composition of requestCleanup: and beginCleanupIfReady,    *)
(* which keep it.  The rest of Inv ties the delegate to what the main      *)
(* thread is doing and to the process table, where a process that has gone *)
(* never comes back: start times only grow.                                *)
(***************************************************************************)
EXTENDS Controller, SequenceTheorems, TLAPS

\* The delegate by itself: one cleanup, on a copy of the current identity.
Coherent(d) ==
  /\ d \in Delegates
  /\ d.engineIdentity.valid => d.engineIdentity.pid \in Pids
  /\ IF d.cleanupInProgress
     THEN /\ Len(d.jobs) = 1
          /\ d.jobs[1].bound = d.engineIdentity
     ELSE d.jobs = <<>>
  /\ d.cleanupInProgress => /\ d.shutdownRequested
                            /\ ~d.launchInFlight /\ ~d.cleanupSucceeded
  /\ d.mainMonitorTimer => ~d.shutdownRequested
  /\ d.enginePID # 0 => d.engineIdentity.valid /\ d.engineIdentity.pid = d.enginePID

\* The process table: nobody has a start time that is yet to come.
TableSound == /\ TableOK
              /\ \A p \in Pids : table[p].life < nextLife

\* What the main thread is in the middle of.
Deciding == {"validating", "adopting", "confirming"}

\* The delegate, the main thread and the processes together.
Inv == /\ TableSound /\ Coherent(c)
       /\ main \in MainStates /\ opening \in {"no", "asked", "answered", "failed"}
       /\ app \in Apps /\ waiting \in BOOLEAN /\ modal \in Modals
       /\ news \subseteq {"launched", "terminated"} \X Pids
       /\ c.engineIdentity.life < nextLife
       /\ main \in {"starting", "listing"} =>
            /\ opening = "no" /\ ~c.shutdownRequested /\ ~waiting
            /\ c.engineIdentity = Unbound /\ modal = "no"
       /\ main \in Deciding \cup {"starting", "listing"} \/ c.launchInFlight =>
            /\ c.enginePID = 0 /\ modal \notin Refusals
       /\ modal \in Refusals => /\ c.engineIdentity = Unbound /\ c.enginePID = 0
                               /\ opening = "no" /\ ~waiting /\ ~c.mainMonitorTimer
       /\ main \in Deciding => /\ opening = "no" /\ app # NoApp
                               /\ ~c.shutdownRequested /\ ~waiting
       /\ main = "confirming" => c.engineIdentity.valid /\ c.engineIdentity.pid = app.pid
       /\ c.mainMonitorTimer => opening = "no" /\ main = "loop" /\ ~c.cleanupSucceeded
       /\ c.launchInFlight <=> opening # "no"
       /\ opening = "answered" => app # NoApp
       /\ c.launchInFlight => main = "loop" /\ ~c.cleanupSucceeded
       /\ c.cleanupSucceeded => /\ main \in {"loop", "stopped-alert", "exited"}
                                /\ ProvenGone(c.engineIdentity)
       /\ main = "stopped-alert" => c.cleanupSucceeded
       /\ main = "exited" => c.cleanupSucceeded \/ modal \in Refusals
       /\ \A i \in DOMAIN c.jobs : c.jobs[i].state = "success" => ProvenGone(c.jobs[i].bound)
       /\ waiting => c.shutdownRequested
       /\ WaitingIsServed
-----------------------------------------------------------------------------
(* The delegate by itself.                                                 *)

LEMMA TypesOfBindings ==
  /\ Unbound \in Bindings
  /\ \A b \in Bindings : b.pid \in 0 .. PidCount /\ b.life \in 0 .. MaxLife
                         /\ b.required \in BOOLEAN /\ b.valid \in BOOLEAN
BY PidCountAssumption, MaxLifeAssumption DEF Unbound, Bindings

\* beginCleanupIfReady changes the cleanup flags and the queue of cleanups.
LEMMA BegunFacts ==
  ASSUME NEW d, Coherent(d)
  PROVE  /\ Coherent(Begun(d))
         /\ \A f \in {"launchInFlight", "shutdownRequested", "cleanupSucceeded",
                      "terminateReplyPending", "fatalAfterCleanup",
                      "mainMonitorTimer", "enginePID", "engineIdentity"} :
              Begun(d)[f] = d[f]
         /\ Begun(d).cleanupInProgress <=>
              \/ d.cleanupInProgress
              \/ d.shutdownRequested /\ ~d.launchInFlight /\ ~d.cleanupSucceeded
         /\ \/ Begun(d).jobs = d.jobs
            \/ Begun(d).jobs = <<[bound |-> d.engineIdentity, state |-> "asking"]>>
<1>1. CASE Begun(d) = d
  BY <1>1 DEF Coherent, Begun, Delegates
<1>2. CASE Begun(d) # d
  <2> DEFINE job == [bound |-> d.engineIdentity, state |-> "asking"]
  <2>1. /\ ~d.launchInFlight /\ ~d.cleanupInProgress /\ ~d.cleanupSucceeded
        /\ d.shutdownRequested
        /\ Begun(d) = [d EXCEPT !.cleanupInProgress = TRUE, !.cleanupFailed = FALSE,
                                !.jobs = Append(@, job)]
    BY <1>2 DEF Begun
  <2>2. d.jobs = <<>> /\ job \in Jobs
    BY <2>1 DEF Coherent, Delegates, Jobs
  <2>3. Append(d.jobs, job) = <<job>> /\ <<job>> \in Seq(Jobs) /\ Len(<<job>>) = 1
        /\ <<job>>[1] = job
    BY <2>2
  <2> HIDE DEF job
  <2>4. Begun(d) \in Delegates /\ Begun(d).jobs = <<job>> /\ Begun(d).cleanupInProgress
    BY <2>1, <2>2, <2>3 DEF Coherent, Delegates
  <2>5. \A f \in {"launchInFlight", "shutdownRequested", "cleanupSucceeded",
                      "terminateReplyPending", "fatalAfterCleanup",
                      "mainMonitorTimer", "enginePID", "engineIdentity"} :
              Begun(d)[f] = d[f]
    BY <2>1 DEF Coherent, Delegates
  <2>6. job.bound = d.engineIdentity
    BY DEF job
  <2>7. Coherent(Begun(d))
    BY <2>1, <2>3, <2>4, <2>5, <2>6 DEF Coherent
  <2> QED
    BY <2>1, <2>4, <2>5, <2>7 DEF job
<1> QED
  BY <1>1, <1>2

\* requestCleanup: leaves a coherent delegate that has asked for a shutdown, and
\* a cleanup running unless a launch is in flight.
LEMMA RequestedFacts ==
  ASSUME NEW d, Coherent(d)
  PROVE  /\ Coherent(Requested(d))
         /\ \A f \in {"launchInFlight", "cleanupSucceeded", "terminateReplyPending",
                      "fatalAfterCleanup", "enginePID", "engineIdentity"} :
              Requested(d)[f] = d[f]
         /\ Requested(d).cleanupInProgress <=>
              d.cleanupInProgress \/ (~d.launchInFlight /\ ~d.cleanupSucceeded)
         /\ ~d.cleanupSucceeded =>
              Requested(d).shutdownRequested /\ ~Requested(d).mainMonitorTimer
         /\ d.cleanupSucceeded => Requested(d) = d
         /\ \/ Requested(d).jobs = d.jobs
            \/ Requested(d).jobs = <<[bound |-> d.engineIdentity, state |-> "asking"]>>
<1>1. CASE d.cleanupSucceeded \/ d.cleanupInProgress
  BY <1>1 DEF Coherent, Requested, Delegates
<1>2. CASE ~d.cleanupSucceeded /\ ~d.cleanupInProgress
  <2> DEFINE e == [d EXCEPT !.shutdownRequested = TRUE, !.cleanupFailed = FALSE,
                            !.mainMonitorTimer = FALSE]
  <2>1. Requested(d) = Begun(e)
    BY <1>2 DEF Requested
  <2>2. /\ e \in Delegates /\ e.shutdownRequested /\ ~e.mainMonitorTimer
        /\ e.jobs = d.jobs /\ e.cleanupInProgress = d.cleanupInProgress
        /\ \A f \in {"launchInFlight", "cleanupSucceeded", "terminateReplyPending",
                     "fatalAfterCleanup", "enginePID", "engineIdentity"} : e[f] = d[f]
    BY DEF Coherent, Delegates
  <2>3. Coherent(e)
    BY <1>2, <2>2 DEF Coherent
  <2> HIDE DEF e
  <2> QED
    BY <1>2, <2>1, <2>2, <2>3, BegunFacts
<1> QED
  BY <1>1, <1>2

\* Recording a fatal condition changes nothing else.
LEMMA FatalFacts ==
  ASSUME NEW d, Coherent(d)
  PROVE  /\ Coherent(Fatal(d))
         /\ \A f \in {"launchInFlight", "shutdownRequested", "cleanupInProgress",
                      "cleanupSucceeded", "terminateReplyPending",
                      "mainMonitorTimer", "enginePID", "engineIdentity", "jobs"} :
              Fatal(d)[f] = d[f]
BY DEF Coherent, Delegates, Fatal

\* A delegate that has neither a cleanup nor a timer takes any identity.
LEMMA IdentifiedCoherent ==
  ASSUME NEW d, Coherent(d), ~d.cleanupInProgress, d.enginePID = 0,
         NEW b \in Bindings, b.valid => b.pid \in Pids
  PROVE  /\ Coherent([d EXCEPT !.engineIdentity = b])
         /\ \A f \in {"launchInFlight", "shutdownRequested", "cleanupInProgress",
                      "cleanupSucceeded", "terminateReplyPending",
                      "mainMonitorTimer", "enginePID", "jobs"} :
              [d EXCEPT !.engineIdentity = b][f] = d[f]
         /\ [d EXCEPT !.engineIdentity = b].engineIdentity = b
BY DEF Coherent, Delegates
-----------------------------------------------------------------------------
(* The process table.                                                      *)

\* Whatever processes do, the dead do not come back.
LEMMA TableMoves ==
  ASSUME TableSound, TableStep
  PROVE  /\ TableSound' /\ nextLife' >= nextLife
         /\ \A life \in 0 .. MaxLife :
              life < nextLife /\ life \notin Alive => life \notin Alive'
<1> USE PidCountAssumption, MaxLifeAssumption
<1>0. table \in [Pids -> Process] /\ nextLife \in 1 .. (MaxLife + 1)
      /\ \A p \in Pids : table[p].life < nextLife
  BY DEF TableSound, TableOK
<1>1. PICK p \in Pids : \/ \E image \in Images : Born(p, image)
                        \/ \E image \in Images : Execs(p, image)
                        \/ Settles(p) \/ Dies(p) \/ Moved(p)
  BY DEF TableStep
<1>2. Nobody \in Process /\ Nobody.life = 0
  BY DEF Nobody, Process, Images
<1>3. ASSUME NEW image \in Images, Born(p, image)
      PROVE  /\ table' \in [Pids -> Process] /\ nextLife' = nextLife + 1
             /\ nextLife \in 1 .. MaxLife
             /\ table'[p].life = nextLife
             /\ \A q \in Pids \ {p} : table'[q] = table[q]
  BY <1>0, <1>3 DEF Born, Process
<1>4. ASSUME (\E image \in Images : Execs(p, image)) \/ Settles(p) \/ Dies(p) \/ Moved(p)
      PROVE  /\ table' \in [Pids -> Process] /\ nextLife' = nextLife
             /\ table'[p].life \in {0, table[p].life}
             /\ \A q \in Pids \ {p} : table'[q] = table[q]
  <2>1. CASE Settles(p)
    BY <1>0, <2>1 DEF Settles, Process
  <2>2. CASE Dies(p)
    BY <1>0, <1>2, <2>2 DEF Dies
  <2>3. CASE Moved(p)
    BY <1>0, <2>3 DEF Moved, Process, Images
  <2>4. ASSUME NEW image \in Images, Execs(p, image)
        PROVE  /\ table' \in [Pids -> Process] /\ nextLife' = nextLife
               /\ table'[p].life \in {0, table[p].life}
               /\ \A q \in Pids \ {p} : table'[q] = table[q]
    BY <1>0, <2>4 DEF Execs, Process
  <2> QED
    BY <1>4, <2>1, <2>2, <2>3, <2>4
<1>5. CASE \E image \in Images : Born(p, image)
  BY <1>0, <1>3, <1>5 DEF TableSound, TableOK, Alive, Process
<1>6. CASE (\E image \in Images : Execs(p, image)) \/ Settles(p) \/ Dies(p) \/ Moved(p)
  BY <1>0, <1>4, <1>6 DEF TableSound, TableOK, Alive, Process
<1> QED
  BY <1>1, <1>5, <1>6

\* A process that is there can be bound.
LEMMA BindingFacts ==
  ASSUME TableSound, NEW p \in Pids
  PROVE  /\ BoundTo(p) \in Bindings /\ BoundTo(p).pid = p /\ BoundTo(p).valid
         /\ BoundTo(p).life < nextLife
         /\ Unread(p) \in Bindings /\ Unread(p).life = 0 /\ ~Unread(p).valid
BY PidCountAssumption, MaxLifeAssumption
   DEF TableSound, TableOK, Process, BoundTo, Unread, Bindings, Pids

\* An exact application has a PID that is in use.
LEMMA ExactPid == ASSUME Exact PROVE app.pid \in Pids
BY DEF Exact, Engines
-----------------------------------------------------------------------------
(* The steps.                                                              *)

LEMMA InitSound == ASSUME Init PROVE Inv
<1> USE PidCountAssumption, MaxLifeAssumption
<1>1. TableSound
  BY DEF Init, TableInit, TableSound, TableOK, Pids, Nobody
<1>2. c \in Delegates /\ c.jobs = <<>> /\ c.engineIdentity = Unbound
  BY TypesOfBindings DEF Init, Delegates
<1>3. Coherent(c)
  BY <1>2 DEF Init, Coherent, Unbound
<1>4. NoApp \in Apps
  BY DEF NoApp, Apps
<1>5. nextLife > 0 /\ Unbound.life = 0
  BY DEF Init, TableInit, Unbound
<1>6. /\ ~c.shutdownRequested /\ ~c.launchInFlight /\ ~c.cleanupSucceeded
      /\ ~c.mainMonitorTimer
      /\ main = "starting" /\ opening = "no" /\ app = NoApp /\ news = {} /\ ~waiting
      /\ waiting \in BOOLEAN /\ c.enginePID = 0 /\ modal = "no"
  BY DEF Init
<1>7. c.engineIdentity.life < nextLife
  BY <1>2, <1>5
<1>8. main \in MainStates /\ main \notin Deciding
      /\ main \notin {"stopped-alert", "exited", "confirming"}
  BY <1>6 DEF MainStates, Deciding
<1>9. \A i \in DOMAIN c.jobs : c.jobs[i].state = "success" => ProvenGone(c.jobs[i].bound)
  BY <1>2
<1>10. WaitingIsServed
  BY <1>6 DEF WaitingIsServed
<1> QED
  BY <1>1, <1>2, <1>3, <1>4, <1>6, <1>7, <1>8, <1>9, <1>10 DEF Inv, Modals, Refusals

\* Every handler either leaves the delegate alone or asks for a cleanup.
LEMMA HandlerSound ==
  ASSUME Inv, main \in {"loop"} \cup Alerts,
         c' \in {c, Requested(c), Requested(Fatal(c))},
         UNCHANGED <<tableVars, main, opening, app, waiting, modal>>,
         news' \subseteq news
  PROVE  Inv'
<1>1. PICK d : /\ d \in {c, Fatal(c)} /\ c' \in {d, Requested(d)}
               /\ Coherent(d)
               /\ \A f \in {"launchInFlight", "shutdownRequested", "cleanupInProgress",
                            "cleanupSucceeded", "terminateReplyPending",
                            "mainMonitorTimer", "enginePID", "engineIdentity", "jobs"} :
                    d[f] = c[f]
  BY FatalFacts DEF Inv
<1>2. /\ Coherent(c')
      /\ c'.launchInFlight = c.launchInFlight
      /\ c'.cleanupSucceeded = c.cleanupSucceeded
      /\ c'.terminateReplyPending = c.terminateReplyPending
      /\ c'.engineIdentity = c.engineIdentity /\ c'.enginePID = c.enginePID
      /\ c.cleanupInProgress => c'.cleanupInProgress
      /\ c.shutdownRequested => c'.shutdownRequested
      /\ c'.mainMonitorTimer => c.mainMonitorTimer
      /\ \/ c'.jobs = c.jobs
         \/ c'.jobs = <<[bound |-> c.engineIdentity, state |-> "asking"]>>
  BY <1>1, RequestedFacts
<1>3. \A i \in DOMAIN c'.jobs : c'.jobs[i].state = "success" =>
        i \in DOMAIN c.jobs /\ c'.jobs[i] = c.jobs[i]
  BY <1>2
<1>4. TableSound' /\ \A b : ProvenGone(b)' <=> ProvenGone(b')
  BY DEF Inv, TableSound, TableOK, tableVars, ProvenGone, Alive
<1> QED
  BY <1>2, <1>3, <1>4
     DEF Inv, Alerts, Deciding, WaitingIsServed, tableVars, ProvenGone, Alive

\* The table and everything said of it stay.
LEMMA TableStays ==
  ASSUME TableSound, UNCHANGED tableVars
  PROVE  /\ TableSound' /\ nextLife' = nextLife
         /\ Alive' = Alive
BY DEF TableSound, TableOK, tableVars, Alive

\* While the main thread decides about a candidate nothing else is going on.
LEMMA DecidingFacts ==
  ASSUME Inv, main \in Deciding \cup {"starting", "listing"}
  PROVE  /\ Coherent(c) /\ c.jobs = <<>> /\ opening = "no" /\ ~waiting
         /\ ~c.launchInFlight /\ ~c.shutdownRequested /\ ~c.cleanupInProgress
         /\ ~c.cleanupSucceeded /\ ~c.mainMonitorTimer
         /\ c.enginePID = 0 /\ modal \in Modals \ Refusals
BY DEF Inv, Coherent, Deciding

LEMMA StartSound ==
  ASSUME Inv, StartScans \/ StartAdopts \/ StartLaunches \/ StartRefuses
  PROVE  Inv'
<1>1. main \in {"starting", "listing"}
  BY DEF StartScans, StartAdopts, StartLaunches, StartRefuses
<1>2. /\ Coherent(c) /\ c.jobs = <<>> /\ opening = "no" /\ ~waiting
      /\ ~c.launchInFlight /\ ~c.shutdownRequested /\ ~c.cleanupInProgress
      /\ ~c.cleanupSucceeded /\ ~c.mainMonitorTimer /\ c.enginePID = 0
      /\ modal \in Modals \ Refusals
  BY <1>1, DecidingFacts
<1>3. TableSound' /\ nextLife' = nextLife /\ Alive' = Alive
      /\ tableVars' = tableVars /\ news' = news /\ waiting' = waiting
  BY TableStays DEF Inv, StartScans, StartAdopts, StartLaunches, StartRefuses
<1>4. CASE StartScans \/ StartRefuses
  BY <1>1, <1>2, <1>3, <1>4
     DEF Inv, StartScans, StartRefuses, MainStates, Deciding, WaitingIsServed,
         Modals, Refusals
<1>5. CASE StartAdopts
  <2>1. PICK p \in Pids : /\ app' = [pid |-> p, life |-> table[p].life]
                          /\ c' = [c EXCEPT !.engineIdentity = BoundTo(p)]
    BY <1>5 DEF StartAdopts
  <2>2. /\ BoundTo(p) \in Bindings /\ BoundTo(p).pid = p /\ BoundTo(p).valid
        /\ BoundTo(p).life < nextLife
    BY BindingFacts DEF Inv
  <2>3. app' \in Apps /\ app' # NoApp
    BY <2>1, PidCountAssumption DEF Inv, TableSound, TableOK, Process, Apps, NoApp, Pids
  <2>4. /\ Coherent(c') /\ c'.engineIdentity = BoundTo(p) /\ c'.jobs = <<>>
        /\ ~c'.launchInFlight /\ ~c'.shutdownRequested
        /\ ~c'.cleanupSucceeded /\ ~c'.mainMonitorTimer
    BY <1>2, <2>1, <2>2, IdentifiedCoherent
  <2> QED
    BY <1>2, <1>3, <1>5, <2>2, <2>3, <2>4
       DEF Inv, StartAdopts, MainStates, Deciding, WaitingIsServed
<1>6. CASE StartLaunches
  <2>1. /\ Coherent(c') /\ c'.engineIdentity = c.engineIdentity /\ c'.jobs = <<>>
        /\ c'.launchInFlight /\ ~c'.shutdownRequested
        /\ ~c'.cleanupSucceeded /\ ~c'.mainMonitorTimer
    BY <1>2, <1>6 DEF StartLaunches, Coherent, Delegates
  <2> QED
    BY <1>2, <1>3, <1>6, <2>1
       DEF Inv, StartLaunches, MainStates, Deciding, WaitingIsServed
<1> QED
  BY <1>4, <1>5, <1>6

LEMMA OpenAnswersSound == ASSUME Inv, OpenAnswers PROVE Inv'
<1>1. TableSound' /\ nextLife' = nextLife /\ Alive' = Alive
  BY TableStays DEF Inv, OpenAnswers
<1>2. app' \in Apps /\ opening' \in {"answered", "failed"}
      /\ (opening' = "answered" => app' # NoApp)
  <2>1. CASE opening' = "failed" /\ app' = NoApp
    BY <2>1, PidCountAssumption, MaxLifeAssumption DEF NoApp, Apps
  <2>2. ASSUME NEW p \in Pids, app' = [pid |-> p, life |-> table[p].life],
               opening' \in {"answered", "failed"}
        PROVE  app' \in Apps /\ app' # NoApp
    BY <2>2, PidCountAssumption DEF Inv, TableSound, TableOK, Process, Apps, NoApp, Pids
  <2> QED
    BY <2>1, <2>2 DEF OpenAnswers
<1>3. main = "loop" /\ c.launchInFlight /\ ~c.mainMonitorTimer
  BY DEF Inv, OpenAnswers
<1> QED
  BY <1>1, <1>2, <1>3 DEF Inv, OpenAnswers, Deciding, WaitingIsServed, ProvenGone

LEMMA OpenCompletedSound == ASSUME Inv, OpenCompleted PROVE Inv'
<1>1. /\ main = "loop" /\ opening \in {"answered", "failed"} /\ c.launchInFlight
      /\ Coherent(c) /\ ~c.cleanupInProgress /\ ~c.mainMonitorTimer
      /\ ~c.cleanupSucceeded /\ c.jobs = <<>> /\ c.enginePID = 0
      /\ modal \in Modals \ Refusals
  BY DEF Inv, OpenCompleted, Coherent
<1>2. TableSound' /\ nextLife' = nextLife /\ Alive' = Alive
  BY TableStays DEF Inv, OpenCompleted
<1>3. PICK identity \in Bindings, wrong \in BOOLEAN :
        /\ Records(identity, wrong)
        /\ c' = AfterOpen([c EXCEPT !.launchInFlight = FALSE,
                                    !.engineIdentity = identity,
                                    !.fatalAfterCleanup = @ \/ (c.shutdownRequested /\ wrong)])
  BY DEF OpenCompleted
<1>4. identity.life < nextLife /\ (identity.valid => identity.pid \in Pids)
  <2>1. CASE identity = c.engineIdentity
    BY <2>1 DEF Inv, Coherent
  <2>2. CASE identity # c.engineIdentity
    <3>1. Exact /\ identity \in {BoundTo(app.pid), Unread(app.pid)}
      BY <1>3, <2>2 DEF Records
    <3>2. nextLife > 0
      BY DEF Inv, TableSound, TableOK
    <3> QED
      BY <3>1, <3>2, ExactPid, BindingFacts DEF Inv
  <2> QED
    BY <2>1, <2>2
<1> DEFINE d == [c EXCEPT !.launchInFlight = FALSE,
                          !.engineIdentity = identity,
                          !.fatalAfterCleanup = @ \/ (c.shutdownRequested /\ wrong)]
<1>5. /\ d \in Delegates /\ d.engineIdentity = identity /\ ~d.launchInFlight
      /\ \A f \in {"shutdownRequested", "cleanupInProgress", "cleanupSucceeded",
                   "terminateReplyPending", "mainMonitorTimer", "enginePID", "jobs"} :
           d[f] = c[f]
  BY <1>1 DEF Coherent, Delegates
<1>6. c' = AfterOpen(d)
  BY <1>3
<1> HIDE DEF d
<1>7. Coherent(d)
  BY <1>1, <1>4, <1>5 DEF Coherent
<1>8. CASE d.shutdownRequested \/ opening = "failed"
  <2>1. /\ Coherent(c') /\ ~c'.launchInFlight /\ c'.engineIdentity = identity
        /\ c'.cleanupInProgress /\ c'.shutdownRequested /\ ~c'.cleanupSucceeded
        /\ ~c'.mainMonitorTimer /\ c'.enginePID = 0
        /\ c'.terminateReplyPending = c.terminateReplyPending
        /\ \/ c'.jobs = <<>>
           \/ c'.jobs = <<[bound |-> identity, state |-> "asking"]>>
    <3>1. CASE d.shutdownRequested
      BY <1>1, <1>5, <1>6, <1>7, <3>1, BegunFacts DEF AfterOpen
    <3>2. CASE ~d.shutdownRequested
      <4>1. c' = Requested(Fatal(d))
        BY <1>6, <1>8, <3>2 DEF AfterOpen
      <4>2. Coherent(Fatal(d))
            /\ \A f \in {"launchInFlight", "shutdownRequested", "cleanupInProgress",
                         "cleanupSucceeded", "terminateReplyPending",
                         "mainMonitorTimer", "enginePID", "engineIdentity", "jobs"} :
                 Fatal(d)[f] = d[f]
        BY <1>7, FatalFacts
      <4> QED
        BY <1>1, <1>5, <4>1, <4>2, RequestedFacts
    <3> QED
      BY <3>1, <3>2
  <2>2. main' = "loop" /\ opening' = "no" /\ app' = app /\ news' = news
        /\ waiting' = waiting /\ modal' = modal
    BY <1>1, <1>5, <1>8 DEF OpenCompleted
  <2>3. \A i \in DOMAIN c'.jobs : c'.jobs[i].state # "success"
    BY <2>1
  <2> QED
    BY <1>1, <1>2, <1>4, <2>1, <2>2, <2>3 DEF Inv, MainStates, Deciding, WaitingIsServed
<1>9. CASE ~d.shutdownRequested /\ opening # "failed"
  <2>1. c' = d /\ main' = "validating" /\ opening' = "no" /\ app' = app /\ news' = news
        /\ waiting' = waiting /\ app # NoApp /\ modal' = modal
    BY <1>1, <1>5, <1>6, <1>9 DEF AfterOpen, OpenCompleted, Inv
  <2>2. \A i \in DOMAIN c'.jobs : c'.jobs[i].state # "success"
    BY <1>1, <1>5, <2>1
  <2> QED
    BY <1>1, <1>2, <1>4, <1>5, <1>7, <1>9, <2>1, <2>2
       DEF Inv, MainStates, Deciding, WaitingIsServed
<1> QED
  BY <1>8, <1>9

\* The controller gives up on its candidate, with whatever identity it has.
LEMMA RejectionSound ==
  ASSUME Inv, main \in Deciding, main' = "loop",
         NEW b \in {c.engineIdentity, Unread(app.pid)},
         b # c.engineIdentity => Exact,
         c' = Requested(Fatal([c EXCEPT !.engineIdentity = b])),
         UNCHANGED <<tableVars, opening, app, news, waiting, modal>>
  PROVE  Inv'
<1>1. /\ Coherent(c) /\ c.jobs = <<>> /\ opening = "no" /\ ~waiting
      /\ ~c.launchInFlight /\ ~c.shutdownRequested /\ ~c.cleanupInProgress
      /\ ~c.cleanupSucceeded /\ ~c.mainMonitorTimer /\ c.enginePID = 0
      /\ modal \in Modals \ Refusals
  BY DecidingFacts
<1>2. TableSound' /\ nextLife' = nextLife /\ Alive' = Alive
  BY TableStays DEF Inv
<1>3. b \in Bindings /\ (b.valid => b.pid \in Pids) /\ b.life < nextLife
  <2>1. CASE b = c.engineIdentity
    BY <2>1 DEF Inv, Coherent, Delegates
  <2>2. CASE b # c.engineIdentity
    <3>1. nextLife > 0
      BY DEF Inv, TableSound, TableOK
    <3> QED
      BY <2>2, <3>1, ExactPid, BindingFacts DEF Inv
  <2> QED
    BY <2>1, <2>2
<1> DEFINE d == [c EXCEPT !.engineIdentity = b]
<1>4. /\ Coherent(d) /\ d.engineIdentity = b /\ ~d.launchInFlight
      /\ ~d.cleanupSucceeded /\ d.jobs = <<>>
  BY <1>1, <1>3, IdentifiedCoherent
<1>5. c' = Requested(Fatal(d))
  OBVIOUS
<1> HIDE DEF d
<1>6. /\ Coherent(Fatal(d)) /\ Fatal(d).engineIdentity = b /\ ~Fatal(d).launchInFlight
      /\ ~Fatal(d).cleanupSucceeded /\ Fatal(d).jobs = <<>>
  BY <1>4, FatalFacts
<1>7. /\ Coherent(c') /\ c'.engineIdentity = b /\ ~c'.launchInFlight
      /\ ~c'.cleanupSucceeded /\ ~c'.mainMonitorTimer
      /\ \/ c'.jobs = <<>>
         \/ c'.jobs = <<[bound |-> b, state |-> "asking"]>>
  <2> DEFINE e == Fatal(d)
  <2>1. /\ Coherent(e) /\ e.engineIdentity = b /\ ~e.launchInFlight
        /\ ~e.cleanupSucceeded /\ e.jobs = <<>> /\ c' = Requested(e)
    BY <1>5, <1>6
  <2> HIDE DEF e
  <2>2. /\ Coherent(Requested(e))
        /\ \A f \in {"launchInFlight", "cleanupSucceeded", "terminateReplyPending",
                     "fatalAfterCleanup", "enginePID", "engineIdentity"} :
             Requested(e)[f] = e[f]
        /\ ~Requested(e).mainMonitorTimer
        /\ \/ Requested(e).jobs = e.jobs
           \/ Requested(e).jobs = <<[bound |-> e.engineIdentity, state |-> "asking"]>>
    BY <2>1, RequestedFacts
  <2> QED
    BY <2>1, <2>2
<1>8. \A i \in DOMAIN c'.jobs : c'.jobs[i].state # "success"
  BY <1>7
<1> QED
  BY <1>1, <1>2, <1>3, <1>7, <1>8 DEF Inv, MainStates, Deciding, WaitingIsServed

LEMMA DecisionSound ==
  ASSUME Inv,
         \/ Validated \/ ValidationFails \/ Adopts \/ AdoptionFails
         \/ Confirms \/ ConfirmationFails
  PROVE  Inv'
<1>0. c \in Delegates /\ [c EXCEPT !.engineIdentity = c.engineIdentity] = c
  BY DEF Inv, Coherent, Delegates
<1>1. CASE Validated
  <2>1. TableSound' /\ nextLife' = nextLife /\ Alive' = Alive
    BY <1>1, TableStays DEF Inv, Validated
  <2> QED
    BY <1>1, <2>1
       DEF Inv, Validated, MainStates, Deciding, WaitingIsServed, ProvenGone
<1>2. CASE ValidationFails \/ ConfirmationFails
  BY <1>0, <1>2, RejectionSound DEF ValidationFails, ConfirmationFails, Rejects, Deciding
<1>3. CASE AdoptionFails
  <2>1. CASE c' = Requested(Fatal(c))
    BY <1>0, <1>3, <2>1, RejectionSound DEF AdoptionFails, Deciding
  <2>2. CASE Exact /\ c' = Requested(Fatal([c EXCEPT !.engineIdentity = Unread(app.pid)]))
    BY <1>3, <2>2, RejectionSound DEF AdoptionFails, Deciding
  <2> QED
    BY <1>3, <2>1, <2>2 DEF AdoptionFails
<1>4. CASE Adopts
  <2>1. /\ Coherent(c) /\ c.jobs = <<>> /\ opening = "no" /\ ~waiting
        /\ ~c.launchInFlight /\ ~c.shutdownRequested /\ ~c.cleanupInProgress
        /\ ~c.cleanupSucceeded /\ ~c.mainMonitorTimer /\ c.enginePID = 0
        /\ modal \in Modals \ Refusals
    BY <1>4, DecidingFacts DEF Adopts, Deciding
  <2>2. TableSound' /\ nextLife' = nextLife /\ Alive' = Alive
    BY <1>4, TableStays DEF Inv, Adopts
  <2>3. /\ app.pid \in Pids /\ BoundTo(app.pid) \in Bindings
        /\ BoundTo(app.pid).pid = app.pid /\ BoundTo(app.pid).valid
        /\ BoundTo(app.pid).life < nextLife
    BY <1>4, ExactPid, BindingFacts DEF Inv, Adopts
  <2>4. /\ Coherent(c') /\ c'.engineIdentity = BoundTo(app.pid) /\ c'.jobs = <<>>
        /\ ~c'.launchInFlight /\ ~c'.shutdownRequested
        /\ ~c'.cleanupSucceeded /\ ~c'.mainMonitorTimer
    BY <1>4, <2>1, <2>3, IdentifiedCoherent DEF Adopts
  <2> QED
    BY <1>4, <2>1, <2>2, <2>3, <2>4
       DEF Inv, Adopts, MainStates, Deciding, WaitingIsServed
<1>5. CASE Confirms
  <2>1. /\ Coherent(c) /\ c.jobs = <<>> /\ opening = "no" /\ ~waiting
        /\ ~c.launchInFlight /\ ~c.shutdownRequested /\ ~c.cleanupInProgress
        /\ ~c.cleanupSucceeded /\ ~c.mainMonitorTimer /\ c.enginePID = 0
        /\ modal \in Modals \ Refusals
    BY <1>5, DecidingFacts DEF Confirms, Deciding
  <2>2. TableSound' /\ nextLife' = nextLife /\ Alive' = Alive
    BY <1>5, TableStays DEF Inv, Confirms
  <2>3. c.engineIdentity.valid /\ c.engineIdentity.pid = app.pid
    BY <1>5 DEF Inv, Confirms
  <2>4. app.pid \in 0 .. PidCount
    BY DEF Inv, Apps
  <2>5. /\ Coherent(c') /\ c'.engineIdentity = c.engineIdentity /\ c'.jobs = <<>>
        /\ ~c'.launchInFlight /\ ~c'.shutdownRequested /\ ~c'.cleanupSucceeded
    BY <1>5, <2>1, <2>3, <2>4 DEF Confirms, Coherent, Delegates
  <2> QED
    BY <1>5, <2>1, <2>2, <2>5 DEF Inv, Confirms, MainStates, Deciding, WaitingIsServed
<1> QED
  BY <1>1, <1>2, <1>3, <1>4, <1>5

LEMMA ToldSound == ASSUME Inv, Told PROVE Inv'
<1>0. Coherent(c) /\ \A p \in Pids, what \in {"launched", "terminated"} :
                       news \ {<<what, p>>} \subseteq news
  BY DEF Inv
<1>1. CASE \/ MonitorTick \/ Reopen \/ SignalReceived
           \/ \E p \in Pids : ApplicationLaunched(p) \/ ApplicationTerminated(p)
  BY <1>1, HandlerSound
     DEF MonitorTick, Reopen, SignalReceived, ApplicationLaunched,
         ApplicationTerminated, Delivered, Listens, Stay
<1>2. CASE Quit
  <2> DEFINE d == [c EXCEPT !.terminateReplyPending = TRUE]
  <2>1. /\ d \in Delegates /\ d.terminateReplyPending
        /\ \A f \in {"launchInFlight", "shutdownRequested", "cleanupInProgress",
                     "cleanupSucceeded", "mainMonitorTimer", "enginePID",
                     "engineIdentity", "jobs"} : d[f] = c[f]
    BY <1>0 DEF Coherent, Delegates
  <2>2. c' = Requested(d) /\ main = "loop" /\ ~d.cleanupSucceeded
    BY <1>2, <2>1 DEF Quit
  <2> HIDE DEF d
  <2>3. Coherent(d)
    BY <1>0, <2>1 DEF Coherent
  <2>4. /\ Coherent(c') /\ c'.launchInFlight = c.launchInFlight
        /\ ~c'.cleanupSucceeded /\ c'.terminateReplyPending
        /\ c'.engineIdentity = c.engineIdentity /\ c'.enginePID = c.enginePID
        /\ c'.shutdownRequested /\ ~c'.mainMonitorTimer
        /\ c'.cleanupInProgress \/ c'.launchInFlight
        /\ \/ c'.jobs = c.jobs
           \/ c'.jobs = <<[bound |-> c.engineIdentity, state |-> "asking"]>>
    BY <2>1, <2>2, <2>3, RequestedFacts
  <2>5. \A i \in DOMAIN c'.jobs : c'.jobs[i].state = "success" =>
          i \in DOMAIN c.jobs /\ c'.jobs[i] = c.jobs[i]
    BY <2>4
  <2>6. TableSound' /\ nextLife' = nextLife /\ Alive' = Alive
    BY <1>2, TableStays DEF Inv, Quit
  <2> QED
    BY <1>2, <2>2, <2>4, <2>5, <2>6 DEF Inv, Quit, Deciding, WaitingIsServed, ProvenGone, Refusals
<1>3. CASE RetryCleanup
  <2>1. c' = Requested(c) /\ main = "incomplete-alert" /\ main' = "loop"
        /\ ~c.cleanupSucceeded /\ ~c.launchInFlight /\ ~c.mainMonitorTimer
    BY <1>3 DEF RetryCleanup, Inv
  <2>2. /\ Coherent(c') /\ ~c'.launchInFlight /\ ~c'.cleanupSucceeded
        /\ c'.terminateReplyPending = c.terminateReplyPending
        /\ c'.engineIdentity = c.engineIdentity /\ c'.enginePID = c.enginePID
        /\ c'.shutdownRequested /\ ~c'.mainMonitorTimer /\ c'.cleanupInProgress
        /\ \/ c'.jobs = c.jobs
           \/ c'.jobs = <<[bound |-> c.engineIdentity, state |-> "asking"]>>
    BY <1>0, <2>1, RequestedFacts
  <2>3. \A i \in DOMAIN c'.jobs : c'.jobs[i].state = "success" =>
          i \in DOMAIN c.jobs /\ c'.jobs[i] = c.jobs[i]
    BY <2>2
  <2>4. TableSound' /\ nextLife' = nextLife /\ Alive' = Alive
    BY <1>3, TableStays DEF Inv, RetryCleanup
  <2> QED
    BY <1>3, <2>1, <2>2, <2>3, <2>4
       DEF Inv, RetryCleanup, MainStates, Deciding, WaitingIsServed, ProvenGone
<1>4. CASE KeepOpen
  <2>1. /\ main = "incomplete-alert" /\ main' = "loop" /\ waiting' = FALSE
        /\ c' = [c EXCEPT !.terminateReplyPending = FALSE]
        /\ ~c.cleanupSucceeded /\ ~c.launchInFlight /\ ~c.mainMonitorTimer
    BY <1>4 DEF KeepOpen, Inv
  <2>2. /\ c' \in Delegates
        /\ \A f \in {"launchInFlight", "shutdownRequested", "cleanupInProgress",
                     "cleanupSucceeded", "mainMonitorTimer", "enginePID",
                     "engineIdentity", "jobs"} : c'[f] = c[f]
    BY <1>0, <2>1 DEF Coherent, Delegates
  <2>3. Coherent(c')
    BY <1>0, <2>2 DEF Coherent
  <2>4. TableSound' /\ nextLife' = nextLife /\ Alive' = Alive
    BY <1>4, TableStays DEF Inv, KeepOpen
  <2> QED
    BY <1>4, <2>1, <2>2, <2>3, <2>4
       DEF Inv, KeepOpen, MainStates, Deciding, WaitingIsServed, ProvenGone
<1>5. CASE StoppedAlertCloses
  <2>1. TableSound' /\ nextLife' = nextLife /\ Alive' = Alive
    BY <1>5, TableStays DEF Inv, StoppedAlertCloses
  <2>2. main = "stopped-alert" /\ main' = "exited" /\ c' = c /\ opening' = opening
        /\ app' = app /\ news' = news /\ waiting' = waiting /\ modal' = modal
    BY <1>5 DEF StoppedAlertCloses
  <2> QED
    BY <2>1, <2>2
       DEF Inv, MainStates, Deciding, WaitingIsServed, ProvenGone
<1>6. CASE OpenDockBridge \/ InformationCloses \/ RefusalCloses
  <2>1. TableSound' /\ nextLife' = nextLife /\ Alive' = Alive
    BY <1>6, TableStays DEF Inv, OpenDockBridge, InformationCloses, RefusalCloses
  <2>2. /\ c' = c /\ opening' = opening /\ app' = app /\ news' = news
        /\ waiting' = waiting /\ main = "loop"
    BY <1>6 DEF OpenDockBridge, InformationCloses, RefusalCloses
  <2>3. CASE OpenDockBridge \/ InformationCloses
    BY <2>1, <2>2, <2>3
       DEF Inv, OpenDockBridge, InformationCloses, Deciding, WaitingIsServed,
           ProvenGone, Modals, Refusals
  <2>4. CASE RefusalCloses
    BY <2>1, <2>2, <2>4
       DEF Inv, RefusalCloses, MainStates, Deciding, WaitingIsServed, ProvenGone
  <2> QED
    BY <1>6, <2>3, <2>4
<1>7. CASE QuitAtOnce
  <2>1. TableSound' /\ nextLife' = nextLife /\ Alive' = Alive
    BY <1>7, TableStays DEF Inv, QuitAtOnce
  <2>2. /\ c' = c /\ opening' = opening /\ app' = app /\ news' = news
        /\ waiting' = waiting /\ modal' = modal /\ main' = "exited"
        /\ c.cleanupSucceeded /\ ~c.launchInFlight /\ ~waiting
    BY <1>7 DEF QuitAtOnce, Inv
  <2>3. ~c.mainMonitorTimer
    BY <1>7 DEF QuitAtOnce, Inv
  <2> QED
    BY <2>1, <2>2, <2>3
       DEF Inv, MainStates, Deciding, WaitingIsServed, ProvenGone
<1> QED
  BY <1>1, <1>2, <1>3, <1>4, <1>5, <1>6, <1>7 DEF Told

\* There is a cleanup only when it is the one in progress.
LEMMA JobFacts ==
  ASSUME Inv, NEW i \in DOMAIN c.jobs
  PROVE  /\ i = 1 /\ Len(c.jobs) = 1 /\ c.jobs \in Seq(Jobs) /\ c.jobs[1] \in Jobs
         /\ c.jobs[1].bound = c.engineIdentity
         /\ c.cleanupInProgress /\ c.shutdownRequested /\ ~c.launchInFlight
         /\ ~c.cleanupSucceeded /\ ~c.mainMonitorTimer /\ opening = "no"
         /\ c \in Delegates
<1>1. c.cleanupInProgress
  BY DEF Inv, Coherent
<1> QED
  BY <1>1 DEF Inv, Coherent, Delegates

LEMMA CleanupSound ==
  ASSUME Inv, NEW i \in DOMAIN c.jobs,
         \/ CleanupAsks(i) \/ CleanupEnds(i)
         \/ CleanupSucceeds(i) \/ CleanupFails(i)
  PROVE  Inv'
<1>0. /\ i = 1 /\ Len(c.jobs) = 1 /\ c.jobs \in Seq(Jobs) /\ c.jobs[1] \in Jobs
      /\ c.jobs[1].bound = c.engineIdentity
      /\ c.cleanupInProgress /\ c.shutdownRequested /\ ~c.launchInFlight
      /\ ~c.cleanupSucceeded /\ ~c.mainMonitorTimer /\ opening = "no"
      /\ c \in Delegates
  BY JobFacts
<1>1. TableSound' /\ nextLife' = nextLife /\ Alive' = Alive
  BY TableStays DEF Inv, CleanupAsks, CleanupEnds, CleanupSucceeds, CleanupFails, Stay
<1>2. ASSUME NEW state \in {"working", "success", "failure"},
             c' = [c EXCEPT !.jobs[i].state = state],
             state = "success" => ProvenGone(c.jobs[i].bound),
             UNCHANGED <<main, opening, app, news, waiting, modal>>
      PROVE  Inv'
  <2> DEFINE j == [c.jobs EXCEPT ![1].state = state]
  <2>1. /\ j \in Seq(Jobs) /\ Len(j) = 1 /\ DOMAIN j = {1}
        /\ j[1].bound = c.engineIdentity /\ j[1].state = state
    BY <1>0 DEF Jobs
  <2>2. c' = [c EXCEPT !.jobs = j]
    BY <1>0, <1>2
  <2> HIDE DEF j
  <2>3. /\ c' \in Delegates /\ c'.jobs = j
        /\ \A f \in {"launchInFlight", "shutdownRequested", "cleanupInProgress",
                     "cleanupSucceeded", "terminateReplyPending",
                     "mainMonitorTimer", "enginePID", "engineIdentity"} : c'[f] = c[f]
    BY <1>0, <2>1, <2>2 DEF Delegates
  <2>4. Coherent(c')
    BY <1>0, <2>1, <2>3 DEF Inv, Coherent
  <2> QED
    BY <1>0, <1>1, <1>2, <2>1, <2>3, <2>4 DEF Inv, Deciding, WaitingIsServed, ProvenGone
<1>3. CASE CleanupAsks(i)
  BY <1>2, <1>3 DEF CleanupAsks, Stay
<1>4. CASE CleanupEnds(i)
  BY <1>2, <1>4 DEF CleanupEnds, Stay
<1>5. RemoveAt(c.jobs, i) = <<>> /\ <<>> \in Seq(Jobs)
  BY <1>0 DEF RemoveAt
<1>6. CASE CleanupSucceeds(i)
  <2>1. /\ c' \in Delegates /\ c'.jobs = <<>> /\ ~c'.cleanupInProgress
        /\ c'.cleanupSucceeded
        /\ \A f \in {"launchInFlight", "shutdownRequested", "terminateReplyPending",
                     "mainMonitorTimer", "enginePID", "engineIdentity"} : c'[f] = c[f]
    BY <1>0, <1>5, <1>6 DEF CleanupSucceeds, Delegates
  <2>2. Coherent(c')
    BY <1>0, <2>1 DEF Inv, Coherent
  <2>3. ProvenGone(c.engineIdentity)
    BY <1>0, <1>6 DEF Inv, CleanupSucceeds
  <2>4. /\ main' \in {"loop", "stopped-alert", "exited"} /\ waiting' \in BOOLEAN
        /\ waiting' => waiting /\ main' = "stopped-alert"
        /\ opening' = opening /\ app' = app /\ news' = news /\ modal' = modal
    BY <1>6 DEF CleanupSucceeds, Inv
  <2> QED
    BY <1>0, <1>1, <2>1, <2>2, <2>3, <2>4
       DEF Inv, MainStates, Alerts, Deciding, WaitingIsServed, ProvenGone
<1>7. CASE CleanupFails(i)
  <2>1. /\ c' \in Delegates /\ c'.jobs = <<>> /\ ~c'.cleanupInProgress
        /\ \A f \in {"launchInFlight", "shutdownRequested", "cleanupSucceeded",
                     "terminateReplyPending", "mainMonitorTimer", "enginePID",
                     "engineIdentity"} : c'[f] = c[f]
    BY <1>0, <1>5, <1>7 DEF CleanupFails, Delegates
  <2>2. Coherent(c')
    BY <1>0, <2>1 DEF Inv, Coherent
  <2> QED
    BY <1>0, <1>1, <1>7, <2>1, <2>2
       DEF Inv, CleanupFails, MainStates, Alerts, Deciding, WaitingIsServed, ProvenGone
<1> QED
  BY <1>3, <1>4, <1>6, <1>7

\* Processes that come and go disturb nothing that was proven of the dead.
LEMMA EnvironmentSound == ASSUME Inv, Environment PROVE Inv'
<1>1. /\ TableSound' /\ nextLife' >= nextLife
      /\ \A life \in 0 .. MaxLife : life < nextLife /\ life \notin Alive => life \notin Alive'
  BY TableMoves DEF Inv, Environment
<1>2. nextLife \in Nat /\ nextLife' \in Nat
  BY <1>1, MaxLifeAssumption DEF Inv, TableSound, TableOK
<1>3. c.engineIdentity.life \in 0 .. MaxLife /\ c.engineIdentity.life < nextLife
  BY DEF Inv, Coherent, Delegates, Bindings
<1>4. ProvenGone(c.engineIdentity) => ProvenGone(c.engineIdentity)'
  BY <1>1, <1>3 DEF ProvenGone, Environment
<1>5. \A i \in DOMAIN c.jobs : c.jobs[i].bound = c.engineIdentity
  BY JobFacts
<1>6. news' \subseteq {"launched", "terminated"} \X Pids
  BY DEF Inv, Environment
<1>7. c.engineIdentity.life < nextLife'
  BY <1>1, <1>2, <1>3
<1> QED
  BY <1>1, <1>4, <1>5, <1>6, <1>7 DEF Inv, Environment, WaitingIsServed, ProvenGone
-----------------------------------------------------------------------------
(* The theorems.                                                           *)

LEMMA StepSound == ASSUME Inv, [Next]_vars PROVE Inv'
<1>1. CASE UNCHANGED vars
  <2>1. TableSound' /\ nextLife' = nextLife /\ Alive' = Alive
    BY <1>1, TableStays DEF Inv, vars
  <2> QED
    BY <1>1, <2>1 DEF Inv, vars, WaitingIsServed, ProvenGone
<1>2. CASE StartScans \/ StartAdopts \/ StartLaunches \/ StartRefuses
  BY <1>2, StartSound
<1>3. CASE OpenAnswers
  BY <1>3, OpenAnswersSound
<1>4. CASE MainProceeds
  BY <1>4, OpenCompletedSound, DecisionSound, CleanupSound DEF MainProceeds
<1>5. CASE Told
  BY <1>5, ToldSound
<1>6. CASE WorkerEnds
  BY <1>6, CleanupSound DEF WorkerEnds
<1>7. CASE Environment
  BY <1>7, EnvironmentSound
<1> QED
  BY <1>1, <1>2, <1>3, <1>4, <1>5, <1>6, <1>7 DEF Next

LEMMA InvAlways == Spec => []Inv
BY InitSound, StepSound, PTL DEF Spec

\* The delegate, the main thread and AppKit's state keep their types.
THEOREM TypeCorrect == Spec => []TypeOK
<1>1. Inv => TypeOK
  BY DEF Inv, TypeOK, TableSound, Coherent
<1> QED
  BY <1>1, InvAlways, PTL

\* Cleanups never overlap with one another or with a launch, and the worker's
\* copy of the identity is never out of date, for any number of processes.
THEOREM OneCleanupAlways == Spec => []OneCleanupAtATime
<1>1. Inv => OneCleanupAtATime
  BY JobFacts DEF Inv, Coherent, OneCleanupAtATime
<1> QED
  BY <1>1, InvAlways, PTL

\* The controller never exits before the process it was bound to is gone.
THEOREM ExitAlwaysProven == Spec => []ExitIsProven
<1>1. Inv => ExitIsProven
  BY DEF Inv, Coherent, ExitIsProven, ProvenGone, Unbound
<1> QED
  BY <1>1, InvAlways, PTL

\* Supervision is always of a bound process, and never follows a shutdown.
THEOREM SupervisedAlwaysBound == Spec => []SupervisedIsBound
<1>1. Inv => SupervisedIsBound
  BY DEF Inv, Coherent, SupervisedIsBound
<1> QED
  BY <1>1, InvAlways, PTL

\* A quit that AppKit waits for always has something that will answer it.
THEOREM WaitingAlwaysServed == Spec => []WaitingIsServed
<1>1. Inv => WaitingIsServed
  BY DEF Inv
<1> QED
  BY <1>1, InvAlways, PTL
=============================================================================
