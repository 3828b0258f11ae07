----------------------------- MODULE Controller -----------------------------
(***************************************************************************)
(* DLControllerDelegate of controller/main.m: one main thread that is told *)
(* of launches, exits, signals, timers, quits and answers of alerts, in    *)
(* any order, and must stop the engine it was bound to before it exits.    *)
(*                                                                         *)
(* Blocks on the main queue run one after the other: none is served while  *)
(* the alert that cleanupCompleted: opened is still on the screen.         *)
(* Notifications and the reopen event are delivered even then.             *)
(***************************************************************************)
EXTENDS ProcessTable, SequencesExt

VARIABLES c,            \* the delegate's properties, and the cleanups it started
          main,         \* what the main thread is doing
          opening,      \* openApplicationAtURL: of the nested engine
          app,          \* the NSRunningApplication that it works on
          news,         \* notifications that the workspace has still to deliver
          waiting,      \* AppKit waits for replyToApplicationShouldTerminate:
          modal         \* the alert under which the main run loop is running

vars == <<tableVars, c, main, opening, app, news, waiting, modal>>

Apps == [pid : 0 .. PidCount, life : 0 .. MaxLife]

NoApp == [pid |-> 0, life |-> 0]

Jobs == [bound : Bindings, state : {"asking", "working", "success", "failure"}]

Delegates == [launchInFlight : BOOLEAN, shutdownRequested : BOOLEAN,
              cleanupInProgress : BOOLEAN, cleanupSucceeded : BOOLEAN,
              cleanupFailed : BOOLEAN, terminateReplyPending : BOOLEAN,
              fatalAfterCleanup : BOOLEAN, mainMonitorTimer : BOOLEAN,
              enginePID : 0 .. PidCount, engineIdentity : Bindings,
              jobs : Seq(Jobs)]

Alerts == {"incomplete-alert", "stopped-alert"}

MainStates == {"starting", "listing", "loop", "validating", "adopting",
               "confirming", "exited"} \cup Alerts

Refusals == {"early", "late"}

\* Alerts that no main-queue block opened: of openDockBridge:, and of a start
\* refused before or after the handlers and observers were installed.
Modals == {"no", "information"} \cup Refusals

TypeOK == /\ TableOK
          /\ c \in Delegates
          /\ main \in MainStates
          /\ opening \in {"no", "asked", "answered", "failed"}
          /\ app \in Apps
          /\ news \subseteq {"launched", "terminated"} \X Pids
          /\ waiting \in BOOLEAN
          /\ modal \in Modals

Init == /\ TableInit
        /\ c = [launchInFlight |-> FALSE, shutdownRequested |-> FALSE,
                cleanupInProgress |-> FALSE, cleanupSucceeded |-> FALSE,
                cleanupFailed |-> FALSE, terminateReplyPending |-> FALSE,
                fatalAfterCleanup |-> FALSE, mainMonitorTimer |-> FALSE,
                enginePID |-> 0, engineIdentity |-> Unbound, jobs |-> <<>>]
        /\ main = "starting" /\ opening = "no" /\ app = NoApp
        /\ news = {} /\ waiting = FALSE /\ modal = "no"
-----------------------------------------------------------------------------
\* Seeded fault for OneCleanupAtATime: the cleanup does not wait for the launch
\* to complete.
BegunInFlight(d) ==
  IF d.cleanupInProgress \/ d.cleanupSucceeded \/ ~d.shutdownRequested THEN d
  ELSE [d EXCEPT !.cleanupInProgress = TRUE, !.cleanupFailed = FALSE,
                 !.jobs = Append(@, [bound |-> d.engineIdentity, state |-> "asking"])]

\* beginCleanupIfReady
Begun(d) ==
  IF \/ d.launchInFlight \/ d.cleanupInProgress \/ d.cleanupSucceeded
     \/ ~d.shutdownRequested
  THEN d
  ELSE [d EXCEPT !.cleanupInProgress = TRUE, !.cleanupFailed = FALSE,
                 !.jobs = Append(@, [bound |-> d.engineIdentity, state |-> "asking"])]

\* Seeded fault for SupervisedIsBound: the timer is left running.
RequestedTimerRuns(d) ==
  IF d.cleanupSucceeded \/ d.cleanupInProgress THEN d
  ELSE Begun([d EXCEPT !.shutdownRequested = TRUE, !.cleanupFailed = FALSE])

\* requestCleanup:
Requested(d) ==
  IF d.cleanupSucceeded \/ d.cleanupInProgress THEN d
  ELSE Begun([d EXCEPT !.shutdownRequested = TRUE, !.cleanupFailed = FALSE,
                       !.mainMonitorTimer = FALSE])

Fatal(d) == [d EXCEPT !.fatalAfterCleanup = TRUE]

\* The application's PID has the exact engine path; that the application has
\* gone and another process has its PID may not have been noticed yet.
Exact == app # NoApp /\ app.pid \in Engines

-----------------------------------------------------------------------------
(* applicationDidFinishLaunching:                                          *)

\* Paths, signatures, the scan for foreign processes, the registrations.
StartScans == /\ main = "starting"
              /\ \/ main' = "loop" /\ modal' = "early"
                 \/ "clear" \in ForeignScans /\ main' = "listing" /\ modal' = "no"
              /\ UNCHANGED <<tableVars, c, opening, app, news, waiting>>

StartAdopts == /\ main = "listing"
               /\ \E p \in Pids :
                    /\ Engines = {p}
                    /\ app' = [pid |-> p, life |-> table[p].life]
                    /\ c' = [c EXCEPT !.engineIdentity = BoundTo(p)]
               /\ main' = "adopting"
               /\ UNCHANGED <<tableVars, opening, news, waiting, modal>>

\* launchNestedEngine
StartLaunches == /\ main = "listing" /\ Engines = {}
                 /\ c' = [c EXCEPT !.launchInFlight = TRUE]
                 /\ opening' = "asked" /\ main' = "loop"
                 /\ UNCHANGED <<tableVars, app, news, waiting, modal>>

\* Too many engines, one without an application, or a foreign application.
StartRefuses == /\ main = "listing"
                /\ main' = "loop" /\ modal' = "late"
                /\ UNCHANGED <<tableVars, c, opening, app, news, waiting>>

\* The system calls the completion handler, which queues its block.
OpenAnswers ==
  /\ opening = "asked"
  /\ \/ opening' = "failed" /\ app' = NoApp
     \/ \E p \in Pids : /\ table[p].life # 0 /\ table[p].image # "other"
                        /\ app' = [pid |-> p, life |-> table[p].life]
                        /\ opening' \in {"answered", "failed"}
  /\ UNCHANGED <<tableVars, c, main, news, waiting, modal>>
-----------------------------------------------------------------------------
(* nestedEngineOpenCompleted:error:                                        *)

\* A live exact result is bound for a cleanup even when shutdown won the race;
\* wrong: the result was foreign, or it could not be bound for certain.
Records(identity, wrong) ==
  \/ /\ app.life \notin Alive
     /\ identity = c.engineIdentity /\ ~wrong
  \/ /\ app # NoApp /\ ~Exact
     /\ identity = c.engineIdentity /\ wrong
  \/ /\ Exact
     /\ \/ identity = BoundTo(app.pid)
        \/ identity = Unread(app.pid) /\ wrong

\* Seeded fault for ShutdownEnds: a shutdown request that came before the
\* completion is forgotten.
AfterOpenForgets(d) ==
  IF d.shutdownRequested THEN d
  ELSE IF opening = "failed" THEN Requested(Fatal(d)) ELSE d

\* A shutdown request made meanwhile always wins.
AfterOpen(d) ==
  IF d.shutdownRequested THEN Begun(d)
  ELSE IF opening = "failed" THEN Requested(Fatal(d)) ELSE d

OpenCompleted ==
  /\ main = "loop" /\ opening \in {"answered", "failed"}
  /\ \E identity \in Bindings, wrong \in BOOLEAN :
       /\ Records(identity, wrong)
       /\ c' = AfterOpen([c EXCEPT !.launchInFlight = FALSE,
                                   !.engineIdentity = identity,
                                   !.fatalAfterCleanup = @ \/ (c.shutdownRequested /\ wrong)])
  /\ main' = IF c.shutdownRequested \/ opening = "failed" THEN "loop" ELSE "validating"
  /\ opening' = "no"
  /\ UNCHANGED <<tableVars, app, news, waiting, modal>>

\* The controller gives up on the candidate.
Rejects == /\ c' = Requested(Fatal(c)) /\ main' = "loop"
           /\ UNCHANGED <<tableVars, opening, app, news, waiting, modal>>

\* One exact application, one exact process, nothing foreign.
Validated == /\ main = "validating"
             /\ Exact /\ Engines = {app.pid} /\ "clear" \in ForeignScans
             /\ main' = "adopting"
             /\ UNCHANGED <<tableVars, c, opening, app, news, waiting, modal>>

ValidationFails == main = "validating" /\ Rejects
-----------------------------------------------------------------------------
(* adoptValidatedApplication:                                              *)

\* Its first test, for a shutdown request, never holds: both callers are on
\* the same turn of the main thread as their own tests.
Adopts == /\ main = "adopting" /\ Exact
          /\ c' = [c EXCEPT !.engineIdentity = BoundTo(app.pid)]
          /\ main' = "confirming"
          /\ UNCHANGED <<tableVars, opening, app, news, waiting, modal>>

AdoptionFails ==
  /\ main = "adopting"
  /\ \/ c' = Requested(Fatal(c))
     \/ Exact /\ c' = Requested(Fatal([c EXCEPT !.engineIdentity = Unread(app.pid)]))
  /\ main' = "loop"
  /\ UNCHANGED <<tableVars, opening, app, news, waiting, modal>>

Confirms ==
  /\ main = "confirming" /\ Exact /\ "same" \in BoundStates(c.engineIdentity)
  /\ c' = [c EXCEPT !.enginePID = app.pid, !.mainMonitorTimer = TRUE]
  /\ main' = "loop"
  /\ UNCHANGED <<tableVars, opening, app, news, waiting, modal>>

ConfirmationFails == main = "confirming" /\ Rejects
-----------------------------------------------------------------------------
(* What the main thread is told while it supervises.                       *)

Stay == UNCHANGED <<tableVars, main, opening, app, news, waiting, modal>>

\* The bound process is the same and still has the exact path.
TrackedIsSame == /\ "same" \in BoundStates(c.engineIdentity)
                 /\ c.enginePID \in Engines

\* The engine is not what it was; a read may fail even if it is.
TrackedIsLost == \/ BoundStates(c.engineIdentity) # {"same"}
                 \/ c.enginePID \notin Engines

\* monitorTrackedMain
MonitorTick == /\ main = "loop" /\ modal = "no" /\ c.mainMonitorTimer
               /\ \/ \E scan \in ForeignScans : scan # "clear" /\ c' = Requested(Fatal(c))
                  \/ TrackedIsLost /\ c' = Requested(c)
               /\ Stay

\* Where notifications and the reopen event are delivered.
Listens == main \in {"loop"} \cup Alerts

Delivered(what, p) == /\ Listens
                      /\ <<what, p>> \in news /\ news' = news \ {<<what, p>>}
                      /\ UNCHANGED <<tableVars, main, opening, app, waiting, modal>>

\* workspaceApplicationLaunched:
ApplicationLaunched(p) ==
  /\ Delivered("launched", p)
  /\ c' = IF c.launchInFlight \/ (p = c.enginePID /\ p \in Engines) THEN c
          ELSE Requested(Fatal(c))

\* workspaceApplicationTerminated:
ApplicationTerminated(p) ==
  /\ Delivered("terminated", p)
  /\ c' = IF p = c.enginePID THEN Requested(c) ELSE c

\* applicationShouldHandleReopen:
Reopen == /\ Listens
          /\ ~c.launchInFlight /\ ~c.cleanupInProgress /\ ~c.cleanupSucceeded
          /\ c.cleanupFailed \/ c.shutdownRequested \/ TrackedIsLost
          /\ c' = Requested(c)
          /\ Stay

\* The handlers of installSignalHandlers are blocks on the main queue.
SignalReceived == /\ main = "loop" /\ modal # "early"
                  /\ c' = Requested(c)
                  /\ Stay

\* applicationShouldTerminate:, which AppKit does not ask while another alert is
\* modal: terminate: is refused then.
Quit == /\ main = "loop" /\ modal = "no" /\ ~waiting /\ ~c.cleanupSucceeded
        /\ c' = Requested([c EXCEPT !.terminateReplyPending = TRUE])
        /\ waiting' = TRUE
        /\ UNCHANGED <<tableVars, main, opening, app, news, modal>>

\* Its first return, which leaves nothing to wait for.
QuitAtOnce == /\ main = "loop" /\ modal = "no" /\ ~waiting /\ c.cleanupSucceeded
              /\ main' = "exited"
              /\ UNCHANGED <<tableVars, c, opening, app, news, waiting, modal>>
-----------------------------------------------------------------------------
(* DLPerformCleanup() on the global queue; EngineCleanup is its detail, and *)
(* CleanupContract what is used of it here.                                *)

\* Its dispatch_sync to the main queue.
CleanupAsks(i) == /\ main = "loop" /\ c.jobs[i].state = "asking"
                  /\ c' = [c EXCEPT !.jobs[i].state = "working"]
                  /\ Stay

CleanupEnds(i) == /\ main # "exited" /\ c.jobs[i].state = "working"
                  /\ \/ c' = [c EXCEPT !.jobs[i].state = "failure"]
                     \/ /\ ProvenGone(c.jobs[i].bound)
                        /\ c' = [c EXCEPT !.jobs[i].state = "success"]
                  /\ Stay

\* cleanupCompleted: with a success.  A pending reply lets AppKit go on to exit;
\* terminate: does so, too, unless it is refused.
CleanupSucceeds(i) ==
  /\ main = "loop" /\ c.jobs[i].state = "success"
  /\ c' = [c EXCEPT !.cleanupInProgress = FALSE, !.cleanupSucceeded = TRUE,
                    !.fatalAfterCleanup = FALSE, !.jobs = RemoveAt(@, i)]
  /\ main' = IF c.fatalAfterCleanup THEN "stopped-alert"
             ELSE IF c.terminateReplyPending \/ modal = "no" THEN "exited"
             ELSE "loop"
  /\ waiting' = (waiting /\ c.fatalAfterCleanup)
  /\ UNCHANGED <<tableVars, opening, app, news, modal>>

\* cleanupCompleted: with a failure
CleanupFails(i) ==
  /\ main = "loop" /\ c.jobs[i].state = "failure"
  /\ c' = [c EXCEPT !.cleanupInProgress = FALSE, !.cleanupFailed = TRUE,
                    !.jobs = RemoveAt(@, i)]
  /\ main' = "incomplete-alert"
  /\ UNCHANGED <<tableVars, opening, app, news, waiting, modal>>

RetryCleanup == /\ main = "incomplete-alert" /\ main' = "loop"
                /\ c' = Requested(c)
                /\ UNCHANGED <<tableVars, opening, app, news, waiting, modal>>

\* Seeded fault for WaitingIsServed: the request is forgotten, AppKit is not
\* told.
KeepOpenSilently == /\ main = "incomplete-alert" /\ main' = "loop"
                    /\ c' = [c EXCEPT !.terminateReplyPending = FALSE]
                    /\ UNCHANGED <<tableVars, opening, app, news, waiting, modal>>

\* Seeded fault for ExitIsProven: the pending request is granted.
KeepOpenExits == /\ main = "incomplete-alert"
                 /\ main' = IF waiting THEN "exited" ELSE "loop"
                 /\ c' = [c EXCEPT !.terminateReplyPending = FALSE]
                 /\ waiting' = FALSE
                 /\ UNCHANGED <<tableVars, opening, app, news, modal>>

KeepOpen == /\ main = "incomplete-alert" /\ main' = "loop"
            /\ c' = [c EXCEPT !.terminateReplyPending = FALSE]
            /\ waiting' = FALSE
            /\ UNCHANGED <<tableVars, opening, app, news, modal>>

\* openDockBridge:, from the menu or by a reopen that found all well.
OpenDockBridge == /\ main = "loop" /\ modal = "no" /\ ~waiting
                  /\ modal' = "information"
                  /\ UNCHANGED <<tableVars, c, main, opening, app, news, waiting>>

InformationCloses == /\ main = "loop" /\ modal = "information" /\ modal' = "no"
                     /\ UNCHANGED <<tableVars, c, main, opening, app, news, waiting>>

\* showStartupErrorAndExit: once its alert is closed, whatever is going on.
RefusalCloses == /\ main = "loop" /\ modal \in Refusals /\ main' = "exited"
                 /\ UNCHANGED <<tableVars, c, opening, app, news, waiting, modal>>

StoppedAlertCloses == /\ main = "stopped-alert" /\ main' = "exited"
                      /\ UNCHANGED <<tableVars, c, opening, app, news, waiting, modal>>
-----------------------------------------------------------------------------
\* The main thread is never left half way through a handler.
MainProceeds == \/ OpenCompleted \/ Validated \/ ValidationFails
                \/ Adopts \/ AdoptionFails \/ Confirms \/ ConfirmationFails
                \/ \E i \in DOMAIN c.jobs : CleanupAsks(i) \/ CleanupSucceeds(i)
                                                           \/ CleanupFails(i)

Told == \/ MonitorTick \/ Reopen \/ SignalReceived \/ Quit \/ QuitAtOnce
        \/ \E p \in Pids : ApplicationLaunched(p) \/ ApplicationTerminated(p)
        \/ RetryCleanup \/ KeepOpen \/ StoppedAlertCloses
        \/ OpenDockBridge \/ InformationCloses \/ RefusalCloses

\* Processes come, change and go; once it is observed, the workspace tells of
\* each USB-display application that did, sooner or later and in any order.
Environment ==
  /\ TableStep
  /\ news' = IF main \in {"starting", "exited"} \/ modal = "early" THEN news
             ELSE news \cup {<<"launched", p>> : p \in
                               {q \in Pids : table'[q].life > table[q].life
                                             /\ table'[q].image # "other"}}
                       \cup {<<"terminated", p>> : p \in
                               {q \in Pids : table'[q].life < table[q].life
                                             /\ \/ table[q].image # "other"
                                                \/ q = c.enginePID}}
  /\ UNCHANGED <<c, main, opening, app, waiting, modal>>

WorkerEnds == \E i \in DOMAIN c.jobs : CleanupEnds(i)

Next == \/ StartScans \/ StartAdopts \/ StartLaunches \/ StartRefuses
        \/ OpenAnswers \/ MainProceeds \/ Told \/ WorkerEnds \/ Environment

\* LaunchServices calls the completion handler, the main queue is served
\* while no alert holds it, and a cleanup ends (EngineCleanup!CleanupEnds).
\* Nothing is assumed of the user, the engine or other processes.
Spec == /\ Init /\ [][Next]_vars
        /\ WF_vars(OpenAnswers) /\ WF_vars(MainProceeds) /\ WF_vars(WorkerEnds)
-----------------------------------------------------------------------------
(* Properties.                                                             *)

\* There is one cleanup at a time, cleanupInProgress says so, and none runs
\* while a launch is in flight, whichever of the handlers asked for it.  The
\* identity that the worker copied is still the controller's: a launch or an
\* adoption never changes it meanwhile.
OneCleanupAtATime ==
  /\ Len(c.jobs) = (IF c.cleanupInProgress THEN 1 ELSE 0)
  /\ c.cleanupInProgress => ~c.launchInFlight /\ ~c.cleanupSucceeded
  /\ \A i \in DOMAIN c.jobs : c.jobs[i].bound = c.engineIdentity

\* The controller exits only when the process it was bound to is gone for
\* good; one whose identity was never read keeps it open.  No cleanup is cut
\* short by an exit, except by the user who closes the alert of a refused start.
ExitIsProven == main = "exited" => /\ ProvenGone(c.engineIdentity)
                                   /\ c.jobs = <<>> \/ modal \in Refusals

\* Only a process bound by PID and start time is supervised, and never after
\* a shutdown was requested, however the launch and the request raced.  Once
\* adopted, the engine stays bound, so that every cleanup has to prove it gone;
\* a controller that refused to start is never bound to anything.
SupervisedIsBound ==
  /\ c.mainMonitorTimer => ~c.shutdownRequested
  /\ c.enginePID # 0 => c.engineIdentity.valid /\ c.engineIdentity.pid = c.enginePID
  /\ modal \in Refusals => /\ c.engineIdentity = Unbound
                           /\ ~c.launchInFlight /\ c.enginePID = 0

\* While AppKit waits for the reply to a quit, the delegate knows, and a
\* cleanup, a launch to wait for or an alert is there to bring it about.
WaitingIsServed ==
  waiting => /\ c.terminateReplyPending
             /\ c.cleanupInProgress \/ c.launchInFlight \/ main \in Alerts \cup {"exited"}

\* The cleanup has succeeded, the engine is gone, and the controller is there.
Stranded == main = "loop" /\ c.cleanupSucceeded

\* A shutdown request comes to an exit or to an alert, whoever made it and
\* whatever else was going on, or to a cleanup whose success leaves the
\* controller stranded.  That happens under an alert that refuses the
\* terminate: of cleanupCompleted:, and in no other way; requestCleanup: returns
\* at once from then on, and nothing but the user ends it.
ShutdownEnds ==
  /\ [][Stranded' => Stranded \/ modal \in {"information"} \cup Refusals]_vars
  /\ (c.shutdownRequested /\ ~c.cleanupFailed) ~>
       (main \in Alerts \cup {"exited"} \/ Stranded)
=============================================================================
