--------------------------- MODULE EngineCleanup ---------------------------
(***************************************************************************)
(* DLPerformCleanup() of controller/main.m, on its worker thread: ask the  *)
(* engine to quit, send SIGTERM, wait, send SIGKILL, and then prove that   *)
(* nothing is left: several clear scans in a row between two checks of the *)
(* launchd registrations.  Processes are born, die and move between any    *)
(* two of its system calls, and PIDs are used again.                       *)
(***************************************************************************)
EXTENDS ProcessTable

CONSTANTS Waits,        \* 2400 ms / 200 ms, the checks before the last
          Scans,        \* how many scans at most
          Needed        \* how many clear ones in a row

ASSUME CountsAssumption == /\ Waits \in Nat
                           /\ Scans \in Nat \ {0} /\ Needed \in 1 .. Scans

VARIABLES bound,        \* boundIdentity, the copy the worker was given
          worker,       \* where the worker is, and its local variables
          look,         \* history: what the checks before a signal looked at
          watched,      \* history: whom the scan that is going on cannot miss
          quiet         \* history: scans in a row that none of those outlived

vars == <<tableVars, bound, worker, look, watched, quiet>>

\* Where the worker goes through a list of PIDs.
Listings == {"enumerate", "wait-list", "scan-list", "foreign"}

Places == Listings \cup {"ask", "signal", "revalidate", "strike", "wait", "register", "scan",
                         "register-again", "succeeded", "failed"}

Workers == [at : Places, sig : {"TERM", "KILL"}, listed : BOOLEAN,
            todo : SUBSET Pids, targets : SUBSET Pids,
            aim : 0 .. PidCount, same : BOOLEAN,
            tries : 0 .. Waits, attempts : 0 .. (Scans - 1),
            clears : 0 .. (Needed - 1)]

\* The process whose path was checked last, and the start time that was next
\* when the last check was made.
Looks == [process : Process, next : 0 .. (MaxLife + 1)]

NoLook == [process |-> Nobody, next |-> 0]

TypeOK == /\ TableOK
          /\ bound \in Bindings
          /\ worker \in Workers
          /\ look \in Looks
          /\ watched \subseteq Lives
          /\ quiet \in 0 .. Scans

Start == [at |-> "ask", sig |-> "TERM", listed |-> FALSE, todo |-> {},
          targets |-> {}, aim |-> 0, same |-> FALSE,
          tries |-> 0, attempts |-> 0, clears |-> 0]

\* The controller binds a process it once saw, may have failed to read it, or
\* never had one.
Init == /\ TableInit
        /\ bound \in {Unbound}
             \cup {[pid |-> p, life |-> p, required |-> TRUE, valid |-> TRUE] :
                     p \in Pids}
             \cup {Unread(p) : p \in Pids}
        /\ worker = Start
        /\ look = NoLook /\ watched = {} /\ quiet = 0

\* On to another place, with a new list of PIDs if that needs one.
Going(place) == [worker EXCEPT !.at = place, !.listed = FALSE, !.todo = {},
                               !.targets = {}]

GoTo(place) == worker' = Going(place)

\* Most steps of the worker only read.
Reads == UNCHANGED <<tableVars, bound, look, watched, quiet>>
-----------------------------------------------------------------------------
(* One list of PIDs, and then the path of one PID after the other, while   *)
(* processes come and go.                                                  *)

Display == Engines \cup Foreigners

\* DLAllProcessIdentifiers()
ListPids ==
  /\ worker.at \in Listings /\ ~worker.listed
  /\ \/ GoTo("failed")
     \/ worker' = [worker EXCEPT !.listed = TRUE,
                                 !.todo = {p \in Pids : table[p].life # 0}]
  /\ watched' = IF worker.at = "scan-list" THEN {table[p].life : p \in Display}
                ELSE watched
  /\ UNCHANGED <<tableVars, bound, look, quiet>>

\* A round of the loop of DLEngineProcessIdentifiers()
LookForEngine(p) ==
  /\ worker.at \in Listings \ {"foreign"} /\ p \in worker.todo
  /\ worker' = [worker EXCEPT !.todo = @ \ {p}, !.targets = @ \cup ({p} \cap Engines)]
  /\ Reads

LookedAt(place) == worker.at = place /\ worker.listed /\ worker.todo = {}
-----------------------------------------------------------------------------
\* [application terminate]: what the engine makes of it is its own business.
Ask == worker.at = "ask" /\ GoTo("enumerate") /\ Reads

(* DLSignalExactMainProcesses(), once with each signal.                    *)

Enumerate == /\ LookedAt("enumerate")
             /\ worker' = [worker EXCEPT !.at = "signal", !.listed = FALSE]
             /\ Reads

\* What is looked at, and when.
Looking(p) == /\ look' = [process |-> table[p], next |-> nextLife]
              /\ UNCHANGED <<tableVars, bound, watched, quiet>>

\* Seeded fault for SignalsWhatItAimedAt: the exact path is enough.
AimByPath(p) ==
  /\ worker.at = "signal" /\ p \in worker.targets
  /\ p \in Engines
  /\ worker' = [worker EXCEPT !.aim = p, !.at = "strike"]
  /\ Looking(p)

\* The path is read again; the bound PID has to be the bound process, too.
Aim(p) ==
  /\ worker.at = "signal" /\ p \in worker.targets
  /\ p \in Engines
  /\ worker' = [worker EXCEPT
                  !.aim = p,
                  !.at = IF bound.valid /\ p = bound.pid THEN "revalidate" ELSE "strike"]
  /\ Looking(p)

\* The path is another by now, or cannot be read.
Spare(p) ==
  /\ worker.at = "signal" /\ p \in worker.targets
  /\ p \notin Engines
  /\ worker' = [worker EXCEPT !.targets = @ \ {p}]
  /\ Reads

\* On to the next PID.
Aimed == worker' = [worker EXCEPT !.targets = @ \ {worker.aim}, !.aim = 0, !.at = "signal"]

Revalidate ==
  /\ worker.at = "revalidate"
  /\ \/ /\ "same" \in BoundStates(bound)
        /\ worker' = [worker EXCEPT !.at = "strike"]
        /\ look' = [look EXCEPT !.next = nextLife]
     \/ /\ BoundStates(bound) # {"same"}
        /\ Aimed /\ look' = NoLook
  /\ UNCHANGED <<tableVars, bound, watched, quiet>>

\* kill() reaches whoever has the PID by now; what the signal does to a process,
\* and when, is left to the process table.
Strike == /\ worker.at = "strike"
          /\ Aimed /\ look' = NoLook
          /\ UNCHANGED <<tableVars, bound, watched, quiet>>

AllSignalled == /\ worker.at = "signal" /\ worker.targets = {}
                /\ GoTo(IF worker.sig = "TERM" THEN "wait" ELSE "register")
                /\ Reads
-----------------------------------------------------------------------------
(* DLCurrentProcessWaitResult(), in the wait for SIGTERM and in each scan.  *)

CheckBound ==
  /\ worker.at \in {"wait", "scan"}
  /\ \E state \in BoundStates(bound) :
        worker' = IF \/ state = "uncertain"
                     \/ state = "same" /\ bound.pid \notin Engines
                  THEN Going("failed")
                  ELSE [worker EXCEPT
                          !.same = (state = "same"),
                          !.at = IF @ = "wait" THEN "wait-list" ELSE "scan-list"]
  /\ Reads

Running == worker.same \/ worker.targets # {}

\* Seeded fault for CleanupEnds: the time waited is not counted.
WaitListForever ==
  /\ LookedAt("wait-list")
  /\ IF Running THEN GoTo("wait") ELSE GoTo("register")
  /\ Reads

\* DLWaitForExactProcessesToExit()
WaitList ==
  /\ LookedAt("wait-list")
  /\ IF ~Running THEN GoTo("register")
     ELSE IF worker.tries < Waits
     THEN worker' = [Going("wait") EXCEPT !.tries = @ + 1]
     ELSE worker' = [Going("enumerate") EXCEPT !.sig = "KILL"]
  /\ Reads
-----------------------------------------------------------------------------
(* DLWaitForStableZeroState()                                              *)

\* launchctl says that a forbidden service is registered, says that none is,
\* or fails; services come and go as they like.
Registrations ==
  /\ worker.at \in {"register", "register-again"}
  /\ GoTo("failed") \/ GoTo(IF worker.at = "register" THEN "scan" ELSE "succeeded")
  /\ Reads

\* After a scan that decided nothing there is another one, up to the limit.
NextScan(clears) ==
  worker' = IF worker.attempts + 1 = Scans
            THEN [Going("failed") EXCEPT !.clears = clears]
            ELSE [Going("scan") EXCEPT !.clears = clears, !.attempts = @ + 1]

ScanEnds ==
  /\ quiet' = IF watched = {} THEN quiet + 1 ELSE 0
  /\ watched' = {}
  /\ UNCHANGED <<tableVars, bound, look>>

\* Seeded fault for SuccessMeansStable: the clear scans need not be in a row.
BusyScanForgiven == NextScan(worker.clears) /\ ScanEnds

BusyScan == NextScan(0) /\ ScanEnds

ScanList == /\ LookedAt("scan-list")
            /\ IF Running THEN BusyScan ELSE GoTo("foreign") /\ Reads

\* A round of the loop of DLScanForForeignDisplayLinkProcesses(): a process
\* whose path cannot be read is passed over unless its name is known.
LookForForeign(p) ==
  /\ worker.at = "foreign" /\ p \in worker.todo
  /\ \/ p \in Foreigners /\ BusyScan
     \/ /\ p \notin Foreigners
        /\ worker' = [worker EXCEPT !.todo = @ \ {p}]
        /\ Reads
     \/ /\ table[p].life # 0 /\ ~table[p].settled
        /\ GoTo("failed") /\ Reads

ClearScan ==
  /\ LookedAt("foreign")
  /\ IF worker.clears + 1 = Needed THEN GoTo("register-again")
     ELSE NextScan(worker.clears + 1)
  /\ ScanEnds
-----------------------------------------------------------------------------
\* Processes that are there before a step and after it, with a path that can
\* be read all the time and does not become the engine's.
Lasting == {table[p].life : p \in
              {q \in Display : /\ table'[q].life = table[q].life
                               /\ table'[q].settled
                               /\ table'[q].image = "engine" => q \in Engines}}

\* What happens meanwhile.
Environment == /\ TableStep
               /\ watched' = watched \cap Lasting
               /\ UNCHANGED <<bound, worker, look, quiet>>

WorkerStep == \/ Ask \/ ListPids \/ Enumerate \/ Revalidate \/ Strike \/ AllSignalled
              \/ \E p \in Pids : \/ LookForEngine(p) \/ LookForForeign(p)
                                \/ Aim(p) \/ Spare(p)
              \/ CheckBound \/ WaitList
              \/ Registrations \/ ScanList \/ ClearScan

Next == WorkerStep \/ Environment

\* The worker runs on a queue of its own, which the system keeps serving.
Spec == Init /\ [][Next]_vars /\ WF_vars(WorkerStep)
-----------------------------------------------------------------------------
(* Properties.                                                             *)

\* Success means that as many scans in a row as it takes were outlived by no
\* engine and no foreign executable that was there when they began: not by one
\* that was moved away from the engine's place between two looks, and whatever
\* came and went behind the list of PIDs.  Two kinds of survivors can be missed,
\* and each scan looks for them anew: one whose path cannot be read at a look,
\* and one that is moved into the engine's place after the look at the engines.
SuccessMeansStable == worker.at = "succeeded" => quiet >= Needed

\* Whoever kill() can reach had, when its path was checked, the exact engine's,
\* and is on the bound PID the bound process; or it was born and took the PID
\* after the last check.  Nobody else is signalled, however old the list.
SignalsWhatItAimedAt ==
  worker.at = "strike" =>
    LET reached == table[worker.aim].life
    IN  \/ reached = 0
        \/ reached >= look.next
        \/ /\ reached = look.process.life
           /\ look.process.settled /\ look.process.image = "engine"
           /\ bound.valid /\ worker.aim = bound.pid => reached = bound.life

\* A cleanup ends, whatever is born or dies meanwhile.
CleanupEnds == <>(worker.at \in {"succeeded", "failed"})

\* "Controller cleanup must bind the PID, process start time, and exact
\* canonical nested executable path, then revalidate that identity
\* immediately before signaling": what was looked at before kill() is the bound
\* process.
OnlyTheBoundIsSignalled ==
  worker.at = "strike" => bound.valid /\ look.process.life = bound.life

Contract == INSTANCE CleanupContract
  WITH alive   <- Alive,
       born    <- 1 .. (nextLife - 1),
       outcome <- IF worker.at \in {"succeeded", "failed"} THEN worker.at
                  ELSE "running"

\* The cleanup keeps the promise that the controller builds on: success means
\* that the bound process is gone for good, whoever has its PID now, and a
\* binding that could not be read is never reported gone.
ImplementsContract == Contract!Spec
=============================================================================
