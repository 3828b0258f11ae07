---------------------------- MODULE ProcessTable ----------------------------
(***************************************************************************)
(* The macOS process table as controller/main.m sees it.  A PID is used    *)
(* again as soon as its process is gone; the start time that libproc       *)
(* reports tells the processes that had one PID apart.                     *)
(*                                                                         *)
(* What the controller asks about an executable's path has three answers:  *)
(* the exact nested engine, another known USB-display executable           *)
(* ("foreign"), or neither.  It cannot be read yet when the process has    *)
(* just been born or is between exec and a stable path.                    *)
(***************************************************************************)
EXTENDS Naturals

CONSTANTS PidCount,     \* bound: how many PIDs there are
          MaxLife       \* bound: how many processes are ever born

ASSUME PidCountAssumption == PidCount \in Nat \ {0}
ASSUME MaxLifeAssumption == MaxLife \in Nat /\ MaxLife >= PidCount

VARIABLES table,        \* table[p]: the process that has PID p
          nextLife      \* the start time of the next process

tableVars == <<table, nextLife>>

Pids == 1 .. PidCount

Lives == 1 .. MaxLife

Images == {"engine", "foreign", "other"}

\* life 0: nobody has the PID
Process == [life : 0 .. MaxLife, image : Images, settled : BOOLEAN]

Nobody == [life |-> 0, image |-> "other", settled |-> FALSE]

TableOK == /\ table \in [Pids -> Process]
           /\ nextLife \in 1 .. (MaxLife + 1)

\* Processes from before; life p had PID p and may be gone by now.
TableInit == /\ table \in [Pids -> Process]
             /\ \A p \in Pids : table[p] = Nobody \/ table[p].life = p
             /\ nextLife = PidCount + 1

Alive == {table[p].life : p \in Pids} \ {0}

\* DLEngineProcessIdentifiers(): the PIDs with the exact engine path.
Engines == {p \in Pids : /\ table[p].life # 0 /\ table[p].settled
                         /\ table[p].image = "engine"}

Foreigners == {p \in Pids : /\ table[p].life # 0 /\ table[p].settled
                            /\ table[p].image = "foreign"}

\* What DLScanForForeignDisplayLinkProcesses() may answer; the enumeration
\* itself may always fail, and an unresolved process may resolve in time.
ForeignScans == {"uncertain"} \cup (IF Foreigners = {} THEN {"clear"} ELSE {"found"})
-----------------------------------------------------------------------------
(* A DLProcessIdentity: a PID and the start time read from it.             *)

Bindings == [pid : 0 .. PidCount, life : 0 .. MaxLife,
             required : BOOLEAN, valid : BOOLEAN]

Unbound == [pid |-> 0, life |-> 0, required |-> FALSE, valid |-> FALSE]

\* A binding to whoever has the PID now, and one whose read failed.
BoundTo(p) == [pid |-> p, life |-> table[p].life, required |-> TRUE, valid |-> TRUE]

Unread(p) == [pid |-> p, life |-> 0, required |-> TRUE, valid |-> FALSE]

\* Seeded fault for ImplementsContract: a failed read is no binding.
BoundStatesLenient(b) ==
  IF ~b.valid THEN {"not-bound"}
  ELSE IF table[b.pid].life = b.life THEN {"same", "uncertain"}
  ELSE IF table[b.pid].life = 0 THEN {"gone"}
  ELSE {"gone", "uncertain"}

\* What DLStateOfBoundProcess() may answer; the read of a process that is
\* there may fail.
BoundStates(b) ==
  IF ~b.valid THEN IF b.required THEN {"uncertain"} ELSE {"not-bound"}
  ELSE IF table[b.pid].life = b.life THEN {"same", "uncertain"}
  ELSE IF table[b.pid].life = 0 THEN {"gone"}
  ELSE {"gone", "uncertain"}

\* What a cleanup has to prove of a binding.
ProvenGone(b) == b.required => b.valid /\ b.life \notin Alive
-----------------------------------------------------------------------------
Born(p, image) == /\ table[p].life = 0 /\ nextLife <= MaxLife
                  /\ table' = [table EXCEPT ![p] = [life |-> nextLife,
                                                    image |-> image,
                                                    settled |-> FALSE]]
                  /\ nextLife' = nextLife + 1

Settles(p) == /\ table[p].life # 0 /\ ~table[p].settled
              /\ table' = [table EXCEPT ![p].settled = TRUE]
              /\ UNCHANGED nextLife

\* By itself, because it was asked to, or because of a signal.
Dies(p) == /\ table[p].life # 0
           /\ table' = [table EXCEPT ![p] = Nobody]
           /\ UNCHANGED nextLife

\* A process goes on with another executable.
Execs(p, image) == /\ table[p].life # 0
                   /\ table' = [table EXCEPT ![p] = [life |-> table[p].life,
                                                     image |-> image,
                                                     settled |-> FALSE]]
                   /\ UNCHANGED nextLife

\* A bundle is moved while it runs, out of the engine's place or into it; the
\* name of the executable stays known.
Moved(p) == /\ p \in Engines \cup Foreigners
            /\ table' = [table EXCEPT ![p].image = IF @ = "engine" THEN "foreign"
                                                  ELSE "engine"]
            /\ UNCHANGED nextLife

TableStep == \E p \in Pids : \/ \E image \in Images : Born(p, image) \/ Execs(p, image)
                             \/ Settles(p)
                             \/ Dies(p)
                             \/ Moved(p)
=============================================================================
