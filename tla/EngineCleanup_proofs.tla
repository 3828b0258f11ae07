------------------------ MODULE EngineCleanup_proofs ------------------------
(***************************************************************************)
(* Proofs about EngineCleanup: whom a signal reaches, what success means,  *)
(* and that the cleanup implements its contract, for every number of PIDs, *)
(* processes, waits and scans.                                             *)
(*                                                                         *)
(* The invariant says what each look has established and why the processes *)
(* that come and go afterwards do not undo it: a start time is given to    *)
(* one process only and never again (TableSound), so what was bound, aimed *)
(* at or seen when a scan began keeps its PID until it is gone.            *)
(***************************************************************************)
EXTENDS EngineCleanup, TLAPS

\* Nobody has a start time that is yet to come, and no two have the same.
TableSound == /\ \A p \in Pids : table[p].life < nextLife
              /\ \A p, q \in Pids : table[p].life = table[q].life /\ table[p].life # 0
                                      => p = q

\* Whoever has the start time that is bound has the PID that is bound.
BoundSound == bound.valid =>
  /\ bound.pid \in Pids /\ bound.life \in 1 .. (nextLife - 1)
  /\ \A p \in Pids : table[p].life = bound.life => p = bound.pid

\* The PID that kill() is about to be given belongs to the engine whose path
\* was checked, to nobody, or to a process born after the last check; the bound
\* process was there at the first.
AimSound ==
  worker.at \in {"revalidate", "strike"} =>
    /\ worker.aim \in Pids
    /\ look.process.settled /\ look.process.image = "engine"
    /\ look.next <= nextLife
    /\ \/ table[worker.aim].life = 0
       \/ table[worker.aim].life >= look.next
       \/ table[worker.aim].life = look.process.life
    /\ worker.at = "revalidate" =>
         bound.valid /\ worker.aim = bound.pid /\ bound.life < look.next
    /\ worker.at = "strike" /\ bound.valid /\ worker.aim = bound.pid =>
         look.process.life = bound.life

\* From the check of the binding to the end of the scan, and to success.
GoneSound ==
  (\/ worker.at = "scan-list" /\ ~worker.same
   \/ worker.at \in {"foreign", "register-again", "succeeded"})
  => ProvenGone(bound)

\* A process that was there when the scan began will still be noticed.
Noticed(p) ==
  /\ table[p].settled /\ table[p].image # "other"
  /\ worker.at = "scan-list" =>
       p \in worker.todo \/ p \in worker.targets \/ table[p].image = "foreign"
  /\ worker.at = "foreign" =>
       table[p].image = "foreign" /\ (worker.listed => p \in worker.todo)

WatchSound ==
  /\ watched \subseteq Alive
  /\ worker.at = "scan" => ~worker.listed
  /\ (worker.at = "scan-list" /\ worker.listed) \/ worker.at = "foreign" =>
       \A p \in Pids : table[p].life \in watched => Noticed(p)

\* The counter of clear scans never runs ahead of the quiet ones.
CountSound ==
  /\ worker.clears <= quiet
  /\ worker.at \in {"register-again", "succeeded"} => Needed <= quiet
  /\ quiet <= worker.attempts
       + (IF worker.at \in {"register-again", "succeeded", "failed"} THEN 1 ELSE 0)

Inv == /\ TypeOK /\ TableSound /\ BoundSound /\ AimSound
       /\ GoneSound /\ WatchSound /\ CountSound

-----------------------------------------------------------------------------
(* What the environment does.                                              *)

\* What can have become of the process at a PID after one step of the table:
\* it changes its image by exec, which unsettles its path, or by a move.
Moves(p) ==
  \/ table'[p].life = 0
  \/ table'[p].life = nextLife /\ nextLife < nextLife'
  \/ /\ table'[p].life = table[p].life
     /\ table'[p].settled /\ table[p].settled /\ table[p].image # "other" =>
          table'[p].image # "other"

LEMMA TableMoves ==
  ASSUME TableOK, TableSound, TableStep
  PROVE  /\ TableOK' /\ TableSound'
         /\ nextLife <= nextLife'
         /\ \A p \in Pids : Moves(p)
<1> USE PidCountAssumption, MaxLifeAssumption DEF TableOK, TableSound, Process, Pids
<1> PICK p \in Pids : \/ \E image \in Images : Born(p, image)
                      \/ \E image \in Images : Execs(p, image)
                      \/ Settles(p)
                      \/ Dies(p)
                      \/ Moved(p)
  BY DEF TableStep
<1>1. CASE \E image \in Images : Born(p, image)
  <2> PICK image \in Images : Born(p, image)
    BY <1>1
  <2> DEFINE new == [life |-> nextLife, image |-> image, settled |-> FALSE]
  <2>1. /\ table' = [table EXCEPT ![p] = new] /\ new \in Process
        /\ nextLife' = nextLife + 1 /\ nextLife <= MaxLife
    BY DEF Born
  <2>2. new.life = nextLife
    OBVIOUS
  <2> HIDE DEF new
  <2>3. TableOK'
    BY <2>1
  <2>4. TableSound'
    BY <2>1, <2>2
  <2> QED
    BY <2>1, <2>2, <2>3, <2>4 DEF Moves
<1>2. CASE Settles(p)
  <2>1. TableOK'
    BY <1>2 DEF Settles
  <2>2. TableSound'
    BY <1>2 DEF Settles
  <2> QED
    BY <1>2, <2>1, <2>2 DEF Settles, Moves
<1>3. CASE Dies(p)
  <2>1. TableOK'
    BY <1>3 DEF Dies, Nobody, Images
  <2>2. TableSound'
    BY <1>3 DEF Dies, Nobody
  <2> QED
    BY <1>3, <2>1, <2>2 DEF Dies, Nobody, Moves
<1>4. CASE Moved(p)
  <2>1. TableOK'
    BY <1>4 DEF Moved, Images
  <2>2. TableSound'
    BY <1>4 DEF Moved
  <2> QED
    BY <1>4, <2>1, <2>2 DEF Moved, Engines, Foreigners, Moves
<1>5. ASSUME NEW image \in Images, Execs(p, image)
      PROVE  TableOK' /\ TableSound' /\ nextLife <= nextLife' /\ \A q \in Pids : Moves(q)
  <2> DEFINE new == [life |-> table[p].life, image |-> image, settled |-> FALSE]
  <2>1. table' = [table EXCEPT ![p] = new] /\ new \in Process /\ nextLife' = nextLife
    BY <1>5 DEF Execs
  <2>2. new.life = table[p].life /\ ~new.settled
    OBVIOUS
  <2> HIDE DEF new
  <2>3. TableOK'
    BY <2>1
  <2>4. TableSound'
    BY <2>1, <2>2
  <2> QED
    BY <2>1, <2>2, <2>3, <2>4 DEF Moves
<1> QED
  BY <1>1, <1>2, <1>3, <1>4, <1>5

LEMMA EnvironmentInv ==
  ASSUME Inv, Environment
  PROVE  Inv'
<1>1. /\ TableOK' /\ TableSound' /\ nextLife <= nextLife'
      /\ \A p \in Pids : Moves(p)
  BY TableMoves DEF Inv, TypeOK, Environment
<1>2. UNCHANGED <<bound, worker, look, quiet>> /\ watched' = watched \cap Lasting
  BY DEF Environment
<1>3. TypeOK'
  BY <1>1, <1>2 DEF Inv, TypeOK
<1> USE PidCountAssumption, MaxLifeAssumption
<1>4. /\ nextLife \in Nat \ {0} /\ nextLife' \in Nat \ {0}
      /\ \A p \in Pids : table[p].life \in Nat /\ table[p].life < nextLife
      /\ \A p \in Pids : table'[p].life \in Nat /\ table'[p].life < nextLife'
  BY <1>1 DEF Inv, TypeOK, TableOK, TableSound, Process
<1>5. BoundSound'
  <2> SUFFICES ASSUME bound.valid
               PROVE  /\ bound.pid \in Pids /\ bound.life \in 1 .. (nextLife' - 1)
                      /\ \A p \in Pids : table'[p].life = bound.life => p = bound.pid
    BY <1>2 DEF BoundSound
  <2> QED
    BY <1>1, <1>4 DEF Inv, BoundSound, Moves
<1>6. AimSound'
  <2> SUFFICES ASSUME worker.at \in {"revalidate", "strike"}
               PROVE  /\ look.next <= nextLife'
                      /\ \/ table'[worker.aim].life = 0
                         \/ table'[worker.aim].life >= look.next
                         \/ table'[worker.aim].life = look.process.life
    BY <1>2 DEF Inv, AimSound
  <2>1. /\ look.next \in Nat /\ look.next <= nextLife
        /\ worker.aim \in Pids /\ Moves(worker.aim)
    BY <1>1, MaxLifeAssumption DEF Inv, TypeOK, Looks, AimSound
  <2>2. look.next <= nextLife'
    BY <1>1, <1>4, <2>1
  <2> QED
    BY <1>4, <2>1, <2>2 DEF Inv, AimSound, Moves
<1>7. GoneSound'
  <2>1. ProvenGone(bound) => ProvenGone(bound)'
    BY <1>1, <1>2, <1>4 DEF Inv, BoundSound, ProvenGone, Alive, Moves
  <2> QED
    BY <1>2, <2>1 DEF Inv, GoneSound
<1>8. WatchSound'
  <2>1. ASSUME NEW life \in watched'
        PROVE  \E q \in Display :
                 /\ table[q].life = life /\ table'[q].life = life /\ life # 0
                 /\ table'[q].settled
                 /\ table'[q].image = "engine" => q \in Engines
    BY <1>2, <2>1 DEF Lasting, Display, Engines, Foreigners
  <2>2. watched' \subseteq Alive'
    BY <2>1 DEF Alive, Display, Engines, Foreigners
  <2>3. ASSUME NEW p \in Pids, table'[p].life \in watched'
        PROVE  /\ table[p].life \in watched
               /\ Noticed(p) => Noticed(p)'
    <3>1. PICK q \in Display : /\ table[q].life = table'[p].life
                               /\ table'[q].life = table'[p].life
                               /\ table'[p].life # 0 /\ table'[q].settled
                               /\ table'[q].image = "engine" => q \in Engines
      BY <2>1, <2>3
    <3>2. q \in Pids /\ table[q].settled /\ table[q].image # "other"
      BY <3>1 DEF Display, Engines, Foreigners
    <3>3. q = p
      BY <1>1, <3>1, <3>2 DEF TableSound
    <3>4. table[p].life \in watched
      BY <1>2, <2>3, <3>1, <3>3
    <3>5. table'[p].settled /\ table'[p].image # "other"
      BY <1>1, <1>4, <3>1, <3>2, <3>3 DEF Moves
    <3>6. table[p].image = "foreign" => table'[p].image = "foreign"
      <4>1. table'[p].image \in Images
        BY <1>1 DEF TableOK, Process
      <4> QED
        BY <3>1, <3>3, <3>5, <4>1 DEF Engines, Images
    <3> QED
      BY <1>2, <3>4, <3>5, <3>6 DEF Noticed
  <2>4. ASSUME NEW p \in Pids, table'[p].life \in watched',
               (worker.at = "scan-list" /\ worker.listed) \/ worker.at = "foreign"
        PROVE  Noticed(p)'
    <3>1. table[p].life \in watched /\ (Noticed(p) => Noticed(p)')
      BY <2>3, <2>4
    <3>2. Noticed(p)
      BY <2>4, <3>1 DEF Inv, WatchSound
    <3> QED
      BY <3>1, <3>2
  <2> QED
    BY <1>2, <2>2, <2>4 DEF Inv, WatchSound
<1>9. CountSound'
  BY <1>2 DEF Inv, CountSound
<1> QED
  BY <1>1, <1>3, <1>5, <1>6, <1>7, <1>8, <1>9 DEF Inv
-----------------------------------------------------------------------------
(* What the worker does.                                                   *)

\* The places of which the invariant says something.
Telling == {"revalidate", "strike", "scan-list", "foreign", "register-again", "succeeded"}

\* The worker only reads, or signals: the table and the binding stay.
LEMMA Still ==
  ASSUME Inv, UNCHANGED <<table, nextLife, bound>>
  PROVE  /\ TableOK' /\ TableSound' /\ BoundSound'
         /\ ProvenGone(bound)' = ProvenGone(bound)
BY DEF Inv, TypeOK, TableOK, TableSound, BoundSound, ProvenGone, Alive

\* Whoever is alive has a start time that was given out.
LEMMA AliveLives == ASSUME TableOK PROVE Alive \subseteq Lives
BY MaxLifeAssumption DEF TableOK, Process, Alive, Lives

\* A step of the worker to a place of which nothing is said.
LEMMA StepToElsewhere ==
  ASSUME Inv, UNCHANGED <<table, nextLife, bound, quiet>>,
         look' \in Looks, watched' \subseteq Alive,
         worker' \in Workers, worker'.at \notin Telling,
         worker'.at = "scan" => ~worker'.listed,
         worker'.clears = worker.clears,
         \/ worker'.attempts = worker.attempts
         \/ worker'.attempts = worker.attempts + 1,
         worker'.at # "failed" => worker.at \notin {"register-again", "succeeded", "failed"}
  PROVE  Inv'
<1>1. /\ TableOK' /\ TableSound' /\ BoundSound'
  BY Still
<1>2. TypeOK'
  <2>1. watched' \subseteq Lives
    BY AliveLives DEF Inv, TypeOK
  <2> QED
    BY <1>1, <2>1 DEF Inv, TypeOK
<1>3. AimSound' /\ GoneSound' /\ WatchSound'
  BY DEF Inv, AimSound, GoneSound, WatchSound, Telling, Alive
<1>4. CountSound'
  BY CountsAssumption DEF Inv, TypeOK, Workers, CountSound, Telling
<1> QED
  BY <1>1, <1>2, <1>3, <1>4 DEF Inv

LEMMA GoingFacts ==
  ASSUME Inv, NEW place \in Places
  PROVE  LET w == Going(place)
         IN  /\ w \in Workers /\ w.at = place
             /\ ~w.listed /\ w.todo = {} /\ w.targets = {}
             /\ w.clears = worker.clears /\ w.attempts = worker.attempts
BY DEF Inv, TypeOK, Workers, Going

\* The first half: the request to quit and the two rounds of signals.
LEMMA SignalInv ==
  ASSUME Inv,
         \/ Ask \/ Enumerate \/ Revalidate \/ Strike \/ AllSignalled
         \/ \E p \in Pids : Aim(p) \/ Spare(p)
  PROVE  Inv'
<1> USE DEF Reads, tableVars
<1>1. CASE Ask
  BY <1>1, GoingFacts, StepToElsewhere
     DEF Ask, GoTo, Places, Telling, Listings, Inv, TypeOK, AimSound, WatchSound
<1>2. CASE Enumerate
  <2>1. /\ worker' \in Workers /\ worker'.at = "signal"
        /\ worker'.clears = worker.clears
        /\ worker'.attempts = worker.attempts /\ worker.at = "enumerate"
    BY <1>2 DEF Enumerate, LookedAt, Inv, TypeOK, Workers, Places
  <2> QED
    BY <1>2, <2>1, StepToElsewhere DEF Enumerate, Telling, Inv, TypeOK, AimSound, WatchSound
<1>3. CASE AllSignalled
  BY <1>3, GoingFacts, StepToElsewhere
     DEF AllSignalled, GoTo, Places, Telling, Listings, Inv, TypeOK, AimSound, WatchSound
<1>4. ASSUME NEW p \in Pids, Spare(p)
      PROVE  Inv'
  <2>1. /\ worker' \in Workers /\ worker'.at = "signal"
        /\ worker'.clears = worker.clears
        /\ worker'.attempts = worker.attempts /\ worker.at = "signal"
    BY <1>4 DEF Spare, Inv, TypeOK, Workers, Places
  <2> QED
    BY <1>4, <2>1, StepToElsewhere DEF Spare, Telling, Inv, TypeOK, AimSound, WatchSound
<1>5. NoLook \in Looks
  BY PidCountAssumption, MaxLifeAssumption DEF NoLook, Looks, Nobody, Process, Images
<1>6. ASSUME Aimed, look' = NoLook, UNCHANGED <<tableVars, bound, watched, quiet>>,
             worker.at \in {"revalidate", "strike"}
      PROVE  Inv'
  <2>1. /\ worker' \in Workers /\ worker'.at = "signal"
        /\ worker'.clears = worker.clears /\ worker'.attempts = worker.attempts
    <3>1. 0 \in 0 .. PidCount /\ "signal" \in Places
      BY PidCountAssumption DEF Places
    <3>2. worker.targets \ {worker.aim} \subseteq Pids
      BY DEF Inv, TypeOK, Workers
    <3> QED
      BY <1>6, <3>1, <3>2 DEF Aimed, Inv, TypeOK, Workers
  <2> QED
    BY <1>5, <1>6, <2>1, StepToElsewhere DEF Telling, Inv, WatchSound
<1>7. CASE Strike
  BY <1>6, <1>7 DEF Strike
<1>8. ASSUME NEW at \in {"revalidate", "strike"}, worker' \in Workers, worker'.at = at,
             worker'.clears = worker.clears, worker'.attempts = worker.attempts,
             look' \in Looks, UNCHANGED <<tableVars, bound, watched, quiet>>,
             worker.at \in {"signal", "revalidate"}, AimSound'
      PROVE  Inv'
  <2>1. /\ TableOK' /\ TableSound' /\ BoundSound'
    BY <1>8, Still
  <2>2. TypeOK'
    BY <1>8, <2>1 DEF Inv, TypeOK
  <2>3. GoneSound' /\ WatchSound' /\ CountSound'
    BY <1>8 DEF Inv, GoneSound, WatchSound, CountSound, Alive
  <2> QED
    BY <1>8, <2>1, <2>2, <2>3 DEF Inv
<1>9. CASE Revalidate
  <2>1. CASE /\ "same" \in BoundStates(bound)
             /\ worker' = [worker EXCEPT !.at = "strike"]
             /\ look' = [look EXCEPT !.next = nextLife]
    <3>1. bound.valid /\ table[bound.pid].life = bound.life
      BY <2>1 DEF BoundStates
    <3>2. /\ worker' \in Workers /\ worker'.at = "strike" /\ worker'.aim = worker.aim
          /\ worker'.clears = worker.clears /\ worker'.attempts = worker.attempts
      BY <2>1 DEF Inv, TypeOK, Workers, Places
    <3>3. /\ look' \in Looks /\ look'.process = look.process /\ look'.next = nextLife
      BY <2>1, MaxLifeAssumption DEF Inv, TypeOK, TableOK, Looks
    <3>4. /\ worker.aim \in Pids /\ worker.aim = bound.pid
          /\ look.process.settled /\ look.process.image = "engine"
          /\ bound.life < look.next /\ bound.life \in 1 .. (nextLife - 1)
          /\ \/ bound.life = 0 \/ bound.life >= look.next
             \/ bound.life = look.process.life
      BY <1>9, <3>1 DEF Revalidate, Inv, AimSound, BoundSound
    <3>5. look.next \in Nat /\ nextLife \in Nat
      BY MaxLifeAssumption DEF Inv, TypeOK, TableOK, Looks
    <3>6. bound.life = look.process.life
      BY <3>4, <3>5
    <3>7. UNCHANGED <<table, nextLife, bound>>
      BY <1>9 DEF Revalidate
    <3>8. AimSound'
      BY <3>1, <3>2, <3>3, <3>4, <3>5, <3>6, <3>7 DEF AimSound
    <3> QED
      BY <1>8, <1>9, <3>2, <3>3, <3>8 DEF Revalidate
  <2>2. CASE Aimed /\ look' = NoLook
    BY <1>6, <1>9, <2>2 DEF Revalidate
  <2> QED
    BY <1>9, <2>1, <2>2 DEF Revalidate
<1>10. ASSUME NEW p \in Pids, Aim(p)
       PROVE  Inv'
  <2>0. table[p].settled /\ table[p].image = "engine"
    BY <1>10 DEF Aim, Engines
  <2>1. /\ table[p] \in Process /\ table[p].settled /\ table[p].image = "engine"
        /\ nextLife \in 0 .. (MaxLife + 1)
    BY <2>0, MaxLifeAssumption DEF Inv, TypeOK, TableOK
  <2>2. p \in 0 .. PidCount
    BY PidCountAssumption DEF Pids
  <2>3. PICK at \in {"revalidate", "strike"} :
          /\ worker' = [worker EXCEPT !.aim = p, !.at = at]
          /\ at = "revalidate" <=> bound.valid /\ p = bound.pid
    BY <1>10 DEF Aim
  <2>4. /\ worker' \in Workers /\ worker'.at = at /\ worker'.aim = p
        /\ worker'.clears = worker.clears
        /\ worker'.attempts = worker.attempts /\ worker.at = "signal"
    BY <1>10, <2>2, <2>3 DEF Aim, Inv, TypeOK, Workers, Places
  <2>5. /\ look' \in Looks /\ look'.process = table[p] /\ look'.next = nextLife
        /\ UNCHANGED <<table, nextLife, bound>>
    BY <1>10, <2>1 DEF Aim, Looking, Looks
  <2>6. bound.valid => bound.life < nextLife
    BY <2>1 DEF Inv, BoundSound
  <2>7. AimSound'
    BY <2>1, <2>3, <2>4, <2>5, <2>6 DEF AimSound
  <2> QED
    BY <1>8, <1>10, <2>4, <2>5, <2>7 DEF Aim, Looking
<1> QED
  BY <1>1, <1>2, <1>3, <1>4, <1>7, <1>9, <1>10

\* The steps that look for processes, and the wait for SIGTERM.
LEMMA LookInv ==
  ASSUME Inv,
         \/ ListPids \/ CheckBound \/ WaitList \/ Registrations
         \/ \E p \in Pids : LookForEngine(p)
  PROVE  Inv'
<1> USE DEF Reads, tableVars
<1>1. CASE ListPids
  <2>1. UNCHANGED <<table, nextLife, bound, look, quiet>> /\ worker.at \in Listings
    BY <1>1 DEF ListPids
  <2>5. watched' \subseteq Alive
    <3>1. {table[p].life : p \in Display} \subseteq Alive
      BY DEF Display, Engines, Foreigners, Alive
    <3>2. watched' = {table[p].life : p \in Display} \/ watched' = watched
      BY <1>1 DEF ListPids
    <3> QED
      BY <3>1, <3>2 DEF Inv, WatchSound
  <2>6. CASE GoTo("failed")
    BY <2>1, <2>5, <2>6, GoingFacts, StepToElsewhere
       DEF GoTo, Places, Telling, Listings, Inv, TypeOK, AimSound
  <2>7. CASE worker' = [worker EXCEPT !.listed = TRUE,
                                      !.todo = {p \in Pids : table[p].life # 0}]
    <3>1. /\ worker' \in Workers /\ worker'.at = worker.at /\ worker'.listed
          /\ worker'.todo = {p \in Pids : table[p].life # 0}
          /\ worker'.clears = worker.clears
          /\ worker'.attempts = worker.attempts /\ worker'.same = worker.same
          /\ worker'.targets = worker.targets
      BY <2>7 DEF Inv, TypeOK, Workers
    <3>2. CASE worker.at \notin {"scan-list", "foreign"}
      BY <2>1, <2>5, <3>1, <3>2, StepToElsewhere
         DEF Telling, Listings, Inv, TypeOK, AimSound
    <3>3. CASE worker.at \in {"scan-list", "foreign"}
      <4>1. TableOK' /\ TableSound' /\ BoundSound' /\ ProvenGone(bound)' = ProvenGone(bound)
        BY <2>1, Still
      <4>2. watched' \subseteq Lives
        BY <2>5, AliveLives DEF Inv, TypeOK
      <4>3. TypeOK'
        BY <2>1, <3>1, <4>1, <4>2 DEF Inv, TypeOK
      <4>4. AimSound' /\ GoneSound' /\ CountSound'
        BY <2>1, <3>1, <3>3, <4>1 DEF Inv, AimSound, GoneSound, CountSound
      <4>5. ASSUME NEW p \in Pids, table[p].life \in watched'
            PROVE  Noticed(p)'
        <5>1. table[p].life # 0
          BY <2>5, <4>5 DEF Alive
        <5>2. CASE worker.at = "scan-list"
          <6>1. PICK q \in Display : table[p].life = table[q].life
            BY <1>1, <4>5, <5>2 DEF ListPids
          <6>2. q = p
            BY <5>1, <6>1 DEF Inv, TableSound, Display, Engines, Foreigners
          <6>3. table[p].settled /\ table[p].image # "other"
            BY <6>1, <6>2 DEF Display, Engines, Foreigners
          <6> QED
            BY <2>1, <3>1, <5>1, <5>2, <6>3 DEF Noticed
        <5>3. CASE worker.at = "foreign"
          <6>1. table[p].life \in watched
            BY <1>1, <4>5, <5>3 DEF ListPids
          <6>2. Noticed(p)
            BY <5>3, <6>1 DEF Inv, WatchSound
          <6> QED
            BY <2>1, <3>1, <5>1, <5>3, <6>2 DEF Noticed
        <5> QED
          BY <3>3, <5>2, <5>3
      <4>6. WatchSound'
        BY <2>1, <2>5, <3>1, <3>3, <4>5 DEF WatchSound, Alive
      <4> QED
        BY <4>1, <4>3, <4>4, <4>6 DEF Inv
    <3> QED
      BY <3>2, <3>3
  <2> QED
    BY <1>1, <2>6, <2>7 DEF ListPids
<1>2. CASE CheckBound
  <2>1. PICK state \in BoundStates(bound) :
          worker' = IF \/ state = "uncertain"
                       \/ state = "same" /\ bound.pid \notin Engines
                    THEN Going("failed")
                    ELSE [worker EXCEPT
                            !.same = (state = "same"),
                            !.at = IF @ = "wait" THEN "wait-list" ELSE "scan-list"]
    BY <1>2 DEF CheckBound
  <2>2. UNCHANGED <<table, nextLife, bound, look, watched, quiet>>
        /\ worker.at \in {"wait", "scan"}
    BY <1>2 DEF CheckBound
  <2>3. CASE worker' = Going("failed")
    BY <2>2, <2>3, GoingFacts, StepToElsewhere
       DEF Places, Telling, Listings, Inv, TypeOK, AimSound, WatchSound
  <2>4. CASE worker' # Going("failed")
    <3>1. /\ state # "uncertain"
          /\ worker' = [worker EXCEPT !.same = (state = "same"),
                            !.at = IF @ = "wait" THEN "wait-list" ELSE "scan-list"]
      BY <2>1, <2>4
    <3>2. /\ worker' \in Workers
          /\ worker'.at = IF worker.at = "wait" THEN "wait-list" ELSE "scan-list"
          /\ worker'.same = (state = "same") /\ worker'.listed = worker.listed
          /\ worker'.clears = worker.clears
          /\ worker'.attempts = worker.attempts
      BY <3>1 DEF Inv, TypeOK, Workers, Places, Listings
    <3>3. CASE worker.at = "wait"
      BY <2>2, <3>2, <3>3, StepToElsewhere DEF Telling, Inv, TypeOK, AimSound, WatchSound
    <3>4. CASE worker.at = "scan"
      <4>1. TableOK' /\ TableSound' /\ BoundSound' /\ ProvenGone(bound)' = ProvenGone(bound)
        BY <2>2, Still
      <4>2. TypeOK' /\ AimSound' /\ CountSound'
        BY <2>2, <3>2, <3>4, <4>1 DEF Inv, TypeOK, AimSound, CountSound
      <4>3. state # "same" => ProvenGone(bound)
        BY <3>1 DEF BoundStates, ProvenGone, Alive, Inv, BoundSound
      <4>4. GoneSound'
        BY <3>2, <3>4, <4>1, <4>3 DEF GoneSound
      <4>5. WatchSound'
        <5>1. /\ worker'.at = "scan-list" /\ ~worker.listed
              /\ watched \subseteq Alive
          BY <3>2, <3>4 DEF Inv, WatchSound
        <5>2. ~worker'.listed
          BY <3>2, <5>1
        <5> QED
          BY <2>2, <5>1, <5>2 DEF WatchSound, Alive
      <4> QED
        BY <4>1, <4>2, <4>4, <4>5 DEF Inv
    <3> QED
      BY <2>2, <3>3, <3>4
  <2> QED
    BY <2>3, <2>4
<1>3. CASE WaitList
  <2>1. /\ worker.at = "wait-list"
        /\ UNCHANGED <<table, nextLife, bound, look, watched, quiet>>
    BY <1>3 DEF WaitList, LookedAt
  <2>2. /\ worker' \in Workers /\ worker'.at \in {"register", "wait", "enumerate"}
        /\ worker'.clears = worker.clears
        /\ worker'.attempts = worker.attempts
    <3>1. CASE ~Running
      BY <1>3, <3>1, GoingFacts DEF WaitList, GoTo, Places
    <3>2. CASE Running /\ worker.tries < Waits
      <4>1. worker' = [Going("wait") EXCEPT !.tries = @ + 1]
        BY <1>3, <3>2 DEF WaitList
      <4>2. "wait" \in Places /\ Going("wait").tries + 1 \in 0 .. Waits
        BY <3>2, CountsAssumption DEF Places, Going, Inv, TypeOK, Workers
      <4> QED
        BY <4>1, <4>2, GoingFacts DEF Workers
    <3>3. CASE Running /\ ~(worker.tries < Waits)
      <4>1. worker' = [Going("enumerate") EXCEPT !.sig = "KILL"]
        BY <1>3, <3>3 DEF WaitList
      <4>2. "enumerate" \in Places
        BY DEF Places, Listings
      <4> QED
        BY <4>1, <4>2, GoingFacts DEF Workers
    <3> QED
      BY <3>1, <3>2, <3>3
  <2> QED
    BY <2>1, <2>2, StepToElsewhere DEF Telling, Inv, TypeOK, AimSound, WatchSound
<1>4. CASE Registrations
  <2>1. UNCHANGED <<table, nextLife, bound, look, watched, quiet>>
    BY <1>4 DEF Registrations
  <2>2. CASE GoTo("failed") \/ worker.at = "register"
    BY <1>4, <2>1, <2>2, GoingFacts, StepToElsewhere
       DEF Registrations, GoTo, Places, Telling, Inv, TypeOK, AimSound, WatchSound
  <2>3. CASE worker.at = "register-again" /\ worker' = Going("succeeded")
    <3>1. TableOK' /\ TableSound' /\ BoundSound' /\ ProvenGone(bound)' = ProvenGone(bound)
      BY <2>1, Still
    <3>2. /\ worker' \in Workers /\ worker'.at = "succeeded"
          /\ worker'.clears = worker.clears
          /\ worker'.attempts = worker.attempts
      BY <2>3, GoingFacts DEF Places
    <3>3. TypeOK' /\ AimSound' /\ GoneSound' /\ WatchSound' /\ CountSound'
      BY <2>1, <2>3, <3>1, <3>2
         DEF Inv, TypeOK, AimSound, GoneSound, WatchSound, CountSound, Alive
    <3> QED
      BY <3>1, <3>3 DEF Inv
  <2> QED
    BY <1>4, <2>2, <2>3 DEF Registrations, GoTo
<1>5. ASSUME NEW p \in Pids, LookForEngine(p)
      PROVE  Inv'
  <2>1. /\ UNCHANGED <<table, nextLife, bound, look, watched, quiet>>
        /\ worker.at \in Listings \ {"foreign"}
    BY <1>5 DEF LookForEngine
  <2>2. /\ worker' \in Workers /\ worker'.at = worker.at
        /\ worker'.listed = worker.listed /\ worker'.same = worker.same
        /\ worker'.todo = worker.todo \ {p}
        /\ worker'.targets = worker.targets \cup ({p} \cap Engines)
        /\ worker'.clears = worker.clears
        /\ worker'.attempts = worker.attempts
    BY <1>5 DEF LookForEngine, Inv, TypeOK, Workers
  <2>3. CASE worker.at # "scan-list"
    BY <2>1, <2>2, <2>3, StepToElsewhere
       DEF Listings, Telling, Inv, TypeOK, AimSound, WatchSound
  <2>4. CASE worker.at = "scan-list"
    <3>1. TableOK' /\ TableSound' /\ BoundSound' /\ ProvenGone(bound)' = ProvenGone(bound)
      BY <2>1, Still
    <3>2. TypeOK' /\ AimSound' /\ GoneSound' /\ CountSound'
      BY <2>1, <2>2, <2>4, <3>1 DEF Inv, TypeOK, AimSound, GoneSound, CountSound
    <3>3. ASSUME NEW q \in Pids, table[q].life \in watched, worker.listed
          PROVE  Noticed(q)'
      <4>1. Noticed(q) /\ table[q].life # 0
        BY <2>4, <3>3 DEF Inv, WatchSound, Alive
      <4>2. table[q].image \in Images
        BY DEF Inv, TypeOK, TableOK, Process
      <4>3. q = p => q \in Engines \/ table[q].image = "foreign"
        BY <4>1, <4>2 DEF Noticed, Engines, Images
      <4> QED
        BY <2>1, <2>2, <2>4, <4>1, <4>3 DEF Noticed
    <3>4. WatchSound'
      BY <2>1, <2>2, <2>4, <3>3 DEF Inv, WatchSound, Alive
    <3> QED
      BY <3>1, <3>2, <3>4 DEF Inv
  <2> QED
    BY <2>3, <2>4
<1> QED
  BY <1>1, <1>2, <1>3, <1>4, <1>5

\* A scan that was not the last one needed is over.
LEMMA NextScanInv ==
  ASSUME Inv, worker.at \in {"scan-list", "foreign"}, ScanEnds,
         NEW clears \in 0 .. (Needed - 1), NextScan(clears), clears <= quiet'
  PROVE  Inv'
<1>1. UNCHANGED <<table, nextLife, bound, look>> /\ watched' = {}
  BY DEF ScanEnds, tableVars
<1>2. TableOK' /\ TableSound' /\ BoundSound'
  BY <1>1, Still
<1>3. /\ worker' \in Workers /\ worker'.at \in {"failed", "scan"}
      /\ ~worker'.listed /\ worker'.clears = clears
      /\ IF worker'.at = "failed"
         THEN worker'.attempts = worker.attempts /\ worker.attempts + 1 = Scans
         ELSE worker'.attempts = worker.attempts + 1 /\ worker.attempts + 1 < Scans
  <2>1. worker.attempts \in 0 .. (Scans - 1)
    BY DEF Inv, TypeOK, Workers
  <2>2. CASE worker.attempts + 1 = Scans
    <3>1. worker' = [Going("failed") EXCEPT !.clears = clears]
      BY <2>2 DEF NextScan
    <3>2. "failed" \in Places
      BY DEF Places
    <3> QED
      BY <2>2, <3>1, <3>2, GoingFacts DEF Workers
  <2>3. CASE worker.attempts + 1 # Scans
    <3>1. worker' = [Going("scan") EXCEPT !.clears = clears, !.attempts = @ + 1]
      BY <2>3 DEF NextScan
    <3>2. /\ "scan" \in Places /\ worker.attempts + 1 < Scans
          /\ worker.attempts + 1 \in 0 .. (Scans - 1)
      BY <2>1, <2>3, CountsAssumption DEF Places
    <3>3. /\ Going("scan") \in Workers /\ Going("scan").attempts = worker.attempts
          /\ Going("scan").at = "scan" /\ ~Going("scan").listed
      BY <3>2, GoingFacts
    <3>4. /\ worker' \in Workers /\ worker'.attempts = worker.attempts + 1
          /\ worker'.clears = clears /\ worker'.at = "scan"
          /\ worker'.listed = Going("scan").listed
      BY <3>1, <3>2, <3>3 DEF Workers
    <3> QED
      BY <2>3, <3>2, <3>3, <3>4
  <2> QED
    BY <2>2, <2>3
<1>4. /\ quiet \in Nat /\ quiet' \in Nat /\ quiet' <= quiet + 1
      /\ worker.attempts \in Nat /\ quiet <= worker.attempts
  BY CountsAssumption DEF ScanEnds, Inv, TypeOK, Workers, CountSound
<1>5. TypeOK'
  BY <1>1, <1>2, <1>3, <1>4, CountsAssumption DEF Inv, TypeOK, Workers
<1>6. AimSound' /\ GoneSound' /\ WatchSound'
  BY <1>1, <1>3 DEF Inv, AimSound, GoneSound, WatchSound
<1>7. CountSound'
  BY <1>3, <1>4 DEF CountSound
<1> QED
  BY <1>2, <1>5, <1>6, <1>7 DEF Inv

LEMMA ScanInv ==
  ASSUME Inv, ScanList \/ ClearScan \/ \E p \in Pids : LookForForeign(p)
  PROVE  Inv'
<1> USE DEF Reads, tableVars
<1>1. /\ worker.clears \in 0 .. (Needed - 1) /\ worker.clears <= quiet
      /\ quiet \in Nat /\ Needed \in Nat \ {0}
  BY CountsAssumption DEF Inv, TypeOK, Workers, CountSound
<1>2. ASSUME BusyScan, worker.at \in {"scan-list", "foreign"}
      PROVE  Inv'
  <2>1. 0 <= quiet'
    BY <1>1, <1>2 DEF BusyScan, ScanEnds
  <2> QED
    BY <1>1, <1>2, <2>1, NextScanInv DEF BusyScan
<1>3. CASE ScanList
  <2>1. CASE Running
    BY <1>2, <1>3, <2>1 DEF ScanList, LookedAt
  <2>2. CASE ~Running
    <3>1. /\ UNCHANGED <<table, nextLife, bound, look, watched, quiet>>
          /\ worker.at = "scan-list" /\ worker.listed /\ worker.todo = {}
          /\ worker.targets = {} /\ ~worker.same /\ worker' = Going("foreign")
      BY <1>3, <2>2 DEF ScanList, LookedAt, Running, GoTo
    <3>2. TableOK' /\ TableSound' /\ BoundSound' /\ ProvenGone(bound)' = ProvenGone(bound)
      BY <3>1, Still
    <3>3. /\ worker' \in Workers /\ worker'.at = "foreign" /\ ~worker'.listed
          /\ worker'.clears = worker.clears
          /\ worker'.attempts = worker.attempts
      BY <3>1, GoingFacts DEF Places, Listings
    <3>4. TypeOK' /\ AimSound' /\ GoneSound' /\ CountSound'
      BY <3>1, <3>2, <3>3 DEF Inv, TypeOK, AimSound, GoneSound, CountSound
    <3>5. ASSUME NEW p \in Pids, table[p].life \in watched
          PROVE  Noticed(p)'
      <4>1. Noticed(p)
        BY <3>1, <3>5 DEF Inv, WatchSound
      <4> QED
        BY <3>1, <3>3, <4>1 DEF Noticed
    <3>6. WatchSound'
      BY <3>1, <3>3, <3>5 DEF Inv, WatchSound, Alive
    <3> QED
      BY <3>2, <3>4, <3>6 DEF Inv
  <2> QED
    BY <2>1, <2>2
<1>4. ASSUME NEW p \in Pids, LookForForeign(p)
      PROVE  Inv'
  <2>1. worker.at = "foreign"
    BY <1>4 DEF LookForForeign
  <2>2. CASE BusyScan
    BY <1>2, <2>1, <2>2
  <2>3. CASE GoTo("failed") /\ Reads
    BY <2>1, <2>3, GoingFacts, StepToElsewhere
       DEF GoTo, Places, Telling, Inv, TypeOK, AimSound, WatchSound
  <2>4. CASE /\ p \notin Foreigners
             /\ worker' = [worker EXCEPT !.todo = @ \ {p}]
             /\ Reads
    <3>1. /\ UNCHANGED <<table, nextLife, bound, look, watched, quiet>>
          /\ worker' \in Workers /\ worker'.at = "foreign"
          /\ worker'.listed = worker.listed /\ worker'.todo = worker.todo \ {p}
          /\ worker'.clears = worker.clears
          /\ worker'.attempts = worker.attempts
      BY <2>1, <2>4 DEF Inv, TypeOK, Workers
    <3>2. TableOK' /\ TableSound' /\ BoundSound' /\ ProvenGone(bound)' = ProvenGone(bound)
      BY <3>1, Still
    <3>3. TypeOK' /\ AimSound' /\ GoneSound' /\ CountSound'
      BY <2>1, <3>1, <3>2 DEF Inv, TypeOK, AimSound, GoneSound, CountSound
    <3>4. ASSUME NEW q \in Pids, table[q].life \in watched
          PROVE  Noticed(q)'
      <4>1. Noticed(q) /\ table[q].life # 0
        BY <2>1, <3>4 DEF Inv, WatchSound, Alive
      <4>2. q # p
        BY <2>1, <2>4, <4>1 DEF Noticed, Foreigners
      <4> QED
        BY <2>1, <3>1, <4>1, <4>2 DEF Noticed
    <3>5. WatchSound'
      BY <3>1, <3>4 DEF Inv, WatchSound, Alive
    <3> QED
      BY <3>2, <3>3, <3>5 DEF Inv
  <2> QED
    BY <1>4, <2>2, <2>3, <2>4 DEF LookForForeign
<1>5. CASE ClearScan
  <2>1. /\ worker.at = "foreign" /\ worker.listed /\ worker.todo = {} /\ ScanEnds
    BY <1>5 DEF ClearScan, LookedAt
  <2>2. watched = {}
    BY <2>1 DEF Inv, WatchSound, Noticed, Alive
  <2>3. quiet' = quiet + 1
    BY <2>1, <2>2 DEF ScanEnds
  <2>4. CASE worker.clears + 1 # Needed
    <3>1. /\ worker.clears + 1 \in 0 .. (Needed - 1) /\ worker.clears + 1 <= quiet'
          /\ NextScan(worker.clears + 1)
      BY <1>1, <1>5, <2>3, <2>4 DEF ClearScan
    <3> QED
      BY <2>1, <3>1, NextScanInv
  <2>5. CASE worker.clears + 1 = Needed
    <3>1. worker' = Going("register-again")
      BY <1>5, <2>5 DEF ClearScan, GoTo
    <3>2. /\ UNCHANGED <<table, nextLife, bound, look>> /\ watched' = {}
          /\ worker' \in Workers /\ worker'.at = "register-again"
          /\ worker'.clears = worker.clears
          /\ worker'.attempts = worker.attempts
      BY <2>1, <3>1, GoingFacts DEF ScanEnds, Places
    <3>3. TableOK' /\ TableSound' /\ BoundSound' /\ ProvenGone(bound)' = ProvenGone(bound)
      BY <3>2, Still
    <3>4. worker.attempts \in 0 .. (Scans - 1) /\ quiet <= worker.attempts
      BY <2>1 DEF Inv, TypeOK, Workers, CountSound
    <3>5. TypeOK'
      BY <1>1, <2>3, <3>2, <3>3, <3>4, CountsAssumption DEF Inv, TypeOK
    <3>6. AimSound' /\ GoneSound' /\ WatchSound'
      BY <2>1, <3>2, <3>3 DEF Inv, AimSound, GoneSound, WatchSound
    <3>7. CountSound'
      BY <1>1, <2>3, <2>5, <3>2, <3>4 DEF CountSound
    <3> QED
      BY <3>3, <3>5, <3>6, <3>7 DEF Inv
  <2> QED
    BY <2>4, <2>5
<1> QED
  BY <1>3, <1>4, <1>5
-----------------------------------------------------------------------------
(* The invariant, and what follows from it.                                *)

LEMMA InitInv ==
  ASSUME Init
  PROVE  Inv
<1> USE PidCountAssumption, MaxLifeAssumption, CountsAssumption
<1>1. /\ TableOK /\ nextLife = PidCount + 1
      /\ \A p \in Pids : table[p].life \in {0, p}
  BY DEF Init, TableInit, TableOK, Nobody, Pids
<1>2. TableSound
  BY <1>1 DEF TableSound, Pids
<1>3. bound \in Bindings
  <2>1. CASE bound = Unbound
    BY <2>1 DEF Unbound, Bindings
  <2>2. ASSUME NEW p \in Pids
        PROVE  /\ Unread(p) \in Bindings
               /\ [pid |-> p, life |-> p, required |-> TRUE, valid |-> TRUE] \in Bindings
    <3>1. p \in 0 .. PidCount /\ p \in 0 .. MaxLife /\ 0 \in 0 .. MaxLife
      BY DEF Pids
    <3> QED
      BY <3>1 DEF Unread, Bindings
  <2> QED
    BY <2>1, <2>2 DEF Init
<1>4. bound.valid => bound.pid \in Pids /\ bound.life = bound.pid
  BY DEF Init, Unbound, Unread
<1>5. BoundSound
  BY <1>1, <1>4 DEF BoundSound, Pids
<1>6. worker \in Workers /\ worker.at = "ask"
      /\ worker.clears = 0 /\ worker.attempts = 0
  BY DEF Init, Start, Workers, Places
<1>7. TypeOK
  <2>1. NoLook \in Looks
    BY DEF NoLook, Looks, Nobody, Process, Images
  <2> QED
    BY <1>1, <1>3, <1>6, <2>1 DEF Init, TypeOK, Lives
<1>8. AimSound /\ GoneSound /\ WatchSound /\ CountSound
  BY <1>1, <1>6 DEF Init, AimSound, GoneSound, WatchSound, CountSound
<1> QED
  BY <1>2, <1>5, <1>7, <1>8 DEF Inv

LEMMA NextInv ==
  ASSUME Inv, [Next]_vars
  PROVE  Inv'
<1>1. CASE WorkerStep
  BY <1>1, SignalInv, LookInv, ScanInv DEF WorkerStep
<1>2. CASE Environment
  BY <1>2, EnvironmentInv
<1>3. CASE UNCHANGED vars
  BY <1>3 DEF vars, tableVars, Inv, TypeOK, TableOK, TableSound, BoundSound, AimSound,
              GoneSound, WatchSound, CountSound, Noticed, ProvenGone, Alive
<1> QED
  BY <1>1, <1>2, <1>3 DEF Next

THEOREM Invariance == Spec => []Inv
<1>1. Init => Inv
  BY InitInv
<1>2. Inv /\ [Next]_vars => Inv'
  BY NextInv
<1> QED
  BY <1>1, <1>2, PTL DEF Spec

\* Every variable of a cleanup keeps its type; in particular the history of
\* quiet scans never exceeds the number of scans that
\* DLWaitForStableZeroState() may make.
THEOREM TypeCorrect == Spec => []TypeOK
<1>1. Inv => TypeOK
  BY DEF Inv
<1> QED
  BY <1>1, Invariance, PTL

\* When DLPerformCleanup() reports success, the last scans in a row, as many
\* as it needs, were outlived by no display process that was there when they
\* began, with a path that could be read throughout and that was not moved into
\* the engine's place: for every table, number of PIDs and order of the looks.
THEOREM StableSuccess == Spec => []SuccessMeansStable
<1>1. Inv => SuccessMeansStable
  BY DEF Inv, CountSound, SuccessMeansStable
<1> QED
  BY <1>1, Invariance, PTL

\* DLSignalExactMainProcesses() gives kill() the PID of a process that had the
\* exact path when it was checked, and on the bound PID that of the bound process;
\* whoever else can be reached was born after the last check.
THEOREM ExactSignals == Spec => []SignalsWhatItAimedAt
<1>1. Inv => SignalsWhatItAimedAt
  BY DEF Inv, AimSound, SignalsWhatItAimedAt
<1> QED
  BY <1>1, Invariance, PTL
-----------------------------------------------------------------------------
(* The cleanup implements its contract.                                    *)

Outcome == IF worker.at \in {"succeeded", "failed"} THEN worker.at ELSE "running"

\* A worker that goes on, gives up or succeeds.
LEMMA WorkerImplements ==
  ASSUME Inv, Inv', WorkerStep
  PROVE  [Contract!Next]_(Contract!vars)
<1>1. /\ UNCHANGED <<table, nextLife, bound>> /\ Outcome = "running"
  BY DEF WorkerStep, Ask, ListPids, Enumerate, Revalidate, Strike, AllSignalled,
         LookForEngine, LookForForeign, Aim, Spare, Looking, Aimed, CheckBound, WaitList, Registrations, ScanList,
         ClearScan, BusyScan, ScanEnds, Reads, tableVars, LookedAt, Listings, Outcome
<1>2. Alive' = Alive
  BY <1>1 DEF Alive
<1>3. CASE Outcome' = "running"
  BY <1>1, <1>2, <1>3 DEF Contract!vars, Outcome
<1>4. CASE Outcome' = "failed"
  BY <1>1, <1>2, <1>4 DEF Contract!Next, Contract!Fail, Outcome
<1>5. CASE Outcome' = "succeeded"
  <2>1. ProvenGone(bound)'
    BY <1>5 DEF Inv, GoneSound, Outcome
  <2>2. bound.required => bound.valid /\ bound.life \notin Alive
    BY <1>1, <1>2, <2>1 DEF ProvenGone
  <2> QED
    BY <1>1, <1>2, <1>5, <2>2 DEF Contract!Next, Contract!Succeed, Outcome
<1> QED
  BY <1>3, <1>4, <1>5 DEF Outcome

\* Processes are born and die; nothing else shows in the contract.
LEMMA EnvironmentImplements ==
  ASSUME Inv, Environment
  PROVE  [Contract!Next]_(Contract!vars)
<1> USE PidCountAssumption, MaxLifeAssumption
<1>1. UNCHANGED <<bound, worker>> /\ Outcome' = Outcome
  BY DEF Environment, Outcome
<1>2. /\ table \in [Pids -> Process] /\ nextLife \in 1 .. (MaxLife + 1)
      /\ \A p \in Pids : table[p].life \in 0 .. (nextLife - 1)
      /\ \A p, q \in Pids : table[p].life = table[q].life /\ table[p].life # 0 => p = q
  BY DEF Inv, TypeOK, TableOK, TableSound, Process
<1> PICK p \in Pids : \/ \E image \in Images : Born(p, image)
                      \/ \E image \in Images : Execs(p, image)
                      \/ Settles(p)
                      \/ Dies(p)
                      \/ Moved(p)
  BY DEF Environment, TableStep
<1>3. CASE Settles(p) \/ Moved(p) \/ \E image \in Images : Execs(p, image)
  <2>1. nextLife' = nextLife /\ \A q \in Pids : table'[q].life = table[q].life
    BY <1>2, <1>3 DEF Settles, Moved, Execs, Process
  <2>2. Alive' = Alive
    BY <2>1 DEF Alive
  <2> QED
    BY <1>1, <2>1, <2>2 DEF Contract!vars, Outcome
<1>4. CASE Dies(p)
  <2>1. /\ table' = [table EXCEPT ![p] = Nobody] /\ nextLife' = nextLife
        /\ table[p].life \in Alive
    BY <1>4 DEF Dies, Alive
  <2>2. Alive' = Alive \ {table[p].life}
    BY <1>2, <2>1 DEF Alive, Nobody
  <2>3. Contract!Death
    BY <1>1, <2>1, <2>2 DEF Contract!Death, Outcome
  <2> QED
    BY <2>3 DEF Contract!Next
<1>5. ASSUME NEW image \in Images, Born(p, image)
      PROVE  [Contract!Next]_(Contract!vars)
  <2>1. /\ table[p].life = 0 /\ nextLife \in Lives /\ nextLife' = nextLife + 1
        /\ table'[p].life = nextLife
        /\ \A q \in Pids \ {p} : table'[q] = table[q]
    BY <1>2, <1>5 DEF Born, Lives
  <2>2. Alive' = Alive \cup {nextLife}
    BY <1>2, <2>1 DEF Alive
  <2>3. /\ 1 .. (nextLife' - 1) = 1 .. (nextLife - 1) \cup {nextLife}
        /\ nextLife \notin 1 .. (nextLife - 1)
    BY <1>2, <2>1
  <2>4. Contract!Birth
    BY <1>1, <2>1, <2>2, <2>3 DEF Contract!Birth, Outcome
  <2> QED
    BY <2>4 DEF Contract!Next
<1> QED
  BY <1>3, <1>4, <1>5

\* DLPerformCleanup() keeps the contract that the controller's model uses in
\* its place: a success it reports means that the bound process is gone.
THEOREM KeepsContract == Spec => ImplementsContract
<1>1. Init => Contract!Init
  <2> SUFFICES ASSUME Init
               PROVE  Contract!Init
    OBVIOUS
  <2>1. Inv
    BY InitInv
  <2>2. \A p \in Pids : table[p].life \in 0 .. (nextLife - 1)
    BY <2>1, MaxLifeAssumption DEF Inv, TypeOK, TableOK, TableSound, Process
  <2>3. Alive \subseteq 1 .. (nextLife - 1)
    BY <2>1, <2>2, MaxLifeAssumption DEF Alive, Inv, TypeOK, TableOK
  <2>4. 1 .. (nextLife - 1) \subseteq Lives
    BY <2>1, MaxLifeAssumption DEF Inv, TypeOK, TableOK, Lives
  <2>5. worker.at = "ask"
    BY DEF Init, Start
  <2> QED
    BY <2>1, <2>3, <2>4, <2>5 DEF Contract!Init, Inv, BoundSound
<1>2. Inv /\ Inv' /\ [Next]_vars => [Contract!Next]_(Contract!vars)
  <2> SUFFICES ASSUME Inv, Inv', [Next]_vars
               PROVE  [Contract!Next]_(Contract!vars)
    OBVIOUS
  <2>1. CASE UNCHANGED vars
    BY <2>1 DEF vars, tableVars, Contract!vars, Alive
  <2> QED
    BY <2>1, WorkerImplements, EnvironmentImplements DEF Next
<1> QED
  BY <1>1, <1>2, Invariance, PTL DEF Spec, ImplementsContract, Contract!Spec
=============================================================================
