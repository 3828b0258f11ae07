----------------------- MODULE TransitionParser_proofs -----------------------
(***************************************************************************)
(* Proofs about DockMachine and about TransitionParser, which runs over    *)
(* it, in three parts.                                                     *)
(*                                                                         *)
(* Machines.  The heart is Bound: a machine's remembered epoch is one the  *)
(* transport has already drawn, so it can equal the current one only if    *)
(* nothing was drawn since the machine attached, and everything that       *)
(* breaks the link draws one (Moved).                                      *)
(*                                                                         *)
(* The binding: one that is live is unbroken.  The generation carries the  *)
(* argument.  A machine that left the attached states can come back to     *)
(* them only through an attachment, and an attachment takes a generation   *)
(* nobody has: so as long as the bound generation is still there, the      *)
(* machine is in the attachment the parser was bound to, and in that one a *)
(* broken link is never exact again (NeverRevived).                        *)
(*                                                                         *)
(* The stream: a live parser is what its trace makes of it (OnStream).     *)
(* Each active matcher is faithful to the whole trace, so one more         *)
(* transfer keeps exactly the profiles that explain it too; the tables are *)
(* chains, so a matcher never has two candidates and never hits its limit. *)
(***************************************************************************)
EXTENDS TransitionParser, Operators_proofs

-----------------------------------------------------------------------------
(* Machines: how operations move the epoch and the link.                   *)

\* What any operation of the transport does to the epoch and to the link:
\* it leaves both alone, or the epoch becomes 0 or one never drawn before.
Moved(f, g) ==
  /\ g.nextEpoch >= f.nextEpoch
  /\ \/ g.epoch = f.epoch /\ (IsOpen(g) <=> IsOpen(f))
     \/ g.epoch = 0
     \/ g.epoch >= f.nextEpoch

LEMMA DrawnMoves ==
  ASSUME NEW f, NEW g, Sound(f), Drawn(f, g)
  PROVE  Moved(f, g)
<1>1. f.nextEpoch \in 1 .. EpochMax
  BY DEF Sound, Fakes
<1> QED
  BY <1>1, EpochAssumption DEF Drawn, Moved, Taken, After

LEMMA SameMoves ==
  ASSUME NEW f, Sound(f)
  PROVE  Moved(f, f)
BY DEF Sound, Fakes, Moved

LEMMA OpenedMoves ==
  ASSUME NEW f, Sound(f)
  PROVE  Sound(Opened(f)) /\ Moved(f, Opened(f))
<1>1. CASE f.connected /\ ~f.open
  BY <1>1, OpenedLifecycle, DrawnMoves, OpenedSound
<1>2. CASE ~(f.connected /\ ~f.open)
  BY <1>2, OpenedLifecycle, SameMoves, OpenedSound
<1> QED
  BY <1>1, <1>2

LEMMA ClosedMoves ==
  ASSUME NEW f, Sound(f)
  PROVE  Sound(Closed(f)) /\ Moved(f, Closed(f)) /\ ~IsOpen(Closed(f))
<1>1. CASE f.open
  BY <1>1, ClosedLifecycle, DrawnMoves, ClosedSound DEF IsOpen
<1>2. CASE ~f.open
  <2>1. f.nextEpoch \in Nat
    BY DEF Sound, Fakes
  <2>2. ~IsOpen(f) /\ ~IsOpen(Closed(f))
    BY <1>2, ClosedLifecycle DEF IsOpen
  <2>3. Closed(f).epoch = f.epoch /\ Closed(f).nextEpoch = f.nextEpoch
    BY <1>2, ClosedLifecycle DEF Kept
  <2>4. Moved(f, Closed(f))
    BY <2>1, <2>2, <2>3 DEF Moved
  <2> QED
    BY <2>2, <2>4, ClosedSound
<1> QED
  BY <1>1, <1>2

LEMMA DisconnectedMoves ==
  ASSUME NEW f, Sound(f)
  PROVE  Sound(Disconnected(f)) /\ Moved(f, Disconnected(f))
<1>1. CASE f.connected
  BY <1>1, DisconnectedLifecycle, DrawnMoves, DisconnectedSound
<1>2. CASE ~f.connected
  BY <1>2, DisconnectedLifecycle, SameMoves, DisconnectedSound
<1> QED
  BY <1>1, <1>2

LEMMA ReconnectedMoves ==
  ASSUME NEW f, Sound(f)
  PROVE  Sound(Reconnected(f)) /\ Moved(f, Reconnected(f))
<1>1. CASE ~f.connected
  BY <1>1, ReconnectedLifecycle, DrawnMoves, ReconnectedSound
<1>2. CASE f.connected
  BY <1>2, ReconnectedLifecycle, SameMoves, ReconnectedSound
<1> QED
  BY <1>1, <1>2

LEMMA FreshMoves ==
  ASSUME NEW f, Sound(f)
  PROVE  Sound(Fresh(f.nextEpoch)) /\ Moved(f, Fresh(f.nextEpoch))
<1>1. f.nextEpoch \in 1 .. EpochMax
  BY DEF Sound, Fakes
<1> QED
  BY <1>1, FreshSound, DrawnMoves DEF Drawn, Fresh

\* db_machine_attach() that got no epoch: the open is undone by a close.
LEMMA ReclosedMoves ==
  ASSUME NEW f, Sound(f)
  PROVE  /\ Sound(Closed(Opened(f)))
         /\ Moved(f, Closed(Opened(f)))
<1> DEFINE g == Opened(f)
           h == Closed(g)
<1>1. Sound(g) /\ Moved(f, g)
  BY OpenedMoves
<1>2. Sound(h) /\ Moved(g, h)
  <2> HIDE DEF g
  <2> QED
    BY <1>1, ClosedMoves
<1> HIDE DEF g, h
<1>3. /\ f.nextEpoch \in Nat /\ g.nextEpoch \in Nat /\ h.nextEpoch \in Nat
      /\ f.epoch \in Nat /\ g.epoch \in Nat /\ h.epoch \in Nat
  BY <1>1, <1>2, EpochAssumption DEF Sound, Fakes
<1>4. Moved(f, h)
  BY <1>1, <1>2, <1>3 DEF Moved
<1> QED
  BY <1>2, <1>4 DEF g, h
-----------------------------------------------------------------------------
(* The inductive invariant.                                                *)

Bound == \A m \in Machines :
           /\ machine[m].epoch < fake.nextEpoch
           /\ machine[m].epoch # 0 /\ machine[m].epoch = fake.epoch
                => IsOpen(fake) /\ ~interrupted[m]

Numbered == \A m \in Machines : machine[m].generation < nextGeneration

Settled == /\ AttachedIsBound
           /\ \A m \in Machines :
                 machine[m].state = "offline" => machine[m].topology = "none"

Inv == /\ TypeOK /\ Sound(fake)
       /\ Bound
       /\ Numbered
       /\ GenerationsDiffer
       /\ Settled

\* How the steps that are not an attachment change the machines: each keeps
\* its epoch or loses it, and the history watches the link.
Loosened == \A m \in Machines :
              /\ machine'[m].epoch \in {0, machine[m].epoch}
              /\ IsOpen(fake') => interrupted'[m] = interrupted[m]

LEMMA BoundKept ==
  ASSUME TypeOK, TypeOK', Bound, Moved(fake, fake'), Loosened
  PROVE  Bound'
<1> SUFFICES ASSUME NEW m \in Machines
             PROVE  /\ machine'[m].epoch < fake'.nextEpoch
                    /\ machine'[m].epoch # 0 /\ machine'[m].epoch = fake'.epoch
                         => IsOpen(fake') /\ ~interrupted'[m]
  BY DEF Bound
<1>1. /\ fake.nextEpoch \in 1 .. EpochMax /\ fake'.nextEpoch \in 1 .. EpochMax
      /\ fake.epoch \in Nat /\ fake'.epoch \in Nat
      /\ machine[m].epoch \in Nat /\ machine'[m].epoch \in Nat
  BY EpochAssumption DEF TypeOK, Fakes, DBMachine
<1>2. machine'[m].epoch \in {0, machine[m].epoch}
  BY DEF Loosened
<1>3. machine'[m].epoch < fake'.nextEpoch
  BY <1>1, <1>2, EpochAssumption DEF Bound, Moved
<1>4. ASSUME machine'[m].epoch # 0, machine'[m].epoch = fake'.epoch
      PROVE  IsOpen(fake') /\ ~interrupted'[m]
  <2>1. machine[m].epoch = fake'.epoch /\ machine[m].epoch # 0
    BY <1>2, <1>4
  <2>2. machine[m].epoch < fake.nextEpoch
    BY DEF Bound
  <2>3. fake'.epoch = fake.epoch /\ (IsOpen(fake') <=> IsOpen(fake))
    BY <1>1, <2>1, <2>2 DEF Moved
  <2>4. IsOpen(fake) /\ ~interrupted[m]
    BY <2>1, <2>3 DEF Bound
  <2>5. IsOpen(fake')
    BY <2>3, <2>4
  <2> QED
    BY <2>4, <2>5 DEF Loosened
<1> QED
  BY <1>3, <1>4

LEMMA InitInv == Init => Inv
<1> SUFFICES ASSUME Init PROVE Inv
  OBVIOUS
<1>1. 1 \in 1 .. EpochMax /\ 1 \in 1 .. GenMax
  BY EpochAssumption, GenAssumption
<1>2. fake \in Fakes /\ Sound(fake)
  BY <1>1, FreshSound DEF Init, Sound
<1>3. Blank \in DBMachine
  BY EpochAssumption, GenAssumption DEF Blank, DBMachine, States
<1>4. TypeOK
  BY <1>1, <1>2, <1>3 DEF TypeOK, Init
<1>5. \A m \in Machines : /\ machine[m].epoch = 0 /\ machine[m].generation = 0
                           /\ machine[m].state = "offline"
                           /\ machine[m].topology = "none"
  BY DEF Init, Blank
<1>6. 0 < fake.nextEpoch
  BY <1>2 DEF Fakes
<1> QED
  BY <1>2, <1>4, <1>5, <1>6
     DEF Inv, Bound, Numbered, GenerationsDiffer, Settled, AttachedIsBound,
         Init

LEMMA LooseInv ==
  ASSUME Inv, TypeOK', Sound(fake'), Moved(fake, fake'), Loosened,
         Settled',
         nextGeneration' >= nextGeneration,
         \A m \in Machines :
            machine'[m].generation \in {0, machine[m].generation}
  PROVE  Inv'
<1>1. Bound'
  BY BoundKept DEF Inv
<1>2. nextGeneration \in Nat /\ nextGeneration' \in Nat
  BY GenAssumption DEF Inv, TypeOK
<1>3. \A m \in Machines : /\ machine[m].generation \in Nat
                           /\ machine[m].generation < nextGeneration
                           /\ 0 < nextGeneration
  BY GenAssumption DEF Inv, TypeOK, DBMachine, Numbered
<1>4. Numbered'
  BY <1>2, <1>3 DEF Numbered
<1>5. GenerationsDiffer'
  BY DEF Inv, GenerationsDiffer
<1> QED
  BY <1>1, <1>4, <1>5 DEF Inv

\* A successful or half-successful attachment of m: its generation is the
\* one just taken, its epoch the one the opened transport shows.
LEMMA AttachedInv ==
  ASSUME Inv, TypeOK', Sound(fake'), Moved(fake, fake'), Settled',
         NEW m \in Machines,
         TakenGeneration # 0, nextGeneration' = AfterGeneration,
         machine'[m].generation = TakenGeneration,
         machine'[m].epoch \in {0, fake'.epoch},
         machine'[m].epoch # 0 => IsOpen(fake') /\ ~interrupted'[m],
         \A n \in Machines \ {m} :
            /\ machine'[n] = machine[n]
            /\ IsOpen(fake') => interrupted'[n] = interrupted[n]
  PROVE  Inv'
<1>1. /\ TakenGeneration = nextGeneration
      /\ nextGeneration \in Nat /\ nextGeneration' = nextGeneration + 1
  BY GenAssumption DEF Inv, TypeOK, TakenGeneration, AfterGeneration
<1>2. \A n \in Machines : /\ machine[n].generation \in Nat
                           /\ machine[n].generation < nextGeneration
  BY GenAssumption DEF Inv, TypeOK, DBMachine, Numbered
<1>3. Numbered'
  BY <1>1, <1>2 DEF Numbered
<1>4. GenerationsDiffer'
  <2> SUFFICES ASSUME NEW n \in Machines, NEW k \in Machines, n # k,
                      machine'[n].generation = machine'[k].generation
               PROVE  machine'[n].generation = 0
    BY DEF GenerationsDiffer
  <2>1. CASE n = m
    BY <1>1, <1>2, <2>1
  <2>2. CASE k = m
    BY <1>1, <1>2, <2>2
  <2>3. CASE n # m /\ k # m
    BY <2>3 DEF Inv, GenerationsDiffer
  <2> QED
    BY <2>1, <2>2, <2>3
<1>5. Bound'
  <2> SUFFICES ASSUME NEW n \in Machines
               PROVE  /\ machine'[n].epoch < fake'.nextEpoch
                      /\ machine'[n].epoch # 0 /\ machine'[n].epoch = fake'.epoch
                           => IsOpen(fake') /\ ~interrupted'[n]
    BY DEF Bound
  <2>1. /\ fake.nextEpoch \in Nat /\ fake'.nextEpoch \in Nat
        /\ fake.epoch \in Nat /\ fake'.epoch \in Nat
        /\ fake'.epoch < fake'.nextEpoch /\ 0 < fake'.nextEpoch
        /\ machine[n].epoch \in Nat
    BY EpochAssumption DEF Inv, TypeOK, Fakes, DBMachine, Sound
  <2>2. CASE n = m
    BY <2>1, <2>2
  <2>3. ASSUME n # m PROVE machine'[n].epoch < fake'.nextEpoch
    BY <2>1, <2>3 DEF Inv, Bound, Moved
  <2>4. ASSUME n # m, machine'[n].epoch # 0, machine'[n].epoch = fake'.epoch
        PROVE  IsOpen(fake') /\ ~interrupted'[n]
    <3>1. /\ machine[n].epoch # 0 /\ machine[n].epoch = fake'.epoch
          /\ machine[n].epoch < fake.nextEpoch
      BY <2>4 DEF Inv, Bound
    <3>2. fake'.epoch = fake.epoch /\ (IsOpen(fake') <=> IsOpen(fake))
      BY <2>1, <3>1 DEF Moved
    <3>3. IsOpen(fake) /\ ~interrupted[n]
      BY <3>1, <3>2 DEF Inv, Bound
    <3>4. IsOpen(fake')
      BY <3>2, <3>3
    <3> QED
      BY <2>4, <3>3, <3>4
  <2> QED
    BY <2>2, <2>3, <2>4
<1> QED
  BY <1>3, <1>4, <1>5 DEF Inv
-----------------------------------------------------------------------------
(* Every step preserves the invariant: one lemma for each action.          *)

\* What the conditions of an attachment say of the generations.
LEMMA TakenFacts ==
  ASSUME TypeOK
  PROVE  /\ TakenGeneration \in 0 .. (GenMax - 1)
         /\ AfterGeneration \in 1 .. GenMax
         /\ AfterGeneration >= nextGeneration
BY GenAssumption DEF TypeOK, TakenGeneration, AfterGeneration

\* A machine that faults and changes nothing else leaves the rest of Inv alone.
LEMMA FaultInv ==
  ASSUME Inv, NEW m \in Machines,
         UNCHANGED <<fake, kind, interrupted>>,
         nextGeneration' \in 1 .. GenMax, nextGeneration' >= nextGeneration,
         machine' = [machine EXCEPT ![m].state = "fault"]
  PROVE  Inv'
<1>1. TypeOK'
  BY DEF Inv, TypeOK, DBMachine, States
<1>2. Sound(fake') /\ Moved(fake, fake')
  BY SameMoves DEF Inv
<1>3. /\ Loosened
      /\ \A n \in Machines : machine'[n].generation \in {0, machine[n].generation}
  BY DEF Loosened, Inv, TypeOK, DBMachine
<1>4. Settled'
  BY DEF Inv, TypeOK, Settled, AttachedIsBound, DBMachine
<1> QED
  BY <1>1, <1>2, <1>3, <1>4, LooseInv

LEMMA AttachWithoutGenerationInv ==
  ASSUME Inv, NEW m \in Machines, NEW x, AttachWithoutGeneration(m, x)
  PROVE  Inv'
BY FaultInv, TakenFacts DEF AttachWithoutGeneration, MayAttach, Inv

LEMMA AttachUnopenedInv ==
  ASSUME Inv, NEW m \in Machines, NEW x, AttachUnopened(m, x)
  PROVE  Inv'
BY FaultInv, TakenFacts DEF AttachUnopened, MayAttach, Inv

LEMMA ReportTransportFaultInv ==
  ASSUME Inv, NEW m \in Machines, NEW r, ReportTransportFault(m, r)
  PROVE  Inv'
<1>1. nextGeneration \in 1 .. GenMax /\ nextGeneration >= nextGeneration
  BY GenAssumption DEF Inv, TypeOK
<1> QED
  BY <1>1, FaultInv DEF ReportTransportFault

LEMMA AttachWithoutEpochInv ==
  ASSUME Inv, NEW m \in Machines, NEW x, AttachWithoutEpoch(m, x)
  PROVE  Inv'
<1>1. /\ Sound(fake') /\ Moved(fake, fake') /\ ~IsOpen(fake')
      /\ fake' \in Fakes
  BY ReclosedMoves, OpenedMoves, ClosedMoves
     DEF AttachWithoutEpoch, Inv, Sound
<1>2. TakenGeneration \in 0 .. (GenMax - 1) /\ nextGeneration' \in 1 .. GenMax
  BY TakenFacts DEF AttachWithoutEpoch, MayAttach, Inv
<1> DEFINE b == [machine[m] EXCEPT !.state = "fault", !.identity = x,
                                   !.generation = TakenGeneration,
                                   !.epoch = 0]
<1>0. x = "exact" /\ 0 \in 0 .. (EpochMax - 1)
  BY EpochAssumption DEF AttachWithoutEpoch, MayAttach
<1>3. /\ machine' = [machine EXCEPT ![m] = b]
      /\ b \in DBMachine /\ b.epoch = 0 /\ b.state = "fault"
      /\ b.generation = TakenGeneration
  BY <1>0, <1>2
     DEF AttachWithoutEpoch, Inv, TypeOK, DBMachine, States
<1> HIDE DEF b
<1>4. /\ machine' \in [Machines -> DBMachine]
      /\ machine'[m] = b
      /\ \A n \in Machines \ {m} : machine'[n] = machine[n]
  BY <1>3 DEF Inv, TypeOK
<1>5. interrupted' \in [Machines -> BOOLEAN]
  BY DEF AttachWithoutEpoch, Watch
<1>6. TypeOK'
  BY <1>1, <1>2, <1>4, <1>5 DEF AttachWithoutEpoch, MayAttach, Inv, TypeOK
<1>7. Settled'
  BY <1>3, <1>4 DEF Inv, Settled, AttachedIsBound
<1>8. TakenGeneration # 0 /\ nextGeneration' = AfterGeneration
  BY DEF AttachWithoutEpoch, MayAttach
<1> QED
  BY <1>1, <1>3, <1>4, <1>6, <1>7, <1>8, AttachedInv

LEMMA AttachInv ==
  ASSUME Inv, NEW m \in Machines, NEW x, Attach(m, x)
  PROVE  Inv'
<1>1. Sound(fake') /\ Moved(fake, fake') /\ fake' \in Fakes
  BY OpenedMoves DEF Attach, Inv, Sound
<1>2. TakenGeneration \in 0 .. (GenMax - 1) /\ nextGeneration' \in 1 .. GenMax
  BY TakenFacts DEF Attach, MayAttach, Inv
<1>3. fake.connected
  BY DEF Attach, OpenResult
<1>4. IsOpen(fake')
  BY <1>3, OpenedLifecycle DEF Attach, Inv, IsOpen
<1>5. fake'.epoch \in 0 .. (EpochMax - 1) /\ fake'.epoch # 0
  BY <1>1 DEF Fakes, Attach
<1> DEFINE b == [machine[m] EXCEPT !.state = "attached", !.identity = x,
                                   !.generation = TakenGeneration,
                                   !.epoch = fake'.epoch]
<1>6. machine[m].state = "offline" /\ x = "exact"
  BY DEF Attach, MayAttach
<1>7. /\ machine' = [machine EXCEPT ![m] = b]
      /\ b \in DBMachine /\ b.epoch = fake'.epoch /\ b.state = "attached"
      /\ b.generation = TakenGeneration /\ b.identity = "exact"
      /\ b.topology = "none"
  BY <1>2, <1>5, <1>6 DEF Attach, Inv, Settled, TypeOK, DBMachine, States
<1> HIDE DEF b
<1>8. /\ machine' \in [Machines -> DBMachine]
      /\ machine'[m] = b
      /\ \A n \in Machines \ {m} : machine'[n] = machine[n]
  BY <1>7 DEF Inv, TypeOK
<1>9. /\ interrupted' \in [Machines -> BOOLEAN]
      /\ ~interrupted'[m]
      /\ \A n \in Machines \ {m} : interrupted'[n] = interrupted[n]
  BY DEF Attach, Inv, TypeOK
<1>10. TypeOK'
  BY <1>1, <1>2, <1>8, <1>9 DEF Attach, MayAttach, Inv, TypeOK
<1>11. TakenGeneration # 0 /\ nextGeneration' = AfterGeneration
  BY DEF Attach, MayAttach
<1>12. Settled'
  BY <1>5, <1>7, <1>8, <1>11 DEF Inv, Settled, AttachedIsBound
<1> QED
  BY <1>1, <1>4, <1>7, <1>8, <1>9, <1>10, <1>11, <1>12, AttachedInv

\* VerifyTopology and RequestActivation: the link and the counters rest.
LEMMA RestInv ==
  ASSUME Inv, NEW m \in Machines, NEW b \in DBMachine,
         UNCHANGED <<fake, kind, nextGeneration, interrupted>>,
         machine' = [machine EXCEPT ![m] = b],
         b.epoch \in {0, machine[m].epoch},
         b.generation \in {0, machine[m].generation},
         Settled'
  PROVE  Inv'
<1>1. TypeOK'
  BY DEF Inv, TypeOK
<1>2. Sound(fake') /\ Moved(fake, fake')
  BY SameMoves DEF Inv
<1>3. /\ Loosened
      /\ \A n \in Machines : machine'[n].generation \in {0, machine[n].generation}
  BY DEF Loosened, Inv, TypeOK
<1>4. nextGeneration' >= nextGeneration
  BY GenAssumption DEF Inv, TypeOK
<1> QED
  BY <1>1, <1>2, <1>3, <1>4, LooseInv

LEMMA VerifyTopologyInv ==
  ASSUME Inv, NEW m \in Machines, NEW x, VerifyTopology(m, x)
  PROVE  Inv'
<1> DEFINE b == [machine[m] EXCEPT !.topology = x,
                                   !.state = "topology-verified"]
<1>1. /\ machine' = [machine EXCEPT ![m] = b]
      /\ b \in DBMachine
      /\ b.epoch = machine[m].epoch /\ b.generation = machine[m].generation
      /\ b.identity = machine[m].identity /\ b.topology = "exact"
      /\ b.state = "topology-verified" /\ machine[m].state = "attached"
  BY DEF VerifyTopology, Inv, TypeOK, DBMachine, States
<1> HIDE DEF b
<1>2. Settled'
  BY <1>1 DEF Inv, TypeOK, Settled, AttachedIsBound, States
<1> QED
  BY <1>1, <1>2, RestInv DEF VerifyTopology

LEMMA RequestActivationInv ==
  ASSUME Inv, NEW m \in Machines, RequestActivation(m)
  PROVE  Inv'
<1> DEFINE b == [machine[m] EXCEPT !.state = "blocked-protocol-undocumented"]
<1>1. /\ machine' = [machine EXCEPT ![m] = b]
      /\ b \in DBMachine
      /\ b.epoch = machine[m].epoch /\ b.generation = machine[m].generation
      /\ b.identity = machine[m].identity /\ b.topology = machine[m].topology
      /\ b.state = "blocked-protocol-undocumented"
      /\ machine[m].state \in States \ {"offline", "fault", "attached"}
  BY DEF RequestActivation, Inv, TypeOK, DBMachine, States
<1> HIDE DEF b
<1>2. Settled'
  BY <1>1 DEF Inv, TypeOK, Settled, AttachedIsBound, States
<1> QED
  BY <1>1, <1>2, RestInv DEF RequestActivation

LEMMA InitializeMachineInv ==
  ASSUME Inv, NEW m \in Machines, InitializeMachine(m)
  PROVE  Inv'
<1>1. /\ Blank \in DBMachine /\ Blank.epoch = 0 /\ Blank.generation = 0
      /\ Blank.state = "offline" /\ Blank.topology = "none"
  BY EpochAssumption, GenAssumption DEF Blank, DBMachine, States
<1>2. Settled'
  BY <1>1 DEF InitializeMachine, Inv, TypeOK, Settled, AttachedIsBound, States
<1> QED
  BY <1>1, <1>2, RestInv DEF InitializeMachine

LEMMA DetachInv ==
  ASSUME Inv, NEW m \in Machines, Detach(m)
  PROVE  Inv'
<1>1. Sound(fake') /\ Moved(fake, fake') /\ ~IsOpen(fake') /\ fake' \in Fakes
  BY ClosedMoves DEF Detach, Inv, Sound
<1> DEFINE b == [machine[m] EXCEPT !.identity = "none", !.topology = "none",
                                   !.epoch = 0, !.state = "offline"]
<1>2. 0 \in 0 .. (EpochMax - 1)
  BY EpochAssumption
<1>3. /\ machine' = [machine EXCEPT ![m] = b]
      /\ b \in DBMachine /\ b.epoch = 0 /\ b.state = "offline"
      /\ b.generation = machine[m].generation /\ b.topology = "none"
  BY <1>2 DEF Detach, Inv, TypeOK, DBMachine, States
<1> HIDE DEF b
<1>0. interrupted' \in [Machines -> BOOLEAN]
  BY DEF Detach, Watch
<1>4. TypeOK'
  <2>1. machine' \in [Machines -> DBMachine]
    BY <1>3 DEF Inv, TypeOK
  <2>2. UNCHANGED <<kind, nextGeneration>>
    BY DEF Detach
  <2> QED
    BY <1>0, <1>1, <2>1, <2>2 DEF Inv, TypeOK
<1>5. /\ Loosened
      /\ \A n \in Machines : machine'[n].generation \in {0, machine[n].generation}
  BY <1>1, <1>3 DEF Loosened, Inv, TypeOK
<1>6. Settled'
  BY <1>3 DEF Inv, TypeOK, Settled, AttachedIsBound, States
<1>7. nextGeneration' >= nextGeneration
  BY GenAssumption DEF Detach, Inv, TypeOK
<1> QED
  BY <1>1, <1>4, <1>5, <1>6, <1>7, LooseInv

LEMMA TransportStepInv ==
  ASSUME Inv, NEW f, Sound(f), Moved(fake, f), TransportStep(f)
  PROVE  Inv'
<1>1. Sound(fake') /\ Moved(fake, fake') /\ fake' \in Fakes
  BY DEF TransportStep, Sound
<1>0. interrupted' \in [Machines -> BOOLEAN]
  BY DEF TransportStep, Watch
<1>2. TypeOK'
  BY <1>0, <1>1 DEF TransportStep, Inv, TypeOK
<1>3. \A n \in Machines : interrupted[n] \in BOOLEAN
  BY DEF Inv, TypeOK
<1>4. Loosened
  BY <1>3 DEF TransportStep, Watch, Loosened
<1>5. /\ \A n \in Machines : machine'[n].generation \in {0, machine[n].generation}
      /\ Settled'
      /\ nextGeneration' >= nextGeneration
  BY GenAssumption DEF TransportStep, Inv, TypeOK, Settled, AttachedIsBound
<1> QED
  BY <1>1, <1>2, <1>4, <1>5, LooseInv

LEMMA UnchangedInv ==
  ASSUME Inv, UNCHANGED vars
  PROVE  Inv'
<1>1. TypeOK' /\ Sound(fake')
  BY DEF vars, Inv, TypeOK
<1>2. Bound' /\ Numbered'
  BY DEF vars, Inv, Bound, Numbered
<1>3. GenerationsDiffer' /\ Settled'
  BY DEF vars, Inv, GenerationsDiffer, Settled, AttachedIsBound
<1> QED
  BY <1>1, <1>2, <1>3 DEF Inv

LEMMA NextInv == Inv /\ [Next]_vars => Inv'
<1> SUFFICES ASSUME Inv, [Next]_vars PROVE Inv'
  OBVIOUS
<1>1. ASSUME NEW m \in Machines, NEW x \in {"exact", "other"},
             \/ AttachWithoutGeneration(m, x)
             \/ AttachUnopened(m, x)
             \/ AttachWithoutEpoch(m, x)
             \/ Attach(m, x)
             \/ VerifyTopology(m, x)
      PROVE  Inv'
  BY <1>1, AttachWithoutGenerationInv, AttachUnopenedInv,
     AttachWithoutEpochInv, AttachInv, VerifyTopologyInv
<1>2. ASSUME NEW m \in Machines,
             \/ RequestActivation(m)
             \/ \E r \in Results : ReportTransportFault(m, r)
             \/ Detach(m)
             \/ InitializeMachine(m)
      PROVE  Inv'
  BY <1>2, RequestActivationInv, ReportTransportFaultInv, DetachInv,
     InitializeMachineInv
<1>3. CASE OwnerOpens
  BY <1>3, OpenedMoves, TransportStepInv DEF OwnerOpens, Inv
<1>4. CASE OwnerCloses
  BY <1>4, ClosedMoves, TransportStepInv DEF OwnerCloses, Inv
<1>5. CASE OwnerInitializes
  BY <1>5, FreshMoves, TransportStepInv DEF OwnerInitializes, Inv
<1>6. CASE DockUnplugged
  BY <1>6, DisconnectedMoves, TransportStepInv DEF DockUnplugged, Inv
<1>7. CASE DockPluggedIn
  BY <1>7, ReconnectedMoves, TransportStepInv DEF DockPluggedIn, Inv
<1>8. CASE UNCHANGED vars
  BY <1>8, UnchangedInv
<1> QED
  BY <1>1, <1>2, <1>3, <1>4, <1>5, <1>6, <1>7, <1>8 DEF Next

THEOREM Inductive == Spec => []Inv
BY InitInv, NextInv, PTL DEF Spec
-----------------------------------------------------------------------------
(* The theorems.                                                           *)

\* Machines, counters and transport keep to their types in every run.
THEOREM TypeCorrect == Spec => []TypeOK
<1>1. Inv => TypeOK
  BY DEF Inv
<1> QED
  BY <1>1, Inductive, PTL

LEMMA InvVerified == Inv => VerifiedMeansUninterrupted
BY DEF Inv, Bound, VerifiedMeansUninterrupted, IsExactVerified

\* db_machine_is_exact_verified() vouches for an uninterrupted link, for any
\* number of machines on the transport and any size of the counters.
THEOREM VerifiedAlwaysUninterrupted == Spec => []VerifiedMeansUninterrupted
BY InvVerified, Inductive, PTL

\* take_machine_generation() never serves two machines the same generation.
THEOREM GenerationsAlwaysDiffer == Spec => []GenerationsDiffer
<1>1. Inv => GenerationsDiffer
  BY DEF Inv
<1> QED
  BY <1>1, Inductive, PTL

\* A machine past db_machine_attach() has a complete binding.
THEOREM AttachedAlwaysBound == Spec => []AttachedIsBound
<1>1. Inv => AttachedIsBound
  BY DEF Inv, Settled
<1> QED
  BY <1>1, Inductive, PTL

\* No step gives a verified machine another epoch, and every step moves the
\* transport's epoch forward or drops it.
LEMMA StepMoves ==
  ASSUME Inv, Next
  PROVE  /\ Moved(fake, fake') /\ kind' = kind
         /\ \A m \in Machines :
               machine[m].state = "topology-verified"
                 /\ machine'[m].state = "topology-verified"
               => machine'[m] = machine[m]
<1>0. Sound(fake) /\ machine \in [Machines -> DBMachine]
  BY DEF Inv, TypeOK
<1>1. ASSUME NEW k \in Machines, NEW x \in {"exact", "other"},
             \/ AttachWithoutGeneration(k, x)
             \/ AttachUnopened(k, x)
             \/ AttachWithoutEpoch(k, x)
             \/ Attach(k, x)
             \/ VerifyTopology(k, x)
      PROVE  /\ machine[k].state # "topology-verified"
             /\ \A m \in Machines \ {k} : machine'[m] = machine[m]
             /\ Moved(fake, fake') /\ kind' = kind
  <2>1. CASE AttachWithoutGeneration(k, x) \/ AttachUnopened(k, x)
    BY <1>0, <2>1, SameMoves
       DEF AttachWithoutGeneration, AttachUnopened, MayAttach
  <2>2. CASE AttachWithoutEpoch(k, x)
    BY <1>0, <2>2, ReclosedMoves DEF AttachWithoutEpoch, MayAttach
  <2>3. CASE Attach(k, x)
    BY <1>0, <2>3, OpenedMoves DEF Attach, MayAttach
  <2>4. CASE VerifyTopology(k, x)
    BY <1>0, <2>4, SameMoves DEF VerifyTopology
  <2> QED
    BY <1>1, <2>1, <2>2, <2>3, <2>4
<1>2. ASSUME NEW k \in Machines,
             \/ RequestActivation(k)
             \/ \E r \in Results : ReportTransportFault(k, r)
             \/ Detach(k)
             \/ InitializeMachine(k)
      PROVE  /\ machine'[k].state # "topology-verified"
             /\ \A m \in Machines \ {k} : machine'[m] = machine[m]
             /\ Moved(fake, fake') /\ kind' = kind
  <2>1. CASE RequestActivation(k)
    BY <1>0, <2>1, SameMoves DEF RequestActivation, DBMachine
  <2>2. CASE \E r \in Results : ReportTransportFault(k, r)
    BY <1>0, <2>2, SameMoves DEF ReportTransportFault, DBMachine
  <2>3. CASE Detach(k)
    <3>1. /\ machine'[k].state = "offline"
          /\ \A m \in Machines \ {k} : machine'[m] = machine[m]
      BY <1>0, <2>3 DEF Detach, DBMachine
    <3> QED
      BY <1>0, <2>3, <3>1, ClosedMoves DEF Detach
  <2>4. CASE InitializeMachine(k)
    BY <1>0, <2>4, SameMoves DEF InitializeMachine, Blank
  <2> QED
    BY <1>2, <2>1, <2>2, <2>3, <2>4
<1>3. CASE OwnerOpens \/ OwnerCloses \/ OwnerInitializes
           \/ DockUnplugged \/ DockPluggedIn
  BY <1>0, <1>3, OpenedMoves, ClosedMoves, FreshMoves, DisconnectedMoves,
     ReconnectedMoves
     DEF OwnerOpens, OwnerCloses, OwnerInitializes, DockUnplugged,
         DockPluggedIn, TransportStep
<1> QED
  BY <1>1, <1>2, <1>3 DEF Next

LEMMA StaysBroken ==
  ASSUME Inv, [Next]_vars, NEW m \in Machines,
         machine[m].state = "topology-verified", ~IsExactVerified(m),
         machine'[m].state = "topology-verified"
  PROVE  ~IsExactVerified(m)'
<1>1. CASE Next
  <2>1. /\ Moved(fake, fake') /\ kind' = kind
        /\ machine'[m] = machine[m]
    BY <1>1, StepMoves
  <2>2. /\ machine[m].generation # 0 /\ machine[m].epoch # 0
        /\ machine[m].identity = "exact" /\ machine[m].topology = "exact"
    BY DEF Inv, Settled, AttachedIsBound, States
  <2>3. /\ machine[m].epoch \in Nat /\ machine[m].epoch < fake.nextEpoch
        /\ fake.nextEpoch \in Nat
    BY EpochAssumption DEF Inv, TypeOK, Fakes, DBMachine, Bound
  <2>4. kind # "fake" \/ fake.epoch # machine[m].epoch
    BY <2>2 DEF IsExactVerified, Inv, Bound
  <2>5. CASE kind # "fake"
    BY <2>1, <2>5 DEF IsExactVerified
  <2>6. CASE fake.epoch # machine[m].epoch
    <3>1. fake'.epoch # machine[m].epoch
      BY <2>1, <2>2, <2>3, <2>6 DEF Moved
    <3> QED
      BY <2>1, <3>1 DEF IsExactVerified
  <2> QED
    BY <2>4, <2>5, <2>6
<1>2. CASE UNCHANGED vars
  BY <1>2 DEF vars, IsExactVerified
<1> QED
  BY <1>1, <1>2

\* A verified machine whose link broke stays unverified: nothing but a new
\* attachment can make it exact again.
THEOREM NeverRevived == Spec => NoRevival
<1>1. Inv /\ [Next]_vars =>
        [\A m \in Machines :
           /\ machine[m].state = "topology-verified" /\ ~IsExactVerified(m)
           /\ machine'[m].state = "topology-verified"
           => ~IsExactVerified(m)']_vars
  BY StaysBroken
<1> QED
  BY <1>1, Inductive, PTL DEF Spec, NoRevival
-----------------------------------------------------------------------------
(* The binding: where a machine can come from.                             *)

\* Where an attached or verified machine can come from.
LEMMA WhereFrom ==
  ASSUME Inv, Next, NEW m \in Machines
  PROVE  /\ nextGeneration' >= nextGeneration
         /\ machine'[m].state = "attached" =>
              \/ machine'[m] = machine[m]
              \/ machine'[m].generation = nextGeneration
         /\ machine'[m].state = "topology-verified" =>
              \/ machine'[m] = machine[m]
              \/ /\ machine[m].state = "attached"
                 /\ machine'[m].generation = machine[m].generation
<1>0. /\ machine \in [Machines -> DBMachine]
      /\ nextGeneration \in 1 .. GenMax /\ AfterGeneration >= nextGeneration
  BY TakenFacts DEF Inv, TypeOK
<1>1. ASSUME NEW k \in Machines, NEW x \in {"exact", "other"},
             \/ AttachWithoutGeneration(k, x)
             \/ AttachUnopened(k, x)
             \/ AttachWithoutEpoch(k, x)
      PROVE  /\ nextGeneration' >= nextGeneration
             /\ \A n \in Machines \ {k} : machine'[n] = machine[n]
             /\ machine'[k].state = "fault"
  <2>1. CASE AttachWithoutGeneration(k, x) \/ AttachUnopened(k, x)
    BY <1>0, <2>1
       DEF AttachWithoutGeneration, AttachUnopened, MayAttach, DBMachine
  <2>2. CASE AttachWithoutEpoch(k, x)
    <3>1. /\ machine'[k].state = "fault"
          /\ \A n \in Machines \ {k} : machine'[n] = machine[n]
      BY <1>0, <2>2 DEF AttachWithoutEpoch, DBMachine
    <3> QED
      BY <1>0, <2>2, <3>1 DEF AttachWithoutEpoch, MayAttach
  <2> QED
    BY <1>1, <2>1, <2>2
<1>2. ASSUME NEW k \in Machines, NEW x \in {"exact", "other"}, Attach(k, x)
      PROVE  /\ nextGeneration' >= nextGeneration
             /\ \A n \in Machines \ {k} : machine'[n] = machine[n]
             /\ machine'[k].state = "attached"
             /\ machine'[k].generation = nextGeneration
  <2>1. TakenGeneration = nextGeneration
    BY <1>2 DEF Attach, TakenGeneration
  <2>2. /\ machine'[k].state = "attached"
        /\ machine'[k].generation = TakenGeneration
        /\ \A n \in Machines \ {k} : machine'[n] = machine[n]
    BY <1>0, <1>2 DEF Attach, DBMachine
  <2> QED
    BY <1>0, <1>2, <2>1, <2>2 DEF Attach, MayAttach
<1>3. ASSUME NEW k \in Machines, NEW x \in {"exact", "other"},
             VerifyTopology(k, x)
      PROVE  /\ nextGeneration' >= nextGeneration
             /\ \A n \in Machines \ {k} : machine'[n] = machine[n]
             /\ machine[k].state = "attached"
             /\ machine'[k].state = "topology-verified"
             /\ machine'[k].generation = machine[k].generation
  BY <1>0, <1>3 DEF VerifyTopology, DBMachine
<1>4. ASSUME NEW k \in Machines,
             \/ RequestActivation(k)
             \/ \E r \in Results : ReportTransportFault(k, r)
             \/ Detach(k)
             \/ InitializeMachine(k)
      PROVE  /\ nextGeneration' >= nextGeneration
             /\ \A n \in Machines \ {k} : machine'[n] = machine[n]
             /\ machine'[k].state \notin {"attached", "topology-verified"}
  <2>1. CASE RequestActivation(k)
    BY <1>0, <2>1 DEF RequestActivation, DBMachine
  <2>2. CASE \E r \in Results : ReportTransportFault(k, r)
    BY <1>0, <2>2 DEF ReportTransportFault, DBMachine
  <2>3. CASE Detach(k)
    <3>1. /\ machine'[k].state = "offline"
          /\ \A n \in Machines \ {k} : machine'[n] = machine[n]
      BY <1>0, <2>3 DEF Detach, DBMachine
    <3> QED
      BY <1>0, <2>3, <3>1 DEF Detach
  <2>4. CASE InitializeMachine(k)
    BY <1>0, <2>4 DEF InitializeMachine, Blank
  <2> QED
    BY <1>4, <2>1, <2>2, <2>3, <2>4
<1>5. CASE OwnerOpens \/ OwnerCloses \/ OwnerInitializes
           \/ DockUnplugged \/ DockPluggedIn
  <2>1. machine' = machine /\ nextGeneration' = nextGeneration
    BY <1>5 DEF OwnerOpens, OwnerCloses, OwnerInitializes, DockUnplugged,
                DockPluggedIn, TransportStep
  <2> QED
    BY <1>0, <2>1
<1> QED
  BY <1>1, <1>2, <1>3, <1>4, <1>5 DEF Next
-----------------------------------------------------------------------------
(* The inductive invariant.                                                *)

SameAttachment == machine[parser.machine].generation = parser.generation

BindingInv ==
  parser.machine # Unbound =>
    /\ parser.machine \in Machines
    /\ parser.generation \in Nat /\ parser.generation < nextGeneration
    /\ SameAttachment => machine[parser.machine].state # "attached"
    /\ SameAttachment /\ lost
         /\ machine[parser.machine].state = "topology-verified"
         => ~IsExactVerified(parser.machine)

\* A DBTransitionParser has its fields, whatever they hold.
Fields == {"kind", "state", "machine", "generation", "epoch", "accepted",
           "active", "candidates"}

ParserInv == /\ Inv
             /\ BindingInv
             /\ DOMAIN parser = Fields
             /\ parser.state # "failed" => parser.machine # Unbound

LEMMA InitParserInv == ParserInit => ParserInv
<1> SUFFICES ASSUME ParserInit PROVE ParserInv
  OBVIOUS
<1>1. Inv
  BY InitInv DEF ParserInit
<1>2. /\ parser.machine = Unbound /\ parser.state = "failed"
      /\ DOMAIN parser = Fields
  BY DEF ParserInit, Refused, Fields
<1> QED
  BY <1>1, <1>2 DEF ParserInv, BindingInv

\* A call that only moves the parser on, or fails it, keeps its binding.
LEMMA SameBindingInv ==
  ASSUME ParserInv, UNCHANGED vars, UNCHANGED lost,
         DOMAIN parser' = Fields,
         parser'.machine = parser.machine,
         parser'.generation = parser.generation,
         parser'.state # "failed" => parser.state # "failed"
  PROVE  ParserInv'
<1>1. Inv'
  BY UnchangedInv DEF ParserInv
<1>2. \A m : IsExactVerified(m)' = IsExactVerified(m)
  BY DEF vars, IsExactVerified
<1>3. BindingInv'
  BY <1>2 DEF ParserInv, BindingInv, SameAttachment, vars
<1> QED
  BY <1>1, <1>3 DEF ParserInv

LEMMA InitializeParserInv ==
  ASSUME ParserInv, NEW k, NEW m \in Machines, InitializeParser(k, m)
  PROVE  ParserInv'
<1>1. Inv' /\ UNCHANGED vars
  BY UnchangedInv DEF ParserInv, InitializeParser
<1>2. /\ parser'.machine = m /\ parser'.generation = machine[m].generation
      /\ DOMAIN parser' = Fields /\ ~lost'
  BY DEF InitializeParser, Fields
<1>3. machine[m].state = "topology-verified"
  BY DEF InitializeParser, IsExactVerified
<1>4. machine[m].generation \in Nat /\ machine[m].generation < nextGeneration
  BY DEF ParserInv, Inv, Numbered, TypeOK, DBMachine
<1>5. machine' = machine /\ nextGeneration' = nextGeneration
  BY <1>1 DEF vars
<1>6. m # Unbound
  BY UnboundAssumption
<1>7. BindingInv'
  BY <1>2, <1>3, <1>4, <1>5 DEF BindingInv, SameAttachment
<1> QED
  BY <1>1, <1>2, <1>6, <1>7 DEF ParserInv

LEMMA MachineStepInv ==
  ASSUME ParserInv, MachineStep
  PROVE  ParserInv'
<1>1. Inv /\ Inv' /\ Next /\ [Next]_vars
  BY NextInv DEF ParserInv, MachineStep
<1>2. parser' = parser
  BY DEF MachineStep
<1>3. ASSUME parser.machine # Unbound PROVE BindingInv'
  <2>0. PICK m \in Machines : m = parser.machine
    BY <1>3 DEF ParserInv, BindingInv
  <2> DEFINE g == parser.generation
  <2>1. /\ m \in Machines /\ g \in Nat /\ g < nextGeneration
        /\ machine[m].generation = g => machine[m].state # "attached"
        /\ machine[m].generation = g /\ lost
             /\ machine[m].state = "topology-verified" => ~IsExactVerified(m)
    BY <1>3, <2>0 DEF ParserInv, BindingInv, SameAttachment
  <2>2. lost' = (lost \/ ~IsExactVerified(m)')
    BY <1>2, <1>3, <2>0 DEF MachineStep, WatchMachine, IsExactVerified
  <2>3. /\ nextGeneration \in Nat /\ nextGeneration' \in Nat
        /\ machine[m].generation \in Nat
    BY <1>1, <2>1, GenAssumption DEF Inv, TypeOK, DBMachine
  <2>4. /\ nextGeneration' >= nextGeneration
        /\ machine'[m].state = "attached" =>
             \/ machine'[m] = machine[m]
             \/ machine'[m].generation = nextGeneration
        /\ machine'[m].state = "topology-verified" =>
             \/ machine'[m] = machine[m]
             \/ /\ machine[m].state = "attached"
                /\ machine'[m].generation = machine[m].generation
    BY <1>1, <2>1, WhereFrom
  <2>5. g \in Nat /\ g < nextGeneration'
    BY <2>1, <2>3, <2>4
  <2>6. machine'[m].generation = g => machine'[m].state # "attached"
    BY <2>1, <2>3, <2>4
  <2>7. ASSUME machine'[m].generation = g, lost',
               machine'[m].state = "topology-verified"
        PROVE  ~IsExactVerified(m)'
    <3>1. machine'[m] = machine[m]
      BY <2>1, <2>4, <2>7
    <3>2. CASE lost
      <4>1. ~IsExactVerified(m) /\ machine[m].state = "topology-verified"
        BY <2>1, <2>7, <3>1, <3>2
      <4> QED
        BY <1>1, <2>1, <2>7, <4>1, StaysBroken
    <3>3. CASE ~lost
      BY <2>2, <2>7, <3>3
    <3> QED
      BY <3>2, <3>3
  <2> QED
    BY <1>2, <2>0, <2>1, <2>5, <2>6, <2>7
       DEF BindingInv, SameAttachment, IsExactVerified
<1>4. BindingInv'
  BY <1>2, <1>3 DEF BindingInv
<1> QED
  BY <1>1, <1>2, <1>4 DEF ParserInv

LEMMA NextParserInv ==
  ParserInv /\ [ParserNext]_<<vars, parserVars>> => ParserInv'
<1> SUFFICES ASSUME ParserInv, [ParserNext]_<<vars, parserVars>>
             PROVE  ParserInv'
  OBVIOUS
<1>1. ASSUME NEW k, NEW m, InitializeRefused(k, m) PROVE ParserInv'
  <2>1. Inv'
    BY <1>1, UnchangedInv DEF ParserInv, InitializeRefused
  <2>2. /\ parser'.machine = Unbound /\ parser'.state = "failed"
        /\ DOMAIN parser' = Fields
    BY <1>1 DEF InitializeRefused, Refused, Fields
  <2> QED
    BY <2>1, <2>2 DEF ParserInv, BindingInv
<1>2. ASSUME NEW k \in Kinds, NEW m \in Machines, InitializeParser(k, m)
      PROVE  ParserInv'
  BY <1>2, InitializeParserInv
<1>3. ASSUME NEW transfer \in Inputs, AcceptTransfer(transfer)
      PROVE  ParserInv'
  <2>1. parser.state # "failed"
    BY <1>3 DEF AcceptTransfer, AcceptVerdict
  <2>2. /\ DOMAIN parser' = Fields
        /\ parser'.machine = parser.machine
        /\ parser'.generation = parser.generation
    BY <1>3 DEF AcceptTransfer, Advance, ParserInv, Fields
  <2> QED
    BY <1>3, <2>1, <2>2, SameBindingInv DEF AcceptTransfer
<1>4. ASSUME parser' = FailParser(parser), UNCHANGED vars, UNCHANGED lost
      PROVE  ParserInv'
  <2>1. /\ DOMAIN parser' = Fields
        /\ parser'.machine = parser.machine
        /\ parser'.generation = parser.generation
        /\ parser'.state = "failed"
    BY <1>4 DEF FailParser, ParserInv, Fields
  <2> QED
    BY <1>4, <2>1, SameBindingInv
<1>5. ASSUME NEW transfer \in Inputs, RefuseTransfer(transfer)
      PROVE  ParserInv'
  BY <1>4, <1>5 DEF RefuseTransfer
<1>6. CASE FinishParser
  BY <1>4, <1>6 DEF FinishParser
<1>7. CASE MachineStep
  BY <1>7, MachineStepInv
<1>8. CASE UNCHANGED <<vars, parserVars>>
  <2>1. UNCHANGED vars /\ UNCHANGED lost /\ parser' = parser
    BY <1>8 DEF parserVars
  <2> QED
    BY <2>1, SameBindingInv DEF ParserInv
<1> QED
  BY <1>1, <1>2, <1>3, <1>5, <1>6, <1>7, <1>8 DEF ParserNext

LEMMA InvUnbroken == ParserInv => LiveBindingIsUnbroken
<1> SUFFICES ASSUME ParserInv, parser.state # "failed", BindingIsLive(parser)
             PROVE  ~lost
  BY DEF LiveBindingIsUnbroken
<1>1. /\ parser.machine # Unbound /\ SameAttachment
      /\ IsExactVerified(parser.machine)
  BY DEF ParserInv, BindingIsLive, SameAttachment
<1>2. machine[parser.machine].state = "topology-verified"
  BY <1>1 DEF IsExactVerified
<1> QED
  BY <1>1, <1>2 DEF ParserInv, BindingInv

\* machine_binding_is_live() is true only of a machine that never stopped
\* being exact since db_transition_parser_initialize(): whatever the dock,
\* the owner and the other machines did between two calls of the parser.
THEOREM LiveBindingAlwaysUnbroken == ParserSpec => []LiveBindingIsUnbroken
BY InitParserInv, NextParserInv, InvUnbroken, PTL DEF ParserSpec
-----------------------------------------------------------------------------
(* The stream: what a live parser holds is what its trace makes of it.     *)

Explaining(k, past) ==
  {profile \in ProfilesOf[k] : Explanations(SequenceOf[profile], past) # {}}

StateAfter(k, n) == IF n = ExpectedCount[k] THEN "complete"
                    ELSE IF n = 0 THEN "waiting" ELSE "in-progress"

\* The parser p is live and is what the accepted transfers past make of it.
OnStream(p, past) ==
  /\ p.kind \in Kinds
  /\ p.machine # Unbound /\ p.generation # 0 /\ p.epoch # 0
  /\ p.accepted = Len(past) /\ p.accepted <= ExpectedCount[p.kind]
  /\ p.state = StateAfter(p.kind, p.accepted)
  /\ p.active = Explaining(p.kind, past) /\ p.active # {}
  /\ \A profile \in p.active :
        /\ p.candidates[profile].order = SequenceOf[profile]
        /\ Faithful(p.candidates[profile], past)

Stream == /\ parser \in Parsers
          /\ trace \in Seq(Transfers)
          /\ lost \in BOOLEAN
          /\ parser.state # "failed" => OnStream(parser, trace)

LEMMA ProfilesExist == \A k \in Kinds : ProfilesOf[k] # {}
BY DEF Kinds, ProfilesOf

LEMMA TableFacts ==
  ASSUME NEW k \in Kinds, NEW profile \in ProfilesOf[k]
  PROVE  /\ profile \in Profiles
         /\ SequenceOf[profile] \in Seq(RoleRecords)
         /\ ModelIsValid(SequenceOf[profile])
         /\ IsChain(SequenceOf[profile])
         /\ Len(SequenceOf[profile]) = ExpectedCount[k]
         /\ ExpectedCount[k] \in Nat \ {0}
<1>1. profile \in Profiles
  BY DEF Profiles
<1>2. /\ SequenceOf[profile] \in OrderRecords
      /\ ModelIsValid(SequenceOf[profile])
  BY <1>1, SequenceAssumption
<1>3. /\ Len(SequenceOf[profile]) = ExpectedCount[k]
      /\ ExpectedCount[k] \in Nat
  BY CountAssumption
<1>4. ExpectedCount[k] # 0
  BY <1>2, <1>3 DEF ModelIsValid
<1> QED
  BY <1>1, <1>2, <1>3, <1>4, ChainAssumption DEF OrderRecords

LEMMA RefusedType == Refused \in Parsers
<1>1. Zeroed \in Matchers
  <2>1. <<>> \in Seq(RoleRecords) /\ Len(<<>>) = 0
    BY EmptySeq
  <2>2. 0 \in 0 .. MaxRoles /\ 0 <= MaxRoles
    BY MaxRolesAssumption
  <2>3. <<>> \in OrderRecords
    BY <2>1, <2>2 DEF OrderRecords
  <2> QED
    BY <2>2, <2>3 DEF Zeroed, Matchers
<1>2. 0 \in 0 .. (GenMax - 1) /\ 0 \in 0 .. (EpochMax - 1)
  BY GenAssumption, EpochAssumption
<1>3. [profile \in Profiles |-> Zeroed] \in [Profiles -> Matchers]
  BY <1>1
<1> QED
  BY <1>2, <1>3 DEF Refused, Parsers

LEMMA InitStream == ParserInit => Stream
<1> SUFFICES ASSUME ParserInit PROVE Stream
  OBVIOUS
<1>1. <<>> \in Seq(Transfers)
  BY EmptySeq
<1>2. Refused.state = "failed"
  BY DEF Refused
<1> QED
  BY <1>1, <1>2, RefusedType DEF ParserInit, Stream

\* A parser just initialised: every profile of the kind explains nothing yet.
LEMMA InitializeStream ==
  ASSUME ParserInv, NEW k \in Kinds, NEW m \in Machines, InitializeParser(k, m)
  PROVE  Stream'
<1> DEFINE p == parser'
<1>1. /\ trace' = <<>> /\ lost' = FALSE
      /\ p = [kind       |-> k,
              state      |-> "waiting",
              machine    |-> m,
              generation |-> machine[m].generation,
              epoch      |-> machine[m].epoch,
              accepted   |-> 0,
              active     |-> ProfilesOf[k],
              candidates |-> [profile \in Profiles |->
                                IF profile \in ProfilesOf[k]
                                THEN Loaded(SequenceOf[profile])
                                ELSE Zeroed]]
  BY DEF InitializeParser
<1>2. /\ machine[m].generation \in 0 .. (GenMax - 1)
      /\ machine[m].epoch \in 0 .. (EpochMax - 1)
      /\ machine[m].generation # 0 /\ machine[m].epoch # 0
  BY DEF ParserInv, Inv, TypeOK, DBMachine, InitializeParser, IsExactVerified
<1>3. \A profile \in ProfilesOf[k] :
        /\ profile \in Profiles
        /\ Loaded(SequenceOf[profile]) \in Matchers
        /\ Loaded(SequenceOf[profile]).order = SequenceOf[profile]
        /\ Faithful(Loaded(SequenceOf[profile]), <<>>)
  <2> TAKE profile \in ProfilesOf[k]
  <2>1. /\ profile \in Profiles /\ SequenceOf[profile] \in Seq(RoleRecords)
        /\ ModelIsValid(SequenceOf[profile])
    BY TableFacts
  <2>2. /\ Loaded(SequenceOf[profile]).state # "failed"
        /\ Loaded(SequenceOf[profile]).order = SequenceOf[profile]
    BY <2>1 DEF Loaded, ModelIsValid
  <2> QED
    BY <2>1, <2>2, LoadedFacts
<1>4. p \in Parsers
  <2>1. Zeroed \in Matchers
    <3>1. Profiles # {}
      BY <1>3, ProfilesExist
    <3>2. Refused.candidates \in [Profiles -> Matchers]
      BY RefusedType DEF Parsers
    <3> QED
      BY <3>1, <3>2 DEF Refused
  <2>2. p.candidates \in [Profiles -> Matchers]
    BY <1>1, <1>3, <2>1
  <2>3. ProfilesOf[k] \in SUBSET Profiles
    BY DEF Profiles
  <2> QED
    BY <1>1, <1>2, <2>2, <2>3 DEF Parsers
<1>5. Explaining(k, <<>>) = ProfilesOf[k]
  <2>1. \A profile \in ProfilesOf[k] :
          Explanations(SequenceOf[profile], <<>>) # {}
    BY NothingExplained DEF Completions
  <2> QED
    BY <2>1 DEF Explaining
<1>6. ProfilesOf[k] # {}
  BY ProfilesExist
<1>7. Len(<<>>) = 0 /\ <<>> \in Seq(Transfers)
  BY EmptySeq
<1>8. ExpectedCount[k] \in Nat \ {0}
  BY <1>6, TableFacts
<1>9. m # Unbound
  BY UnboundAssumption
<1>10. \A profile \in ProfilesOf[k] :
         /\ p.candidates[profile].order = SequenceOf[profile]
         /\ Faithful(p.candidates[profile], <<>>)
  BY <1>1, <1>3
<1>11. /\ p.kind = k /\ p.state = "waiting" /\ p.machine = m
       /\ p.generation = machine[m].generation /\ p.epoch = machine[m].epoch
       /\ p.accepted = 0 /\ p.active = ProfilesOf[k]
  BY <1>1
<1>12. StateAfter(k, 0) = "waiting" /\ 0 <= ExpectedCount[k]
  BY <1>8 DEF StateAfter
<1>13. OnStream(p, <<>>)
  BY <1>2, <1>5, <1>6, <1>7, <1>9, <1>10, <1>11, <1>12 DEF OnStream
<1> QED
  BY <1>1, <1>4, <1>7, <1>13 DEF Stream

\* A profile that does not explain a history explains no longer one.
LEMMA RuledOutForGood ==
  ASSUME NEW order, NEW past \in Seq(Transfers), NEW transfer \in Transfers,
         Explanations(order, past) = {}
  PROVE  Explanations(order, Append(past, transfer)) = {}
BY ExplainedIsSuccessor

\* What a matcher of a live parser may answer, and what the answer means.
LEMMA VerdictFacts ==
  ASSUME NEW k \in Kinds, NEW profile \in ProfilesOf[k],
         NEW c \in Matchers, NEW past \in Seq(Transfers),
         c.order = SequenceOf[profile], Faithful(c, past),
         c.state # "complete",
         NEW transfer \in Transfers
  PROVE  /\ AcceptResult(c, transfer) \in {"ok", "complete", "unexpected-transfer"}
         /\ AcceptResult(c, transfer) = "unexpected-transfer" <=>
              Explanations(SequenceOf[profile], Append(past, transfer)) = {}
         /\ AcceptResult(c, transfer) = "complete" =>
              c.consumed + 1 = ExpectedCount[k]
         /\ AcceptResult(c, transfer) = "ok" =>
              c.consumed + 1 # ExpectedCount[k]
<1> DEFINE order == SequenceOf[profile]
           longer == Append(past, transfer)
<1>1. IsConsistent(c) /\ c.state # "failed"
  BY FaithfulIsConsistent DEF IsConsistent
<1>2. transfer # NoTransfer /\ transfer # BadTransfer
  BY TransfersAssumption
<1>3. Successors(c, transfer) = Completions(order, longer)
  BY CompletionsExtend DEF Faithful
<1>4. /\ order \in Seq(RoleRecords) /\ IsChain(order)
      /\ Len(order) = ExpectedCount[k]
  BY TableFacts
<1>5. longer \in Seq(Transfers)
  BY AppendProperties
<1>6. Cardinality(Successors(c, transfer)) <= 1
  BY <1>3, <1>4, <1>5, ChainCompletes
<1>7. ~(Cardinality(Successors(c, transfer)) > MaxCandidates)
  BY <1>6, SuccessorsType, MaxCandidatesAssumption
<1>8. Successors(c, transfer) = {} <=> Explanations(order, longer) = {}
  BY <1>3 DEF Completions
<1>9. AcceptResult(c, transfer)
        = IF Successors(c, transfer) = {} THEN "unexpected-transfer"
          ELSE IF c.consumed + 1 = Len(c.order) THEN "complete"
          ELSE "ok"
  BY <1>1, <1>2, <1>7 DEF AcceptResult
<1> QED
  BY <1>4, <1>8, <1>9

\* A live parser short of its end has no completed matcher.
LEMMA NotYetComplete ==
  ASSUME NEW p, NEW past \in Seq(Transfers), OnStream(p, past),
         p.state # "complete", NEW profile \in p.active
  PROVE  /\ profile \in ProfilesOf[p.kind]
         /\ p.candidates[profile].consumed = p.accepted
         /\ p.candidates[profile].state # "complete"
<1> DEFINE c == p.candidates[profile]
<1>1. /\ profile \in ProfilesOf[p.kind] /\ p.kind \in Kinds
      /\ c.order = SequenceOf[profile] /\ Faithful(c, past)
      /\ p.accepted = Len(past)
  BY DEF OnStream, Explaining
<1>2. Len(c.order) = ExpectedCount[p.kind] /\ ExpectedCount[p.kind] # 0
  BY <1>1, TableFacts
<1>3. p.accepted # ExpectedCount[p.kind]
  BY DEF OnStream, StateAfter
<1>4. c.consumed = p.accepted
  BY <1>1 DEF Faithful
<1>5. c.state = IF c.consumed = 0 THEN "waiting"
                ELSE IF c.consumed = Len(c.order) THEN "complete"
                ELSE "in-progress"
  BY <1>1 DEF Faithful
<1>6. c.state # "complete"
  BY <1>2, <1>3, <1>4, <1>5
<1> QED
  BY <1>1, <1>4, <1>6

\* parser_is_consistent() and active_matchers_validate_for_finish() accept
\* what a live parser holds.
LEMMA OnStreamIsConsistent ==
  ASSUME NEW p \in Parsers, NEW past \in Seq(Transfers), OnStream(p, past)
  PROVE  ParserIsConsistent(p) /\ MatchersValidate(p)
<1> DEFINE k == p.kind
           n == p.accepted
<1>1. /\ k \in Kinds /\ n = Len(past) /\ n \in Nat /\ n <= ExpectedCount[k]
      /\ p.state = StateAfter(k, n)
      /\ p.active # {} /\ p.active \subseteq ProfilesOf[k]
  BY LenProperties DEF OnStream, Explaining
<1>2. ExpectedCount[k] \in Nat \ {0}
  BY <1>1, TableFacts
<1>3. \A profile \in p.active :
        LET c == p.candidates[profile]
        IN  /\ c \in Matchers /\ IsConsistent(c) /\ c.state # "failed"
            /\ c.consumed = n
            /\ c.state = IF n = 0 THEN "waiting"
                         ELSE IF n = ExpectedCount[k] THEN "complete"
                         ELSE "in-progress"
  <2> TAKE profile \in p.active
  <2> DEFINE c == p.candidates[profile]
  <2>1. profile \in ProfilesOf[k]
    BY <1>1
  <2>2. /\ c \in Matchers /\ c.order = SequenceOf[profile]
        /\ Faithful(c, past)
    BY <1>1, <2>1, TableFacts DEF OnStream, Parsers
  <2>3. Len(c.order) = ExpectedCount[k]
    BY <1>1, <2>1, <2>2, TableFacts
  <2>4. IsConsistent(c) /\ c.state # "failed"
    BY <2>2, FaithfulIsConsistent DEF IsConsistent
  <2>5. c.consumed = n
    BY <1>1, <2>2 DEF Faithful
  <2>6. c.state = IF c.consumed = 0 THEN "waiting"
                  ELSE IF c.consumed = Len(c.order) THEN "complete"
                  ELSE "in-progress"
    BY <2>2 DEF Faithful
  <2> QED
    BY <2>2, <2>3, <2>4, <2>5, <2>6
<1>4. \A profile \in p.active : MatchesProgress(p.candidates[profile], p)
  BY <1>3 DEF MatchesProgress
<1>5. /\ p.state # "failed"
      /\ p.state = "waiting" => n = 0
      /\ p.state = "in-progress" => n \in 1 .. (ExpectedCount[k] - 1)
      /\ p.state = "complete" => n = ExpectedCount[k]
  BY <1>1, <1>2 DEF StateAfter
<1>6. p.machine # Unbound /\ p.generation # 0 /\ p.epoch # 0
  BY DEF OnStream
<1>7. ParserIsConsistent(p)
  BY <1>1, <1>4, <1>5, <1>6 DEF ParserIsConsistent
<1>8. ASSUME NEW profile \in p.active
      PROVE  FinishResult(p.candidates[profile])
               = IF p.state = "complete" THEN "complete" ELSE "incomplete"
  <2> DEFINE c == p.candidates[profile]
  <2>1. /\ IsConsistent(c) /\ c.state # "failed"
        /\ c.state = IF n = 0 THEN "waiting"
                     ELSE IF n = ExpectedCount[k] THEN "complete"
                     ELSE "in-progress"
    BY <1>3
  <2>2. c.state = "complete" <=> p.state = "complete"
    BY <1>1, <1>2, <2>1 DEF StateAfter
  <2>3. FinishResult(c) = IF c.state = "complete" THEN "complete" ELSE "incomplete"
    BY <2>1 DEF FinishResult
  <2> QED
    BY <2>2, <2>3
<1>9. MatchersValidate(p)
  BY <1>8 DEF MatchersValidate
<1> QED
  BY <1>7, <1>9

\* An accepted transfer: those profiles go on that explain the longer trace.
LEMMA AdvanceOnStream ==
  ASSUME NEW p \in Parsers, NEW past \in Seq(Transfers), OnStream(p, past),
         NEW transfer \in Inputs,
         AcceptVerdict(p, transfer) \in {"ok", "complete"}
  PROVE  /\ transfer \in Transfers
         /\ Advance(p, transfer) \in Parsers
         /\ OnStream(Advance(p, transfer), Append(past, transfer))
<1> DEFINE k == p.kind
           n == p.accepted
           q == Advance(p, transfer)
           longer == Append(past, transfer)
<1>1. /\ transfer \in Transfers
      /\ p.state # "complete"
      /\ Retained(p, transfer) # {}
  BY DEF AcceptVerdict, Inputs
<1>2. /\ k \in Kinds /\ n = Len(past) /\ n \in Nat
      /\ p.active = Explaining(k, past) /\ p.active \subseteq ProfilesOf[k]
      /\ p.active \subseteq Profiles
  BY LenProperties DEF OnStream, Explaining, Profiles
<1>3. ASSUME NEW profile \in p.active
      PROVE  /\ p.candidates[profile] \in Matchers
             /\ p.candidates[profile].order = SequenceOf[profile]
             /\ Faithful(p.candidates[profile], past)
             /\ p.candidates[profile].consumed = n
             /\ AcceptResult(p.candidates[profile], transfer)
                  \in {"ok", "complete", "unexpected-transfer"}
             /\ AcceptResult(p.candidates[profile], transfer)
                  = "unexpected-transfer"
                <=> Explanations(SequenceOf[profile], longer) = {}
  <2> DEFINE c == p.candidates[profile]
  <2>1. /\ c \in Matchers /\ c.order = SequenceOf[profile]
        /\ Faithful(c, past)
    BY <1>2 DEF OnStream, Parsers
  <2>2. c.state # "complete" /\ c.consumed = n
    BY <1>1, NotYetComplete
  <2> QED
    BY <1>1, <1>2, <2>1, <2>2, VerdictFacts
<1>4. ASSUME NEW profile \in Retained(p, transfer)
      PROVE  /\ profile \in p.active
             /\ AcceptResult(p.candidates[profile], transfer)
                  \in {"ok", "complete"}
  BY DEF Retained, Verdicts
<1>5. Retained(p, transfer) = Explaining(k, longer)
  <2>1. \A profile \in p.active :
          AcceptResult(p.candidates[profile], transfer) \in {"ok", "complete"}
            <=> Explanations(SequenceOf[profile], longer) # {}
    BY <1>3
  <2>2. \A profile \in ProfilesOf[k] \ p.active :
          Explanations(SequenceOf[profile], longer) = {}
    BY <1>1, <1>2, RuledOutForGood DEF Explaining
  <2>3. Retained(p, transfer)
          = {profile \in p.active :
               AcceptResult(p.candidates[profile], transfer) \in {"ok", "complete"}}
    BY DEF Retained, Verdicts
  <2> QED
    BY <1>2, <2>1, <2>2, <2>3 DEF Explaining
<1>6. /\ q.kind = k /\ q.machine = p.machine /\ q.generation = p.generation
      /\ q.epoch = p.epoch /\ q.accepted = n + 1
      /\ q.active = Retained(p, transfer)
      /\ q.state = IF n + 1 = ExpectedCount[k] THEN "complete" ELSE "in-progress"
      /\ q.candidates = [profile \in Profiles |->
                            IF profile \in p.active
                            THEN Accepted(p.candidates[profile], transfer)
                            ELSE p.candidates[profile]]
  BY DEF Advance, Parsers
<1>7. Len(longer) = n + 1
  BY <1>1, <1>2, AppendProperties
<1>8. ASSUME NEW profile \in Retained(p, transfer)
      PROVE  /\ q.candidates[profile].order = SequenceOf[profile]
             /\ Faithful(q.candidates[profile], longer)
  <2> DEFINE c == p.candidates[profile]
  <2>1. /\ c \in Matchers /\ c.order = SequenceOf[profile]
        /\ Faithful(c, past)
        /\ AcceptResult(c, transfer) \in {"ok", "complete"}
    BY <1>3, <1>4
  <2>2. q.candidates[profile] = Accepted(c, transfer)
    BY <1>2, <1>4, <1>6
  <2>3. Accepted(c, transfer) = Progressed(c, transfer)
    BY <2>1 DEF Accepted
  <2>4. Faithful(Progressed(c, transfer), longer)
    BY <2>1, ProgressedFacts
  <2> QED
    BY <2>1, <2>2, <2>3, <2>4 DEF Progressed
<1>9. n + 1 <= ExpectedCount[k]
  <2>1. PICK profile \in Retained(p, transfer) : TRUE
    BY <1>1
  <2>2. /\ Faithful(q.candidates[profile], longer)
        /\ q.candidates[profile].order = SequenceOf[profile]
        /\ profile \in ProfilesOf[k]
    BY <1>2, <1>4, <1>8
  <2>3. Len(SequenceOf[profile]) = ExpectedCount[k]
    BY <1>2, <2>2, TableFacts
  <2> QED
    BY <1>7, <2>2, <2>3 DEF Faithful
<1>10. q.candidates \in [Profiles -> Matchers]
  <2> SUFFICES ASSUME NEW profile \in p.active
               PROVE  Accepted(p.candidates[profile], transfer) \in Matchers
    BY <1>6 DEF Parsers
  <2> DEFINE c == p.candidates[profile]
  <2>1. /\ c \in Matchers /\ Faithful(c, past)
        /\ AcceptResult(c, transfer) \in {"ok", "complete", "unexpected-transfer"}
    BY <1>3
  <2>2. CASE AcceptResult(c, transfer) \in {"ok", "complete"}
    BY <2>1, <2>2, ProgressedFacts DEF Accepted
  <2>3. CASE AcceptResult(c, transfer) = "unexpected-transfer"
    BY <2>1, <2>3, FailedFacts DEF Accepted
  <2> QED
    BY <2>1, <2>2, <2>3
<1>11. q \in Parsers
  <2> DEFINE state == IF n + 1 = ExpectedCount[k] THEN "complete" ELSE "in-progress"
             active == Retained(p, transfer)
             candidates == [profile \in Profiles |->
                              IF profile \in p.active
                              THEN Accepted(p.candidates[profile], transfer)
                              ELSE p.candidates[profile]]
  <2>1. active \in SUBSET Profiles /\ n + 1 \in Nat
    BY <1>2, <1>4
  <2>2. state \in {"waiting", "in-progress", "complete", "failed"}
    OBVIOUS
  <2>3. candidates \in [Profiles -> Matchers]
    BY <1>6, <1>10
  <2>4. q = [p EXCEPT !.state = state, !.accepted = n + 1,
                      !.active = active, !.candidates = candidates]
    BY DEF Advance
  <2> HIDE DEF q, n, state, active, candidates
  <2> QED
    BY <2>1, <2>2, <2>3, <2>4 DEF Parsers
<1>12. q.state = StateAfter(k, n + 1)
  BY <1>2, <1>6 DEF StateAfter
<1>13. p.machine # Unbound /\ p.generation # 0 /\ p.epoch # 0
  BY DEF OnStream
<1>14. OnStream(q, longer)
  <2> HIDE DEF q
  <2> QED
    BY <1>1, <1>2, <1>5, <1>6, <1>7, <1>8, <1>9, <1>12, <1>13 DEF OnStream
<1> QED
  BY <1>1, <1>11, <1>14

LEMMA FailedStream ==
  ASSUME Stream, parser' = FailParser(parser), UNCHANGED <<trace, lost>>
  PROVE  Stream'
<1>1. parser' \in Parsers /\ parser'.state = "failed"
  BY DEF Stream, Parsers, FailParser
<1> QED
  BY <1>1 DEF Stream

LEMMA NextStream ==
  ParserInv /\ Stream /\ [ParserNext]_<<vars, parserVars>> => Stream'
<1> SUFFICES ASSUME ParserInv, Stream, [ParserNext]_<<vars, parserVars>>
             PROVE  Stream'
  OBVIOUS
<1>1. ASSUME NEW k, NEW m, InitializeRefused(k, m) PROVE Stream'
  <2>1. <<>> \in Seq(Transfers) /\ Refused.state = "failed"
    BY EmptySeq DEF Refused
  <2> QED
    BY <1>1, <2>1, RefusedType DEF InitializeRefused, Stream
<1>2. ASSUME NEW k \in Kinds, NEW m \in Machines, InitializeParser(k, m)
      PROVE  Stream'
  BY <1>2, InitializeStream
<1>3. ASSUME NEW transfer \in Inputs, AcceptTransfer(transfer)
      PROVE  Stream'
  <2>1. /\ AcceptVerdict(parser, transfer) \in {"ok", "complete"}
        /\ parser' = Advance(parser, transfer)
        /\ trace' = Append(trace, transfer) /\ lost' = lost
    BY <1>3 DEF AcceptTransfer
  <2>2. parser.state # "failed"
    BY <2>1 DEF AcceptVerdict
  <2>3. /\ parser \in Parsers /\ trace \in Seq(Transfers)
        /\ OnStream(parser, trace)
    BY <2>2 DEF Stream
  <2>4. /\ transfer \in Transfers /\ parser' \in Parsers
        /\ OnStream(parser', trace')
    BY <2>1, <2>3, AdvanceOnStream
  <2>5. trace' \in Seq(Transfers)
    BY <2>1, <2>3, <2>4, AppendProperties
  <2> QED
    BY <2>1, <2>4, <2>5 DEF Stream
<1>4. ASSUME NEW transfer \in Inputs, RefuseTransfer(transfer)
      PROVE  Stream'
  BY <1>4, FailedStream DEF RefuseTransfer
<1>5. CASE FinishParser
  BY <1>5, FailedStream DEF FinishParser
<1>6. CASE MachineStep
  <2>1. parser' = parser /\ trace' = trace
    BY <1>6 DEF MachineStep
  <2>2. lost' \in BOOLEAN
    <3>1. lost' = (lost \/ ~(IF parser.machine = Unbound THEN FALSE
                             ELSE IsExactVerified(parser.machine)'))
      BY <1>6 DEF MachineStep, WatchMachine
    <3> QED
      BY <3>1, Zenon
  <2> QED
    BY <2>1, <2>2 DEF Stream
<1>7. CASE UNCHANGED <<vars, parserVars>>
  BY <1>7 DEF parserVars, Stream
<1> QED
  BY <1>1, <1>2, <1>3, <1>4, <1>5, <1>6, <1>7 DEF ParserNext

THEOREM StreamInductive == ParserSpec => [](ParserInv /\ Stream)
BY InitParserInv, NextParserInv, InitStream, NextStream, PTL DEF ParserSpec
-----------------------------------------------------------------------------
(* What the stream says of a live parser.                                  *)

\* The parser, its matchers, the machines and the transport keep their types.
THEOREM ParserTypeCorrect == ParserSpec => []ParserTypeOK
<1>1. ParserInv /\ Stream => ParserTypeOK
  BY DEF ParserInv, Inv, Stream, ParserTypeOK
<1> QED
  BY <1>1, StreamInductive, PTL

\* active_profile_mask holds exactly the profiles that explain the whole
\* trace: ruling a profile out is final, and never wrong.
THEOREM ActiveAlwaysExact == ParserSpec => []ActiveIsExact
<1>1. Stream => ActiveIsExact
  BY DEF Stream, OnStream, Explaining, ActiveIsExact
<1> QED
  BY <1>1, StreamInductive, PTL

\* With tables that are chains, a live parser follows one of them line by
\* line: nothing between two profiles is ever taken.
THEOREM HybridNever == ParserSpec => []NoHybrid
<1>1. Stream => NoHybrid
  <2> SUFFICES ASSUME Stream, parser.state # "failed",
                      NEW profile \in ProfilesOf[parser.kind]
               PROVE  Explanations(SequenceOf[profile], trace) # {}
                        <=> Follows(profile)
    <3>1. Stream /\ parser.state # "failed" =>
            parser.active = Explaining(parser.kind, trace)
      BY DEF Stream, OnStream
    <3> QED
      BY <3>1 DEF NoHybrid, Explaining
  <2>1. parser.kind \in Kinds /\ trace \in Seq(Transfers)
    BY DEF Stream, OnStream
  <2>2. SequenceOf[profile] \in Seq(RoleRecords) /\ IsChain(SequenceOf[profile])
    BY <2>1, TableFacts
  <2> QED
    BY <2>1, <2>2, ChainExplains DEF Follows
<1> QED
  BY <1>1, StreamInductive, PTL

LEMMA NoCorruptVerdict ==
  ASSUME NEW p \in Parsers, NEW past \in Seq(Transfers), OnStream(p, past),
         NEW transfer \in Inputs
  PROVE  AcceptVerdict(p, transfer) # "corrupt-state"
<1> DEFINE n == p.accepted
           count == ExpectedCount[p.kind]
<1>1. ParserIsConsistent(p) /\ MatchersValidate(p)
  BY OnStreamIsConsistent
<1>2. CASE \/ p.state = "complete" \/ ~BindingIsLive(p)
           \/ transfer \in {NoTransfer, BadTransfer} \/ ~IsQualified(transfer)
  BY <1>1, <1>2 DEF AcceptVerdict
<1>3. CASE p.state # "complete" /\ transfer \in Transfers
  <2>1. p.kind \in Kinds /\ p.active \subseteq ProfilesOf[p.kind]
    BY DEF OnStream, Explaining
  <2>2. ASSUME NEW profile \in p.active
        PROVE  /\ Verdicts(p, transfer)[profile]
                    \in {"ok", "complete", "unexpected-transfer"}
               /\ Verdicts(p, transfer)[profile] = "complete" => n + 1 = count
               /\ Verdicts(p, transfer)[profile] = "ok" => n + 1 # count
    <3> DEFINE c == p.candidates[profile]
    <3>1. profile \in ProfilesOf[p.kind] /\ profile \in Profiles
      BY <2>1, TableFacts
    <3>2. /\ c \in Matchers /\ c.order = SequenceOf[profile]
          /\ Faithful(c, past)
      BY <3>1 DEF OnStream, Parsers
    <3>3. c.state # "complete" /\ c.consumed = n
      BY <1>3, NotYetComplete
    <3>4. Verdicts(p, transfer)[profile] = AcceptResult(c, transfer)
      BY DEF Verdicts
    <3> QED
      BY <1>3, <2>1, <3>1, <3>2, <3>3, <3>4, VerdictFacts
  <2>3. ASSUME Retained(p, transfer) # {}
        PROVE  AnyComplete(p, transfer) <=> n + 1 = count
    <3>1. PICK profile \in p.active :
                 Verdicts(p, transfer)[profile] \in {"ok", "complete"}
      BY <2>3 DEF Retained
    <3> QED
      BY <2>2, <3>1 DEF AnyComplete
  <2>4. AnyComplete(p, transfer) \in BOOLEAN /\ (n + 1 = count) \in BOOLEAN
    BY DEF AnyComplete
  <2>5. Retained(p, transfer) # {} =>
          ~(AnyComplete(p, transfer) # (n + 1 = count))
    BY <2>3, <2>4, Zenon
  <2> QED
    BY <1>1, <2>2, <2>5 DEF AcceptVerdict
<1> QED
  BY <1>2, <1>3 DEF Inputs

\* No check a parser makes on itself or on its matchers ever fails: the
\* CORRUPT_STATE of db_transition_parser_accept() means that someone else
\* wrote to the record.
THEOREM ParserCorruptNever == ParserSpec => []ParserNeverCorrupt
<1>1. ParserInv /\ Stream => ParserTypeOK
  BY DEF ParserInv, Inv, Stream, ParserTypeOK
<1>2. Stream /\ parser.state # "failed" =>
        /\ ParserIsConsistent(parser) /\ MatchersValidate(parser)
        /\ \A transfer \in Inputs :
              AcceptVerdict(parser, transfer) # "corrupt-state"
  BY OnStreamIsConsistent, NoCorruptVerdict DEF Stream
<1>3. ParserInv /\ Stream => ParserNeverCorrupt
  BY <1>1, <1>2 DEF ParserNeverCorrupt
<1> QED
  BY <1>3, StreamInductive, PTL

\* Two profiles of a kind that part at some role cannot both explain a
\* whole trace.
LEMMA OneProfileAtTheEnd ==
  ASSUME NEW k \in Kinds, NEW past \in Seq(Transfers),
         Len(past) = ExpectedCount[k],
         NEW p \in Explaining(k, past), NEW q \in Explaining(k, past)
  PROVE  p = q
<1> SUFFICES ASSUME p # q PROVE FALSE
  OBVIOUS
<1>1. p \in ProfilesOf[k] /\ q \in ProfilesOf[k]
  BY DEF Explaining
<1>2. PICK r \in 1 .. ExpectedCount[k] :
             SequenceOf[p][r].takes \cap SequenceOf[q][r].takes = {}
  BY <1>1, PartAssumption
<1>3. \A profile \in Explaining(k, past) :
        past[r] \in SequenceOf[profile][r].takes
  <2> TAKE profile \in Explaining(k, past)
  <2>1. /\ profile \in ProfilesOf[k]
        /\ Explanations(SequenceOf[profile], past) # {}
    BY DEF Explaining
  <2>2. SequenceOf[profile] \in Seq(RoleRecords) /\ IsChain(SequenceOf[profile])
    BY <2>1, TableFacts
  <2> QED
    BY <1>2, <2>1, <2>2, ChainExplains
<1> QED
  BY <1>2, <1>3

\* A completed parser on a live binding names the one profile whose whole
\* table it has seen.
THEOREM CompleteAlwaysNamesItsProfile == ParserSpec => []CompleteNamesItsProfile
<1>1. Stream => CompleteNamesItsProfile
  <2> SUFFICES ASSUME Stream, parser.state = "complete", BindingIsLive(parser)
               PROVE  \E profile \in ProfilesOf[parser.kind] :
                        /\ ObservedProfile(parser) = profile
                        /\ Len(trace) = Len(SequenceOf[profile])
    BY DEF CompleteNamesItsProfile
  <2> DEFINE k == parser.kind
  <2>1. /\ parser \in Parsers /\ trace \in Seq(Transfers)
        /\ OnStream(parser, trace)
    BY DEF Stream
  <2>2. /\ k \in Kinds /\ parser.active = Explaining(k, trace)
        /\ parser.active # {} /\ parser.accepted = Len(trace)
    BY <2>1 DEF OnStream
  <2>3. ParserIsConsistent(parser) /\ MatchersValidate(parser)
    BY <2>1, OnStreamIsConsistent
  <2>4. Len(trace) = ExpectedCount[k]
    BY <2>2, <2>3 DEF ParserIsConsistent
  <2>5. PICK profile \in parser.active : TRUE
    BY <2>2
  <2>6. parser.active = {profile}
    BY <2>1, <2>2, <2>4, <2>5, OneProfileAtTheEnd
  <2>7. /\ profile \in ProfilesOf[k] /\ profile \in Profiles
        /\ Len(SequenceOf[profile]) = ExpectedCount[k]
    BY <2>2, <2>5, TableFacts DEF Explaining
  <2>8. \A other : parser.active = {other} => other = profile
    BY <2>6
  <2>9. ObservedProfile(parser) = profile
    BY <2>3, <2>6, <2>7, <2>8 DEF ObservedProfile
  <2> QED
    BY <2>4, <2>7, <2>9
<1> QED
  BY <1>1, StreamInductive, PTL
=============================================================================
