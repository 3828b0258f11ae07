---------------------------- MODULE DockMachine ----------------------------
(***************************************************************************)
(* clean-room/state_machine.c: the device state machine, over the fake     *)
(* transport.  A DBMachine only points at its transport, so several        *)
(* machines may share one, and the transport's owner and the dock act on   *)
(* it behind their backs.  A machine remembers the transport's lifecycle   *)
(* epoch from when it attached, and takes a generation of its own at each  *)
(* attachment; db_machine_is_exact_verified() is true only while the       *)
(* remembered epoch is still the transport's.                              *)
(*                                                                         *)
(* Identity and topology are "exact" or "other" as identity_is_exact() and *)
(* topology_is_exact() tell them apart, "none" when zeroed.  Calls that    *)
(* are refused without a change of state are not steps.  The transport's   *)
(* traffic is FakeTransport's business: no machine reads it.               *)
(***************************************************************************)
EXTENDS TransportOps

CONSTANTS Machines,
          GenMax,       \* stands for UINT64_MAX
          MaxOpens      \* bound: opens of the transport

ASSUME GenAssumption == GenMax \in Nat \ {0}

VARIABLES fake,           \* the one DBFakeTransport, and next_lifecycle_epoch
          kind,           \* the DBTransport's kind, fixed when it is made
          machine,        \* machine[m]: the DBMachine m
          nextGeneration, \* next_machine_generation
          interrupted     \* history: was the link down since m attached?

vars == <<fake, kind, machine, nextGeneration, interrupted>>

States == {"offline", "attached", "topology-verified",
           "blocked-protocol-undocumented", "fault"}

DBMachine == [state : States,
              identity : {"none", "exact"}, topology : {"none", "exact"},
              generation : 0 .. (GenMax - 1), epoch : 0 .. (EpochMax - 1)]

TypeOK == /\ fake \in Fakes
          /\ kind \in {"fake", "other"}
          /\ machine \in [Machines -> DBMachine]
          /\ nextGeneration \in 1 .. GenMax
          /\ interrupted \in [Machines -> BOOLEAN]

\* db_machine_initialize()
Blank == [state |-> "offline", identity |-> "none", topology |-> "none",
          generation |-> 0, epoch |-> 0]

Init == /\ fake = Fresh(1)
        /\ kind \in {"fake", "other"}
        /\ machine = [m \in Machines |-> Blank]
        /\ nextGeneration = 1
        /\ interrupted = [m \in Machines |-> TRUE]

\* take_machine_generation(): like the epoch, see TicketCounter.
TakenGeneration == IF nextGeneration = GenMax THEN 0 ELSE nextGeneration

\* Seeded fault for GenerationsDiffer: the generation is read, not taken.
AfterGenerationStuck == nextGeneration

AfterGeneration ==
  IF nextGeneration = GenMax THEN nextGeneration ELSE nextGeneration + 1

\* Seeded fault for VerifiedMeansUninterrupted: the link is open, so trusted.
IsVerifiedAndOpen(m) == /\ kind = "fake"
                        /\ IsOpen(fake)
                        /\ machine[m].generation # 0
                        /\ machine[m].state = "topology-verified"
                        /\ machine[m].identity = "exact"
                        /\ machine[m].topology = "exact"

\* db_machine_is_exact_verified(): what the parsers bind themselves to.
IsExactVerified(m) == /\ kind = "fake"
                      /\ IsOpen(fake)
                      /\ machine[m].generation # 0
                      /\ machine[m].epoch # 0
                      /\ fake.epoch = machine[m].epoch
                      /\ machine[m].state = "topology-verified"
                      /\ machine[m].identity = "exact"
                      /\ machine[m].topology = "exact"

\* The history of a step that leaves the link as it is in fake'.
Watch == interrupted' = [m \in Machines |-> interrupted[m] \/ ~IsOpen(fake')]
-----------------------------------------------------------------------------
(* db_machine_attach(): one action for each way it can end.                *)

MayAttach(m, identity) == /\ machine[m].state = "offline"
                          /\ identity = "exact"
                          /\ kind = "fake"
                          /\ nextGeneration' = AfterGeneration
                          /\ UNCHANGED kind

\* Generations are exhausted: the transport is not even opened.
AttachWithoutGeneration(m, identity) ==
  /\ MayAttach(m, identity)
  /\ TakenGeneration = 0
  /\ machine' = [machine EXCEPT ![m].state = "fault"]
  /\ UNCHANGED <<fake, interrupted>>

AttachUnopened(m, identity) ==
  /\ MayAttach(m, identity)
  /\ TakenGeneration # 0
  /\ OpenResult(fake) # "ok"
  /\ machine' = [machine EXCEPT ![m].state = "fault"]
  /\ UNCHANGED <<fake, interrupted>>

\* The transport opened, but without an epoch: it is closed again.
AttachWithoutEpoch(m, identity) ==
  /\ MayAttach(m, identity)
  /\ TakenGeneration # 0
  /\ fake.openCount < MaxOpens
  /\ OpenResult(fake) = "ok"
  /\ Opened(fake).epoch = 0
  /\ fake' = Closed(Opened(fake))
  /\ machine' = [machine EXCEPT ![m].state = "fault",
                                ![m].identity = identity,
                                ![m].generation = TakenGeneration,
                                ![m].epoch = 0]
  /\ Watch

Attach(m, identity) ==
  /\ MayAttach(m, identity)
  /\ TakenGeneration # 0
  /\ fake.openCount < MaxOpens
  /\ OpenResult(fake) = "ok"
  /\ Opened(fake).epoch # 0
  /\ fake' = Opened(fake)
  /\ machine' = [machine EXCEPT ![m].state = "attached",
                                ![m].identity = identity,
                                ![m].generation = TakenGeneration,
                                ![m].epoch = Opened(fake).epoch]
  /\ interrupted' = [interrupted EXCEPT ![m] = FALSE]
-----------------------------------------------------------------------------
VerifyTopology(m, topology) ==
  /\ machine[m].state = "attached"
  /\ topology = "exact"
  /\ machine' = [machine EXCEPT ![m].topology = topology,
                                ![m].state = "topology-verified"]
  /\ UNCHANGED <<fake, kind, nextGeneration, interrupted>>

\* The write barrier: activation is refused for good, and nothing is written.
RequestActivation(m) ==
  /\ machine[m].state \in {"topology-verified", "blocked-protocol-undocumented"}
  /\ machine' = [machine EXCEPT ![m].state = "blocked-protocol-undocumented"]
  /\ UNCHANGED <<fake, kind, nextGeneration, interrupted>>

\* The caller reports what one of its own transport calls returned.
ReportTransportFault(m, transportResult) ==
  /\ transportResult # "ok"
  /\ machine' = [machine EXCEPT ![m].state = "fault"]
  /\ UNCHANGED <<fake, kind, nextGeneration, interrupted>>

\* Closes the transport under every machine that shares it; the generation
\* stays behind in the record.
Detach(m) ==
  /\ fake' = Closed(fake)
  /\ machine' = [machine EXCEPT ![m].identity = "none",
                                ![m].topology = "none",
                                ![m].epoch = 0,
                                ![m].state = "offline"]
  /\ Watch
  /\ UNCHANGED <<kind, nextGeneration>>

\* A machine object made anew: its transport is not told.
InitializeMachine(m) ==
  /\ machine' = [machine EXCEPT ![m] = Blank]
  /\ UNCHANGED <<fake, kind, nextGeneration, interrupted>>
-----------------------------------------------------------------------------
(* The transport, used by its owner and by the dock.                       *)

TransportStep(f) == /\ fake' = f
                    /\ Watch
                    /\ UNCHANGED <<kind, machine, nextGeneration>>

OwnerOpens == fake.openCount < MaxOpens /\ TransportStep(Opened(fake))

OwnerCloses == TransportStep(Closed(fake))

DockUnplugged == TransportStep(Disconnected(fake))

DockPluggedIn == TransportStep(Reconnected(fake))

OwnerInitializes == TransportStep(Fresh(fake.nextEpoch))
-----------------------------------------------------------------------------
Next == \/ \E m \in Machines, exactness \in {"exact", "other"} :
              \/ AttachWithoutGeneration(m, exactness)
              \/ AttachUnopened(m, exactness)
              \/ AttachWithoutEpoch(m, exactness)
              \/ Attach(m, exactness)
              \/ VerifyTopology(m, exactness)
        \/ \E m \in Machines :
              \/ RequestActivation(m)
              \/ \E transportResult \in Results :
                    ReportTransportFault(m, transportResult)
              \/ Detach(m)
              \/ InitializeMachine(m)
        \/ OwnerOpens \/ OwnerCloses \/ OwnerInitializes
        \/ DockUnplugged \/ DockPluggedIn

Spec == Init /\ [][Next]_vars
-----------------------------------------------------------------------------
(* Properties.                                                             *)

\* An exact-verified machine stands on a link that has been open without a
\* break since that machine attached: no unplug, close, reinitialisation or
\* detach of a neighbour went unnoticed, however the epochs moved on.
VerifiedMeansUninterrupted ==
  \A m \in Machines : IsExactVerified(m) => ~interrupted[m]

\* Machines that share a transport also share its epoch; the generation is
\* what tells their attachments apart.
GenerationsDiffer ==
  \A m, n \in Machines :
     m # n /\ machine[m].generation = machine[n].generation
       => machine[m].generation = 0

\* From attachment to the write barrier a machine has a full binding, and
\* the topology is recorded only once it was checked.
AttachedIsBound ==
  \A m \in Machines :
     machine[m].state \in States \ {"offline", "fault"} =>
        /\ machine[m].generation # 0
        /\ machine[m].epoch # 0
        /\ machine[m].identity = "exact"
        /\ (machine[m].topology = "exact") <=> (machine[m].state # "attached")

\* A verified machine that lost its link does not become exact again by
\* itself: no later open or replug brings the remembered epoch back.
NoRevival ==
  [][\A m \in Machines :
        /\ machine[m].state = "topology-verified" /\ ~IsExactVerified(m)
        /\ machine'[m].state = "topology-verified"
        => ~IsExactVerified(m)']_vars
=============================================================================
