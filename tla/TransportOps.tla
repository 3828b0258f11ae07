---------------------------- MODULE TransportOps ----------------------------
(***************************************************************************)
(* The data and the operations of clean-room/fake_transport.c, the         *)
(* in-memory USB transport, as operators on one record: the two ring       *)
(* buffers, the connected and open flags, the lifecycle epoch.  They are   *)
(* apart from the state machine FakeTransport because the device state     *)
(* machine applies several of them in one call.                            *)
(*                                                                         *)
(* A packet is told apart by its length.  The attempt and success counters *)
(* of reads and writes, which nothing in the code branches on, are left    *)
(* out; the open and close counters are kept.                              *)
(***************************************************************************)
EXTENDS Naturals, Sequences

CONSTANTS Capacity,     \* DB_FAKE_QUEUE_CAPACITY
          MaxChunk,     \* DB_FAKE_MAX_CHUNK_SIZE
          EpochMax      \* stands for UINT64_MAX

ASSUME CapacityAssumption == Capacity \in Nat \ {0}
ASSUME MaxChunkAssumption == MaxChunk \in Nat \ {0}
ASSUME EpochAssumption == EpochMax \in Nat \ {0, 1}

Results == {"ok", "invalid-argument", "closed", "disconnected",
            "wrong-endpoint", "packet-too-large", "would-block"}

Endpoints == {"0x02", "0x84"}
-----------------------------------------------------------------------------
(* The ring of one direction: packets[i].length, head and count.           *)

Slots == 0 .. (Capacity - 1)

Queues == [length : [Slots -> 0 .. MaxChunk],
           head   : Slots,
           count  : 0 .. Capacity]

EmptyQueue == [length |-> [i \in Slots |-> 0], head |-> 0, count |-> 0]

\* The slot of the k-th packet from the front, counting from 0.
Slot(q, k) == (q.head + k) % Capacity

PushResult(q, len) ==
  CASE len = 0            -> "invalid-argument"
    [] len > MaxChunk     -> "packet-too-large"
    [] len \in 1 .. MaxChunk /\ q.count >= Capacity -> "would-block"
    [] OTHER              -> "ok"

\* Seeded fault for ImplementsPacketLink: the ring's head is forgotten.
PushedFromZero(q, len) == [length |-> [q.length EXCEPT ![q.count % Capacity] = len],
                           head   |-> q.head,
                           count  |-> q.count + 1]

Pushed(q, len) == [length |-> [q.length EXCEPT ![Slot(q, q.count)] = len],
                   head   |-> q.head,
                   count  |-> q.count + 1]

Front(q) == q.length[q.head]

PopResult(q, room) ==
  CASE room = 0     -> "invalid-argument"
    [] room > 0 /\ q.count = 0 -> "would-block"
    [] room > 0 /\ q.count > 0 /\ room < Front(q) -> "packet-too-large"
    [] OTHER -> "ok"

\* Seeded fault for WindowIsExact: the slot keeps its packet.
PoppedUncleared(q) == [length |-> q.length,
                       head   |-> Slot(q, 1),
                       count  |-> q.count - 1]

Popped(q) == [length |-> [q.length EXCEPT ![q.head] = 0],
              head   |-> Slot(q, 1),
              count  |-> q.count - 1]
-----------------------------------------------------------------------------
(* The lifecycle epoch.  TicketCounter shows that the lock-free draw is    *)
(* indivisible, so here it is one assignment.                              *)

Taken(next) == IF next = EpochMax THEN 0 ELSE next

After(next) == IF next = EpochMax THEN next ELSE next + 1

\* advance_lifecycle_epoch()
Advanced(f) == [f EXCEPT !.epoch = Taken(f.nextEpoch),
                         !.nextEpoch = After(f.nextEpoch)]

\* Seeded fault for QueuesDieWithSession: only one direction is cleared.
ClearedOneWay(f) == [f EXCEPT !.hostToDock = EmptyQueue]

Cleared(f) == [f EXCEPT !.hostToDock = EmptyQueue, !.dockToHost = EmptyQueue]

IsOpen(f) == f.connected /\ f.open
-----------------------------------------------------------------------------
Fakes == [connected : BOOLEAN, open : BOOLEAN,
          epoch : 0 .. (EpochMax - 1), nextEpoch : 1 .. EpochMax,
          hostToDock : Queues, dockToHost : Queues,
          openCount : Nat, closeCount : Nat]

\* Seeded fault for NoRevival: each transport counts its epochs from one.
FreshFromOne(next) == [connected |-> TRUE, open |-> FALSE,
                       epoch |-> Taken(1), nextEpoch |-> After(1),
                       hostToDock |-> EmptyQueue, dockToHost |-> EmptyQueue,
                       openCount |-> 0, closeCount |-> 0]

\* db_fake_transport_initialize(): a zeroed, connected, closed transport.
Fresh(next) == [connected |-> TRUE, open |-> FALSE,
                epoch |-> Taken(next), nextEpoch |-> After(next),
                hostToDock |-> EmptyQueue, dockToHost |-> EmptyQueue,
                openCount |-> 0, closeCount |-> 0]

OpenResult(f) == IF f.connected THEN "ok" ELSE "disconnected"

Opened(f) ==
  IF f.connected /\ ~f.open
  THEN Advanced([f EXCEPT !.open = TRUE, !.openCount = @ + 1])
  ELSE f

\* Seeded fault for EpochWitnessesContinuity: closing keeps the epoch.
ClosedInTheSameEpoch(f) ==
  Cleared(IF f.open
          THEN [f EXCEPT !.open = FALSE, !.closeCount = @ + 1]
          ELSE f)

Closed(f) ==
  Cleared(IF f.open
          THEN Advanced([f EXCEPT !.open = FALSE, !.closeCount = @ + 1])
          ELSE f)

Disconnected(f) ==
  IF f.connected
  THEN Advanced(Cleared(
         [f EXCEPT !.connected = FALSE, !.open = FALSE,
                   !.closeCount = IF f.open THEN @ + 1 ELSE @]))
  ELSE f

Reconnected(f) ==
  IF f.connected THEN f ELSE Advanced([f EXCEPT !.connected = TRUE])

\* db_transport_write() and db_transport_read() refuse an empty buffer before
\* they reach the fake's callback; the callback's own checks come in order.
LinkResult(f, endpoint, required, size) ==
  CASE size = 0 -> "invalid-argument"
    [] size # 0 /\ ~f.connected -> "disconnected"
    [] size # 0 /\ f.connected /\ ~f.open -> "closed"
    [] size # 0 /\ IsOpen(f) /\ endpoint # required -> "wrong-endpoint"
    [] OTHER -> "ok"

Then(first, second) == IF first = "ok" THEN second ELSE first

Plugged(f) == IF f.connected THEN "ok" ELSE "disconnected"

\* The lengths of a packet, or of a buffer, that callers may ask for.
Sizes == 0 .. (MaxChunk + 1)

\* The packets of a ring in the order they were pushed.
Contents(q) == [k \in 1 .. q.count |-> q.length[Slot(q, k - 1)]]
=============================================================================
