--------------------------- MODULE FakeTransport ---------------------------
(***************************************************************************)
(* clean-room/transport.c and clean-room/fake_transport.c as a state       *)
(* machine: the host opens, closes, writes and reads; the dock's side      *)
(* unplugs, plugs in, injects and takes packets; the owner may initialise  *)
(* the object again at any time.  One action per function, with all its    *)
(* early returns.                                                          *)
(***************************************************************************)
EXTENDS TransportOps

CONSTANT MaxOpens       \* bound: opens between two initialisations

VARIABLES fake,         \* the DBFakeTransport, and next_lifecycle_epoch
          result,       \* what the last call returned
          buffer        \* the packet last copied into a caller's buffer

vars == <<fake, result, buffer>>

TypeOK == /\ fake \in Fakes
          /\ result \in Results
          /\ buffer \in 0 .. MaxChunk

Init == /\ fake = Fresh(1)
        /\ result = "ok"
        /\ buffer = 0
-----------------------------------------------------------------------------
Open == /\ fake.openCount < MaxOpens
        /\ fake' = Opened(fake)
        /\ result' = OpenResult(fake)
        /\ UNCHANGED buffer

Close == /\ fake' = Closed(fake)
         /\ UNCHANGED <<result, buffer>>

Disconnect == /\ fake' = Disconnected(fake)
              /\ UNCHANGED <<result, buffer>>

Reconnect == /\ fake' = Reconnected(fake)
             /\ UNCHANGED <<result, buffer>>

Initialize == /\ fake' = Fresh(fake.nextEpoch)
              /\ UNCHANGED <<result, buffer>>

Write(endpoint, len) ==
  /\ result' = Then(LinkResult(fake, endpoint, "0x02", len),
                    PushResult(fake.hostToDock, len))
  /\ fake' = IF result' = "ok"
             THEN [fake EXCEPT !.hostToDock = Pushed(@, len)]
             ELSE fake
  /\ UNCHANGED buffer

Read(endpoint, room) ==
  /\ result' = Then(LinkResult(fake, endpoint, "0x84", room),
                    PopResult(fake.dockToHost, room))
  /\ fake' = IF result' = "ok"
             THEN [fake EXCEPT !.dockToHost = Popped(@)]
             ELSE fake
  /\ buffer' = IF result' = "ok" THEN Front(fake.dockToHost) ELSE buffer

InjectInbound(len) ==
  /\ result' = Then(Plugged(fake), PushResult(fake.dockToHost, len))
  /\ fake' = IF result' = "ok"
             THEN [fake EXCEPT !.dockToHost = Pushed(@, len)]
             ELSE fake
  /\ UNCHANGED buffer

TakeOutbound(room) ==
  /\ result' = Then(Plugged(fake), PopResult(fake.hostToDock, room))
  /\ fake' = IF result' = "ok"
             THEN [fake EXCEPT !.hostToDock = Popped(@)]
             ELSE fake
  /\ buffer' = IF result' = "ok" THEN Front(fake.hostToDock) ELSE buffer

\* Another transport of the process takes the next lifecycle epoch.
OtherTransport == /\ fake' = [fake EXCEPT !.nextEpoch = After(@)]
                  /\ UNCHANGED <<result, buffer>>

Next == \/ Open \/ Close \/ Disconnect \/ Reconnect \/ Initialize
        \/ OtherTransport
        \/ \E size \in Sizes :
              \/ \E endpoint \in Endpoints : \/ Write(endpoint, size)
                                             \/ Read(endpoint, size)
              \/ InjectInbound(size)
              \/ TakeOutbound(size)

Spec == Init /\ [][Next]_vars
-----------------------------------------------------------------------------
(* Properties.                                                             *)

\* The slots that hold a packet are exactly the window head .. head+count-1
\* of the ring: no packet of an earlier push or session is left where a
\* later read could find it, and no read finds an empty slot.
WindowIsExact ==
  \A q \in {fake.hostToDock, fake.dockToHost} : \A i \in Slots :
     q.length[i] # 0 <=> \E k \in 0 .. (q.count - 1) : Slot(q, k) = i

\* Packets never outlive what they were queued for: the host's die with the
\* open session, the dock's with the cable.
QueuesDieWithSession ==
  /\ fake.open => fake.connected
  /\ fake.hostToDock.count > 0 => IsOpen(fake)
  /\ fake.dockToHost.count > 0 => fake.connected

\* Every open is closed exactly once, by close or by disconnect.
OpensAndClosesPair ==
  fake.openCount = fake.closeCount + (IF fake.open THEN 1 ELSE 0)

\* A caller that sees the same non-zero epoch twice knows that the link was
\* neither opened nor closed in between, and that no packet the host queued
\* has been thrown away; epochs only grow, until they end in 0 for good.
EpochWitnessesContinuity ==
  [][/\ fake'.epoch = fake.epoch /\ fake.epoch # 0 =>
          /\ IsOpen(fake') = IsOpen(fake)
          /\ fake'.hostToDock.count + 1 >= fake.hostToDock.count
     /\ fake'.epoch = 0 \/ (fake.epoch # 0 /\ fake'.epoch >= fake.epoch)]_vars

Phase == IF ~fake.connected THEN "unplugged"
         ELSE IF fake.open THEN "open" ELSE "closed"

Link == INSTANCE PacketLink
          WITH Chunks   <- 1 .. MaxChunk,
               Sessions <- 1 .. (EpochMax - 1),
               phase    <- Phase,
               session  <- fake.epoch,
               spent    <- 1 .. (fake.nextEpoch - 1),
               outbound <- Contents(fake.hostToDock),
               inbound  <- Contents(fake.dockToHost),
               handed   <- buffer

\* The rings, flags and counters implement two first-in first-out channels
\* cut into sessions with numbers that never repeat.
ImplementsPacketLink == Link!Spec
=============================================================================
