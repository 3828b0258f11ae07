--------------------------- MODULE Transport_proofs ---------------------------
(***************************************************************************)
(* Proofs about TicketCounter, for every number of threads and every       *)
(* Limit; and about FakeTransport, for every capacity, chunk size and      *)
(* epoch limit: its invariants, the epoch as a witness of continuity, and  *)
(* the refinement of PacketLink.                                           *)
(***************************************************************************)
EXTENDS TicketCounter, FakeTransport, Operators_proofs

-----------------------------------------------------------------------------
(* TicketCounter.  The inductive invariant adds two facts to the type: a   *)
(* thread's local copy is never ahead of the counter, and every ticket     *)
(* held lies below the counter, where no later swap can produce it again.  *)

NotAhead == \A t \in Threads : current[t] <= counter

HeldBelowCounter == \A t \in Threads : held[t] < counter

CounterInv == CounterTypeOK /\ NotAhead /\ HeldBelowCounter /\ HeldTicketsDiffer

LEMMA InitCounterInv == CounterInit => CounterInv
  BY LimitAssumption
     DEF CounterInit, CounterInv, CounterTypeOK, NotAhead, HeldBelowCounter, HeldTicketsDiffer

\* One step, of any thread, keeps the invariant.
LEMMA NextCounterInv == CounterInv /\ [CounterNext]_counterVars => CounterInv'
<1> SUFFICES ASSUME CounterInv, [CounterNext]_counterVars
             PROVE  CounterInv'
  OBVIOUS
<1> USE LimitAssumption
        DEF CounterInv, CounterTypeOK, NotAhead, HeldBelowCounter, HeldTicketsDiffer
<1>1. ASSUME NEW t \in Threads, Load(t)
      PROVE  CounterInv'
  BY <1>1 DEF Load, Visible
<1>2. ASSUME NEW t \in Threads, ReturnExhausted(t)
      PROVE  CounterInv'
  BY <1>2 DEF ReturnExhausted
<1>3. ASSUME NEW t \in Threads, SwapSucceeds(t)
      PROVE  CounterInv'
  <2>1. CounterTypeOK' /\ NotAhead' /\ HeldBelowCounter'
    BY <1>3 DEF SwapSucceeds
  <2>2. HeldTicketsDiffer'
    BY <1>3 DEF SwapSucceeds
  <2> QED
    BY <2>1, <2>2
<1>4. ASSUME NEW t \in Threads, SwapFails(t)
      PROVE  CounterInv'
  BY <1>4 DEF SwapFails, Visible
<1>5. CASE UNCHANGED counterVars
  BY <1>5 DEF counterVars
<1> QED
  BY <1>1, <1>2, <1>3, <1>4, <1>5 DEF CounterNext

(***************************************************************************)
(* The counter, the local copies and the held tickets always have the      *)
(* values their types say: the counter never wraps past Limit.             *)
(***************************************************************************)
THEOREM CounterTypeCorrect == CounterSpec => []CounterTypeOK
<1>1. CounterInv => CounterTypeOK
  BY DEF CounterInv
<1> QED
  BY <1>1, InitCounterInv, NextCounterInv, PTL DEF CounterSpec

(***************************************************************************)
(* No two threads ever hold the same ticket, whatever stale values their   *)
(* relaxed loads returned and however often their weak swaps failed.       *)
(***************************************************************************)
THEOREM HeldTicketsAlwaysDiffer == CounterSpec => []HeldTicketsDiffer
<1>1. CounterInv => HeldTicketsDiffer
  BY DEF CounterInv
<1> QED
  BY <1>1, InitCounterInv, NextCounterInv, PTL DEF CounterSpec

(***************************************************************************)
(* The loop implements the indivisible draw: a successful swap hands out   *)
(* a ticket that was never issued, and 0 is answered only when all are     *)
(* gone.                                                                   *)
(***************************************************************************)
THEOREM DrawsUniqueTickets == CounterSpec => ImplementsUniqueTickets
<1>1. CounterInit => Tickets!Init
  BY DEF CounterInit, Tickets!Init
<1>2. CounterInv /\ [CounterNext]_counterVars => [Tickets!Next]_<<1 .. (counter - 1), held>>
  <2> SUFFICES ASSUME CounterInv, [CounterNext]_counterVars
               PROVE  \/ Tickets!Next
                      \/ UNCHANGED <<1 .. (counter - 1), held>>
    OBVIOUS
  <2> USE LimitAssumption DEF CounterInv, CounterTypeOK, NotAhead
  <2>1. ASSUME NEW t \in Threads, Load(t) \/ SwapFails(t)
        PROVE  UNCHANGED <<1 .. (counter - 1), held>>
    BY <2>1 DEF Load, SwapFails
  <2>2. ASSUME NEW t \in Threads, ReturnExhausted(t)
        PROVE  Tickets!Refuse(t)
    BY <2>2 DEF ReturnExhausted, Tickets!Refuse, Tickets!Tickets
  <2>3. ASSUME NEW t \in Threads, SwapSucceeds(t)
        PROVE  Tickets!Take(t)
    <3>1. counter \in Tickets!Tickets \ (1 .. (counter - 1))
      BY <2>3 DEF SwapSucceeds, Tickets!Tickets
    <3>2. (1 .. (counter - 1))' = (1 .. (counter - 1)) \cup {counter}
      BY <2>3 DEF SwapSucceeds
    <3>3. held' = [held EXCEPT ![t] = counter]
      BY <2>3 DEF SwapSucceeds
    <3> QED
      BY <3>1, <3>2, <3>3 DEF Tickets!Take
  <2>4. CASE UNCHANGED counterVars
    BY <2>4 DEF counterVars
  <2> QED
    BY <2>1, <2>2, <2>3, <2>4 DEF CounterNext, Tickets!Next
<1> QED
  BY <1>1, <1>2, InitCounterInv, NextCounterInv, PTL
     DEF CounterSpec, ImplementsUniqueTickets, Tickets!Spec
-----------------------------------------------------------------------------
(* FakeTransport.  The invariant of the specification.                     *)

IInv == Sound(fake) /\ result \in Results /\ buffer \in 0 .. MaxChunk

LEMMA InitIInv == Init => IInv
<1>1. 1 \in 1 .. EpochMax
  BY EpochAssumption
<1> QED
  BY <1>1, FreshSound, MaxChunkAssumption DEF Init, IInv, Results

LEMMA NextIInv == IInv /\ [Next]_vars => IInv'
<1> SUFFICES ASSUME IInv, [Next]_vars
             PROVE  IInv'
  OBVIOUS
<1>0. /\ Sound(fake) /\ fake \in Fakes
      /\ fake.hostToDock \in Queues /\ fake.dockToHost \in Queues
      /\ fake.nextEpoch \in 1 .. EpochMax
  BY DEF IInv, Sound, Fakes
<1>1. CASE Open
  BY <1>1, OpenedSound DEF Open, IInv, OpenResult, Results
<1>2. CASE Close
  BY <1>2, ClosedSound DEF Close, IInv
<1>3. CASE Disconnect
  BY <1>3, DisconnectedSound DEF Disconnect, IInv
<1>4. CASE Reconnect
  BY <1>4, ReconnectedSound DEF Reconnect, IInv
<1>5. CASE Initialize
  BY <1>0, <1>5, FreshSound DEF Initialize, IInv
<1>6. CASE OtherTransport
  <2>1. /\ fake' = [fake EXCEPT !.nextEpoch = After(fake.nextEpoch)]
        /\ UNCHANGED <<result, buffer>>
    BY <1>6 DEF OtherTransport
  <2>2. /\ After(fake.nextEpoch) \in 1 .. EpochMax
        /\ fake.nextEpoch <= After(fake.nextEpoch)
        /\ fake.nextEpoch = EpochMax => After(fake.nextEpoch) = EpochMax
    BY <1>0, EpochAssumption DEF After
  <2>3. /\ fake' \in Fakes
        /\ fake'.nextEpoch = After(fake.nextEpoch) /\ fake'.epoch = fake.epoch
        /\ fake'.connected = fake.connected /\ fake'.open = fake.open
        /\ fake'.hostToDock = fake.hostToDock /\ fake'.dockToHost = fake.dockToHost
        /\ fake'.openCount = fake.openCount /\ fake'.closeCount = fake.closeCount
    BY <1>0, <2>1, <2>2 DEF Fakes
  <2>4. fake'.epoch < fake'.nextEpoch
    BY <1>0, <2>2, <2>3, EpochAssumption DEF Sound, Fakes
  <2>5. Sound(fake')
    BY <1>0, <2>2, <2>3, <2>4 DEF Sound
  <2> QED
    BY <2>1, <2>5 DEF IInv
<1>7. ASSUME NEW size \in Sizes, NEW endpoint \in Endpoints, Write(endpoint, size)
      PROVE  IInv'
  BY <1>0, <1>7, OkFacts, PushSound DEF Write, IInv
<1>8. ASSUME NEW size \in Sizes, NEW endpoint \in Endpoints, Read(endpoint, size)
      PROVE  IInv'
  <2>1. result' \in Results
    BY <1>0, <1>8, OkFacts DEF Read
  <2>2. CASE result' = "ok"
    <3>1. fake.dockToHost.count > 0
      BY <1>0, <1>8, <2>2, OkFacts DEF Read
    <3>2. /\ fake' = [fake EXCEPT !.dockToHost = Popped(fake.dockToHost)]
          /\ buffer' = Front(fake.dockToHost)
      BY <1>8, <2>2 DEF Read
    <3> QED
      BY <1>0, <2>1, <3>1, <3>2, PopSound, PoppedFacts DEF IInv
  <2>3. CASE result' # "ok"
    BY <1>8, <2>1, <2>3 DEF Read, IInv
  <2> QED
    BY <2>2, <2>3
<1>9. ASSUME NEW size \in Sizes, InjectInbound(size)
      PROVE  IInv'
  BY <1>0, <1>9, OkFacts, PushSound DEF InjectInbound, IInv
<1>10. ASSUME NEW size \in Sizes, TakeOutbound(size)
       PROVE  IInv'
  BY <1>0, <1>10, OkFacts, PopSound, PoppedFacts DEF TakeOutbound, IInv
<1>11. CASE UNCHANGED vars
  BY <1>11 DEF vars, IInv
<1> QED
  BY <1>1, <1>2, <1>3, <1>4, <1>5, <1>6, <1>7, <1>8, <1>9, <1>10, <1>11 DEF Next

(***************************************************************************)
(* Every variable keeps its type: rings stay inside their slots, the epoch *)
(* below its limit, the caller's buffer holds a packet that fits.          *)
(***************************************************************************)
THEOREM TypeCorrect == Spec => []TypeOK
<1>1. IInv => TypeOK
  BY DEF IInv, Sound, TypeOK
<1> QED
  BY <1>1, InitIInv, NextIInv, PTL DEF Spec

(***************************************************************************)
(* The occupied slots of both rings are exactly the window from head, of   *)
(* length count, after any sequence of pushes, pops and clears.            *)
(***************************************************************************)
THEOREM WindowAlwaysExact == Spec => []WindowIsExact
<1>1. IInv => WindowIsExact
  BY DEF IInv, Sound, WindowIsExact, QueueWindow
<1> QED
  BY <1>1, InitIInv, NextIInv, PTL DEF Spec

(***************************************************************************)
(* No packet outlives the session or the cable it was queued for.          *)
(***************************************************************************)
THEOREM QueuesAlwaysDieWithSession == Spec => []QueuesDieWithSession
<1>1. IInv => QueuesDieWithSession
  BY DEF IInv, Sound, QueuesDieWithSession, IsOpen
<1> QED
  BY <1>1, InitIInv, NextIInv, PTL DEF Spec

(***************************************************************************)
(* Opens and closes pair, whichever of close and disconnect ended the      *)
(* session.                                                                *)
(***************************************************************************)
THEOREM OpensAndClosesAlwaysPair == Spec => []OpensAndClosesPair
<1>1. IInv => OpensAndClosesPair
  BY DEF IInv, Sound, OpensAndClosesPair
<1> QED
  BY <1>1, InitIInv, NextIInv, PTL DEF Spec
-----------------------------------------------------------------------------
(* The epoch as a witness of continuity.                                   *)

(***************************************************************************)
(* Between two states with the same non-zero epoch the link was neither    *)
(* opened nor closed and lost no packet of the host's; epochs only grow    *)
(* until they are 0 for good.                                              *)
(***************************************************************************)
Continuity ==
  /\ fake'.epoch = fake.epoch /\ fake.epoch # 0 =>
       /\ IsOpen(fake') = IsOpen(fake)
       /\ fake'.hostToDock.count + 1 >= fake.hostToDock.count
  /\ fake'.epoch = 0 \/ (fake.epoch # 0 /\ fake'.epoch >= fake.epoch)

\* An operation that draws a new epoch cannot break continuity.
LEMMA DrawnContinuity ==
  ASSUME Sound(fake), Drawn(fake, fake')
  PROVE  Continuity
  BY EpochAssumption DEF Continuity, Sound, Fakes, Taken, Drawn

\* Nor can one that keeps the epoch, the flags and all packets but one.
LEMMA KeptContinuity ==
  ASSUME Sound(fake), fake'.epoch = fake.epoch,
         fake'.connected = fake.connected, fake'.open = fake.open,
         fake'.hostToDock.count \in Nat,
         fake'.hostToDock.count + 1 >= fake.hostToDock.count
  PROVE  Continuity
  BY DEF Continuity, Sound, Fakes, IsOpen

LEMMA NextContinuity == IInv /\ [Next]_vars => Continuity
<1> SUFFICES ASSUME IInv, [Next]_vars
             PROVE  Continuity
  OBVIOUS
<1>0. /\ Sound(fake) /\ fake \in Fakes
      /\ fake.hostToDock \in Queues /\ fake.dockToHost \in Queues
      /\ fake.hostToDock.count \in Nat
      /\ fake.nextEpoch \in 1 .. EpochMax
  BY CapacityAssumption DEF IInv, Sound, Fakes, Queues
<1>1. ASSUME Drawn(fake, fake') \/ fake' = fake
      PROVE  Continuity
  <2>1. CASE fake' = fake
    BY <1>0, <2>1, KeptContinuity
  <2> QED
    BY <1>0, <1>1, <2>1, DrawnContinuity
<1>2. CASE Close
  <2>1. CASE fake.open
    BY <1>0, <1>1, <1>2, <2>1, ClosedLifecycle DEF Close
  <2>2. CASE ~fake.open
    <3>1. fake' = Cleared(fake)
      BY <1>2, <2>2 DEF Close, Closed
    <3>2. fake'.hostToDock.count = 0 /\ fake.hostToDock.count = 0
      BY <1>0, <2>2, <3>1, ClearedFacts DEF EmptyQueue, Sound
    <3> QED
      BY <1>0, <3>1, <3>2, ClearedFacts, KeptContinuity
  <2> QED
    BY <2>1, <2>2
<1>3. CASE Open
  BY <1>0, <1>1, <1>3, OpenedLifecycle DEF Open
<1>4. CASE Disconnect \/ Reconnect
  BY <1>0, <1>1, <1>4, DisconnectedLifecycle, ReconnectedLifecycle
     DEF Disconnect, Reconnect
<1>5. CASE Initialize
  BY <1>1, <1>5 DEF Initialize, Fresh, Drawn
<1>6. CASE OtherTransport
  <2>1. /\ fake'.epoch = fake.epoch /\ fake'.connected = fake.connected
        /\ fake'.open = fake.open /\ fake'.hostToDock = fake.hostToDock
    BY <1>0, <1>6 DEF OtherTransport, Fakes
  <2> QED
    BY <1>0, <2>1, KeptContinuity
<1>7. ASSUME NEW size \in Sizes,
             \/ \E endpoint \in Endpoints : Write(endpoint, size) \/ Read(endpoint, size)
             \/ InjectInbound(size)
             \/ TakeOutbound(size)
      PROVE  Continuity
  <2>1. \/ fake' = fake
        \/ /\ fake' = [fake EXCEPT !.hostToDock = Pushed(fake.hostToDock, size)]
           /\ size \in 1 .. MaxChunk /\ fake.hostToDock.count < Capacity
        \/ /\ fake' = [fake EXCEPT !.dockToHost = Pushed(fake.dockToHost, size)]
           /\ size \in 1 .. MaxChunk /\ fake.dockToHost.count < Capacity
        \/ /\ fake' = [fake EXCEPT !.hostToDock = Popped(fake.hostToDock)]
           /\ fake.hostToDock.count > 0
        \/ /\ fake' = [fake EXCEPT !.dockToHost = Popped(fake.dockToHost)]
           /\ fake.dockToHost.count > 0
    BY <1>0, <1>7, OkFacts DEF Write, Read, InjectInbound, TakeOutbound
  <2>2. /\ fake'.epoch = fake.epoch /\ fake'.connected = fake.connected
        /\ fake'.open = fake.open
        /\ \/ fake'.hostToDock = fake.hostToDock
           \/ /\ fake'.hostToDock = Pushed(fake.hostToDock, size)
              /\ size \in 1 .. MaxChunk /\ fake.hostToDock.count < Capacity
           \/ /\ fake'.hostToDock = Popped(fake.hostToDock)
              /\ fake.hostToDock.count > 0
    BY <1>0, <2>1 DEF Fakes
  <2>3. /\ fake'.hostToDock.count \in Nat
        /\ fake'.hostToDock.count + 1 >= fake.hostToDock.count
    <3>1. CASE fake'.hostToDock = fake.hostToDock
      BY <1>0, <3>1
    <3>2. CASE /\ fake'.hostToDock = Pushed(fake.hostToDock, size)
               /\ size \in 1 .. MaxChunk /\ fake.hostToDock.count < Capacity
      <4>1. Pushed(fake.hostToDock, size).count = fake.hostToDock.count + 1
        BY <1>0, <3>2, PushedFacts
      <4> QED
        BY <1>0, <3>2, <4>1
    <3>3. CASE /\ fake'.hostToDock = Popped(fake.hostToDock)
               /\ fake.hostToDock.count > 0
      <4>1. Popped(fake.hostToDock).count = fake.hostToDock.count - 1
        BY <1>0, <3>3, PoppedFacts
      <4> QED
        BY <1>0, <3>3, <4>1
    <3> QED
      BY <2>2, <3>1, <3>2, <3>3
  <2> QED
    BY <1>0, <2>2, <2>3, KeptContinuity
<1>8. CASE UNCHANGED vars
  BY <1>1, <1>8 DEF vars
<1> QED
  BY <1>2, <1>3, <1>4, <1>5, <1>6, <1>7, <1>8 DEF Next

(***************************************************************************)
(* The epoch is a witness of continuity in every behaviour.                *)
(***************************************************************************)
THEOREM EpochAlwaysWitnessesContinuity == Spec => EpochWitnessesContinuity
<1>1. IInv /\ [Next]_vars => [Continuity]_vars
  BY NextContinuity
<1> QED
  BY <1>1, InitIInv, NextIInv, PTL DEF Spec, EpochWitnessesContinuity, Continuity
-----------------------------------------------------------------------------
(* The refinement.                                                         *)

\* Drawing the next epoch starts a session whose number was never spent.
LEMMA DrawnSession ==
  ASSUME Sound(fake),
         fake'.epoch = Taken(fake.nextEpoch),
         fake'.nextEpoch = After(fake.nextEpoch)
  PROVE  Link!NewSession
<1>1. fake.nextEpoch \in 1 .. EpochMax
  BY DEF Sound, Fakes
<1>2. CASE fake.nextEpoch = EpochMax
  BY <1>1, <1>2 DEF Taken, After, Link!NewSession
<1>3. CASE fake.nextEpoch # EpochMax
  <2>1. fake'.epoch = fake.nextEpoch /\ fake'.nextEpoch = fake.nextEpoch + 1
    BY <1>3 DEF Taken, After
  <2>2. fake.nextEpoch \in (1 .. (EpochMax - 1)) \ (1 .. (fake.nextEpoch - 1))
    BY <1>1, <1>3, EpochAssumption
  <2>3. (1 .. (fake.nextEpoch - 1))'
          = (1 .. (fake.nextEpoch - 1)) \cup {fake.nextEpoch}
    BY <1>1, <2>1
  <2> QED
    BY <2>1, <2>2, <2>3 DEF Link!NewSession
<1> QED
  BY <1>2, <1>3

LEMMA InitRefines == Init => Link!Init
<1> SUFFICES ASSUME Init
             PROVE  Link!Init
  OBVIOUS
<1>1. /\ fake.connected = TRUE /\ fake.open = FALSE
      /\ fake.hostToDock = EmptyQueue /\ fake.dockToHost = EmptyQueue
      /\ fake.epoch = 1 /\ fake.nextEpoch = 2 /\ buffer = 0
  BY EpochAssumption DEF Init, Fresh, Taken, After
<1>2. 1 .. (fake.nextEpoch - 1) = {1}
  BY <1>1
<1> QED
  BY <1>1, <1>2, EmptyQueueFacts DEF Link!Init, Phase

LEMMA NextRefines == IInv /\ [Next]_vars => [Link!Next]_(Link!vars)
<1> SUFFICES ASSUME IInv, [Next]_vars
             PROVE  Link!Next \/ UNCHANGED Link!vars
  OBVIOUS
<1>0. /\ Sound(fake) /\ fake \in Fakes
      /\ fake.hostToDock \in Queues /\ fake.dockToHost \in Queues
      /\ fake.nextEpoch \in 1 .. EpochMax
      /\ fake.open => fake.connected
  BY DEF IInv, Sound, Fakes
<1>1. CASE Open
  <2>1. CASE fake.connected /\ ~fake.open
    <3> DEFINE g == [fake EXCEPT !.open = TRUE, !.openCount = @ + 1]
    <3>1. fake.openCount + 1 \in Nat
      BY <1>0 DEF Fakes
    <3>2. /\ g \in Fakes /\ g.nextEpoch = fake.nextEpoch
          /\ g.open = TRUE /\ g.connected = fake.connected
          /\ g.hostToDock = fake.hostToDock /\ g.dockToHost = fake.dockToHost
      BY <1>0, <3>1 DEF Fakes
    <3>3. fake' = Advanced(g) /\ buffer' = buffer
      BY <1>1, <2>1 DEF Open, Opened
    <3> HIDE DEF g
    <3>4. /\ fake'.connected = fake.connected /\ fake'.open = TRUE
          /\ fake'.hostToDock = fake.hostToDock /\ fake'.dockToHost = fake.dockToHost
          /\ fake'.epoch = Taken(fake.nextEpoch)
          /\ fake'.nextEpoch = After(fake.nextEpoch)
      BY <3>2, <3>3, AdvancedFacts
    <3>5. Phase = "closed" /\ Phase' = "open"
      BY <2>1, <3>4 DEF Phase
    <3>6. Link!Open
      BY <1>0, <3>3, <3>4, <3>5, DrawnSession DEF Link!Open, Link!KeepBoth
    <3> QED
      BY <3>6 DEF Link!Next
  <2>2. CASE ~(fake.connected /\ ~fake.open)
    <3>1. fake' = fake /\ buffer' = buffer
      BY <1>1, <2>2 DEF Open, Opened
    <3> QED
      BY <3>1 DEF Link!vars, Phase
  <2> QED
    BY <2>1, <2>2
<1>2. CASE Close
  <2>1. CASE fake.open
    <3> DEFINE g == [fake EXCEPT !.open = FALSE, !.closeCount = @ + 1]
    <3>1. fake.closeCount + 1 \in Nat
      BY <1>0 DEF Fakes
    <3>2. /\ g \in Fakes /\ g.nextEpoch = fake.nextEpoch
          /\ g.open = FALSE /\ g.connected = fake.connected
      BY <1>0, <3>1 DEF Fakes
    <3>3. fake' = Cleared(Advanced(g)) /\ buffer' = buffer
      BY <1>2, <2>1 DEF Close, Closed
    <3> HIDE DEF g
    <3>4. /\ fake'.connected = fake.connected /\ fake'.open = FALSE
          /\ fake'.hostToDock = EmptyQueue /\ fake'.dockToHost = EmptyQueue
          /\ fake'.epoch = Taken(fake.nextEpoch)
          /\ fake'.nextEpoch = After(fake.nextEpoch)
      BY <3>2, <3>3, AdvancedFacts, ClearedFacts
    <3>5. Phase = "open" /\ Phase' = "closed"
      BY <1>0, <2>1, <3>4 DEF Phase
    <3>6. Link!Close
      BY <1>0, <3>3, <3>4, <3>5, DrawnSession, EmptyQueueFacts
         DEF Link!Close, Link!EmptyBoth
    <3> QED
      BY <3>6 DEF Link!Next
  <2>2. CASE ~fake.open
    <3>1. fake' = Cleared(fake) /\ buffer' = buffer
      BY <1>2, <2>2 DEF Close, Closed
    <3>2. /\ fake'.connected = fake.connected /\ fake'.open = fake.open
          /\ fake'.hostToDock = EmptyQueue /\ fake'.dockToHost = EmptyQueue
          /\ fake'.epoch = fake.epoch
          /\ fake'.nextEpoch = fake.nextEpoch
      BY <1>0, <3>1, ClearedFacts
    <3>3. Phase # "open" /\ Phase' = Phase
      BY <2>2, <3>2 DEF Phase
    <3>4. Link!Discard
      BY <3>1, <3>2, <3>3, EmptyQueueFacts
         DEF Link!Discard, Link!EmptyBoth, Link!KeepSession
    <3> QED
      BY <3>4 DEF Link!Next
  <2> QED
    BY <2>1, <2>2
<1>3. CASE Disconnect
  <2>1. CASE fake.connected
    <3> DEFINE g == [fake EXCEPT !.connected = FALSE, !.open = FALSE,
                       !.closeCount = IF fake.open THEN @ + 1 ELSE @]
    <3>1. (IF fake.open THEN fake.closeCount + 1 ELSE fake.closeCount) \in Nat
      BY <1>0 DEF Fakes
    <3>2. g \in Fakes /\ g.nextEpoch = fake.nextEpoch /\ g.connected = FALSE
      BY <1>0, <3>1 DEF Fakes
    <3>3. fake' = Advanced(Cleared(g)) /\ buffer' = buffer
      BY <1>3, <2>1 DEF Disconnect, Disconnected
    <3> HIDE DEF g
    <3>4. /\ fake'.connected = FALSE
          /\ fake'.hostToDock = EmptyQueue /\ fake'.dockToHost = EmptyQueue
          /\ fake'.epoch = Taken(fake.nextEpoch)
          /\ fake'.nextEpoch = After(fake.nextEpoch)
      BY <3>2, <3>3, AdvancedFacts, ClearedFacts
    <3>5. Phase # "unplugged" /\ Phase' = "unplugged"
      BY <2>1, <3>4 DEF Phase
    <3>6. Link!Unplug
      BY <1>0, <3>3, <3>4, <3>5, DrawnSession, EmptyQueueFacts
         DEF Link!Unplug, Link!EmptyBoth
    <3> QED
      BY <3>6 DEF Link!Next
  <2>2. CASE ~fake.connected
    <3>1. fake' = fake /\ buffer' = buffer
      BY <1>3, <2>2 DEF Disconnect, Disconnected
    <3> QED
      BY <3>1 DEF Link!vars, Phase
  <2> QED
    BY <2>1, <2>2
<1>4. CASE Reconnect
  <2>1. CASE ~fake.connected
    <3> DEFINE g == [fake EXCEPT !.connected = TRUE]
    <3>1. /\ g \in Fakes /\ g.nextEpoch = fake.nextEpoch
          /\ g.connected = TRUE /\ g.open = fake.open
          /\ g.hostToDock = fake.hostToDock /\ g.dockToHost = fake.dockToHost
      BY <1>0 DEF Fakes
    <3>2. fake' = Advanced(g) /\ buffer' = buffer
      BY <1>4, <2>1 DEF Reconnect, Reconnected
    <3> HIDE DEF g
    <3>3. /\ fake'.connected = TRUE /\ fake'.open = fake.open
          /\ fake'.hostToDock = fake.hostToDock /\ fake'.dockToHost = fake.dockToHost
          /\ fake'.epoch = Taken(fake.nextEpoch)
          /\ fake'.nextEpoch = After(fake.nextEpoch)
      BY <3>1, <3>2, AdvancedFacts
    <3>4. Phase = "unplugged" /\ Phase' = "closed"
      BY <1>0, <2>1, <3>3 DEF Phase
    <3>5. Link!Plug
      BY <1>0, <3>2, <3>3, <3>4, DrawnSession DEF Link!Plug, Link!KeepBoth
    <3> QED
      BY <3>5 DEF Link!Next
  <2>2. CASE fake.connected
    <3>1. fake' = fake /\ buffer' = buffer
      BY <1>4, <2>2 DEF Reconnect, Reconnected
    <3> QED
      BY <3>1 DEF Link!vars, Phase
  <2> QED
    BY <2>1, <2>2
<1>5. CASE Initialize
  <2>1. /\ fake'.connected = TRUE /\ fake'.open = FALSE
        /\ fake'.hostToDock = EmptyQueue /\ fake'.dockToHost = EmptyQueue
        /\ fake'.epoch = Taken(fake.nextEpoch)
        /\ fake'.nextEpoch = After(fake.nextEpoch)
        /\ buffer' = buffer
    BY <1>5 DEF Initialize, Fresh
  <2>2. Phase' = "closed"
    BY <2>1 DEF Phase
  <2>3. Link!Reinitialize
    BY <1>0, <2>1, <2>2, DrawnSession, EmptyQueueFacts
       DEF Link!Reinitialize, Link!EmptyBoth
  <2> QED
    BY <2>3 DEF Link!Next
<1>6. CASE OtherTransport
  <2>1. /\ fake'.epoch = fake.epoch /\ fake'.connected = fake.connected
        /\ fake'.open = fake.open /\ fake'.hostToDock = fake.hostToDock
        /\ fake'.dockToHost = fake.dockToHost
        /\ fake'.nextEpoch = After(fake.nextEpoch)
        /\ buffer' = buffer
    BY <1>0, <1>6 DEF OtherTransport, Fakes
  <2>2. UNCHANGED <<Phase, fake.epoch, Contents(fake.hostToDock),
                    Contents(fake.dockToHost), buffer>>
    BY <2>1 DEF Phase
  <2>3. CASE fake.nextEpoch = EpochMax
    BY <2>1, <2>2, <2>3 DEF After, Link!vars
  <2>4. CASE fake.nextEpoch # EpochMax
    <3>1. fake.nextEpoch \in (1 .. (EpochMax - 1)) \ (1 .. (fake.nextEpoch - 1))
      BY <1>0, <2>4, EpochAssumption
    <3>2. (1 .. (fake.nextEpoch - 1))'
            = (1 .. (fake.nextEpoch - 1)) \cup {fake.nextEpoch}
      BY <1>0, <2>1, <2>4 DEF After
    <3>3. Link!OtherLink
      BY <2>2, <3>1, <3>2 DEF Link!OtherLink
    <3> QED
      BY <3>3 DEF Link!Next
  <2> QED
    BY <2>3, <2>4
<1>7. ASSUME NEW size \in Sizes,
             \/ \E endpoint \in Endpoints : Write(endpoint, size) \/ Read(endpoint, size)
             \/ InjectInbound(size)
             \/ TakeOutbound(size)
      PROVE  Link!Next \/ UNCHANGED Link!vars
  <2>1. \/ fake' = fake /\ buffer' = buffer
        \/ /\ fake' = [fake EXCEPT !.hostToDock = Pushed(fake.hostToDock, size)]
           /\ size \in 1 .. MaxChunk /\ fake.hostToDock.count < Capacity
           /\ fake.connected /\ fake.open /\ buffer' = buffer
        \/ /\ fake' = [fake EXCEPT !.dockToHost = Pushed(fake.dockToHost, size)]
           /\ size \in 1 .. MaxChunk /\ fake.dockToHost.count < Capacity
           /\ fake.connected /\ buffer' = buffer
        \/ /\ fake' = [fake EXCEPT !.hostToDock = Popped(fake.hostToDock)]
           /\ fake.hostToDock.count > 0
           /\ fake.connected /\ buffer' = Front(fake.hostToDock)
        \/ /\ fake' = [fake EXCEPT !.dockToHost = Popped(fake.dockToHost)]
           /\ fake.dockToHost.count > 0
           /\ fake.connected /\ fake.open /\ buffer' = Front(fake.dockToHost)
    BY <1>0, <1>7, OkFacts DEF Write, Read, InjectInbound, TakeOutbound
  <2>2. CASE fake' = fake /\ buffer' = buffer
    BY <2>2 DEF Link!vars, Phase
  <2>3. CASE /\ fake' = [fake EXCEPT !.hostToDock = Pushed(fake.hostToDock, size)]
             /\ size \in 1 .. MaxChunk /\ fake.hostToDock.count < Capacity
             /\ fake.connected /\ fake.open /\ buffer' = buffer
    <3>1. /\ fake'.epoch = fake.epoch /\ fake'.connected = fake.connected
          /\ fake'.open = fake.open /\ fake'.nextEpoch = fake.nextEpoch
          /\ fake'.hostToDock = Pushed(fake.hostToDock, size)
          /\ fake'.dockToHost = fake.dockToHost
      BY <1>0, <2>3 DEF Fakes
    <3>2. Phase = "open" /\ Phase' = Phase
      BY <2>3, <3>1 DEF Phase
    <3>3. Link!Send(size)
      BY <1>0, <2>3, <3>1, <3>2, PushedFacts, ContentsFacts
         DEF Link!Send, Link!KeepSession
    <3> QED
      BY <2>3, <3>3 DEF Link!Next
  <2>4. CASE /\ fake' = [fake EXCEPT !.dockToHost = Pushed(fake.dockToHost, size)]
             /\ size \in 1 .. MaxChunk /\ fake.dockToHost.count < Capacity
             /\ fake.connected /\ buffer' = buffer
    <3>1. /\ fake'.epoch = fake.epoch /\ fake'.connected = fake.connected
          /\ fake'.open = fake.open /\ fake'.nextEpoch = fake.nextEpoch
          /\ fake'.dockToHost = Pushed(fake.dockToHost, size)
          /\ fake'.hostToDock = fake.hostToDock
      BY <1>0, <2>4 DEF Fakes
    <3>2. Phase # "unplugged" /\ Phase' = Phase
      BY <2>4, <3>1 DEF Phase
    <3>3. Link!DockSend(size)
      BY <1>0, <2>4, <3>1, <3>2, PushedFacts, ContentsFacts
         DEF Link!DockSend, Link!KeepSession
    <3> QED
      BY <2>4, <3>3 DEF Link!Next
  <2>5. CASE /\ fake' = [fake EXCEPT !.hostToDock = Popped(fake.hostToDock)]
             /\ fake.hostToDock.count > 0
             /\ fake.connected /\ buffer' = Front(fake.hostToDock)
    <3>1. /\ fake'.epoch = fake.epoch /\ fake'.connected = fake.connected
          /\ fake'.open = fake.open /\ fake'.nextEpoch = fake.nextEpoch
          /\ fake'.hostToDock = Popped(fake.hostToDock)
          /\ fake'.dockToHost = fake.dockToHost
      BY <1>0, <2>5 DEF Fakes
    <3>2. Phase # "unplugged" /\ Phase' = Phase
      BY <2>5, <3>1 DEF Phase
    <3>3. Link!DockReceive
      BY <1>0, <2>5, <3>1, <3>2, PoppedFacts
         DEF Link!DockReceive, Link!KeepSession
    <3> QED
      BY <3>3 DEF Link!Next
  <2>6. CASE /\ fake' = [fake EXCEPT !.dockToHost = Popped(fake.dockToHost)]
             /\ fake.dockToHost.count > 0
             /\ fake.connected /\ fake.open /\ buffer' = Front(fake.dockToHost)
    <3>1. /\ fake'.epoch = fake.epoch /\ fake'.connected = fake.connected
          /\ fake'.open = fake.open /\ fake'.nextEpoch = fake.nextEpoch
          /\ fake'.dockToHost = Popped(fake.dockToHost)
          /\ fake'.hostToDock = fake.hostToDock
      BY <1>0, <2>6 DEF Fakes
    <3>2. Phase = "open" /\ Phase' = Phase
      BY <2>6, <3>1 DEF Phase
    <3>3. Link!Receive
      BY <1>0, <2>6, <3>1, <3>2, PoppedFacts
         DEF Link!Receive, Link!KeepSession
    <3> QED
      BY <3>3 DEF Link!Next
  <2> QED
    BY <2>1, <2>2, <2>3, <2>4, <2>5, <2>6
<1>8. CASE UNCHANGED vars
  BY <1>8 DEF vars, Link!vars, Phase
<1> QED
  BY <1>1, <1>2, <1>3, <1>4, <1>5, <1>6, <1>7, <1>8 DEF Next

(***************************************************************************)
(* For every capacity, chunk size and epoch limit the transport implements *)
(* the two first-in first-out channels of PacketLink, cut into sessions    *)
(* with numbers that never repeat.                                         *)
(***************************************************************************)
THEOREM Refinement == Spec => ImplementsPacketLink
  BY InitRefines, NextRefines, InitIInv, NextIInv, PTL
     DEF Spec, ImplementsPacketLink, Link!Spec
=============================================================================
