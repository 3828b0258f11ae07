-------------------------- MODULE Operators_proofs --------------------------
(***************************************************************************)
(* Lemmas about the two modules of operators that the specifications are   *)
(* built from: TransportOps and PartialOrder.                              *)
(*                                                                         *)
(* Transports, for every capacity, chunk size and epoch limit: the         *)
(* arithmetic of one ring, what a push and a pop do to its window and its  *)
(* contents, and that every operation on a transport keeps the record      *)
(* sound.                                                                  *)
(*                                                                         *)
(* Orders, for every order, every set of transfers and every size of the   *)
(* storage.  What one more transfer does to the completions of a history   *)
(* is what Successors() does to the frontier (CompletionsExtend), since a  *)
(* run that explains one more transfer is a run that explains the history, *)
(* followed by an eligible role.  Faithful() is a record that tells the    *)
(* same story as a history; loading, accepting and failing keep it so.     *)
(***************************************************************************)
EXTENDS TransportOps, PartialOrder, FiniteSetTheorems, SequenceTheorems, TLAPS

-----------------------------------------------------------------------------
(* Numbers.                                                                *)

\* The least number principle, from the well-foundedness of the inclusion of
\* finite sets: n stands for 0 .. n.
LEMMA Least ==
  ASSUME NEW T \in SUBSET Nat, T # {}
  PROVE  \E x \in T : \A y \in T : x <= y
<1> DEFINE F == {0 .. n : n \in T}
           R == StrictSubsetOrdering(Nat)
<1>1. F # {} /\ F \subseteq FiniteSubsetsOf(Nat)
  <2> SUFFICES ASSUME NEW n \in T PROVE 0 .. n \in FiniteSubsetsOf(Nat)
    OBVIOUS
  <2>1. IsFiniteSet(0 .. n)
    BY FS_Interval
  <2> QED
    BY <2>1 DEF FiniteSubsetsOf
<1>2. IsWellFoundedOn(R, FiniteSubsetsOf(Nat))
  BY FS_StrictSubsetOrderingWellFounded
<1>3. \E x \in F : \A y \in F : ~(<<y, x>> \in R)
  <2> HIDE DEF F, R
  <2> QED
    BY <1>1, <1>2, WFMin
<1>4. PICK m \in T : \A n \in T : ~(<<0 .. n, 0 .. m>> \in R)
  BY <1>3
<1>5. ASSUME NEW n \in T, n < m PROVE FALSE
  <2>1. 0 .. n \subseteq 0 .. m /\ m \in 0 .. m /\ m \notin 0 .. n
    BY <1>5
  <2>2. <<0 .. n, 0 .. m>> \in R
    BY <2>1 DEF StrictSubsetOrdering
  <2> QED
    BY <1>4, <2>2
<1> QED
  BY <1>5

LEMMA Interval ==
  ASSUME NEW k \in Nat
  PROVE  IsFiniteSet(1 .. k) /\ Cardinality(1 .. k) = k
<1>1. 1 \in Int /\ k \in Int /\ (IF 1 > k THEN 0 ELSE k - 1 + 1) = k
  OBVIOUS
<1>2. IsFiniteSet(1 .. k) /\ Cardinality(1 .. k) = IF 1 > k THEN 0 ELSE k - 1 + 1
  BY <1>1, FS_Interval
<1> QED
  BY <1>1, <1>2
-----------------------------------------------------------------------------
(* Rings and transports.                                                   *)

QueueWindow(q) ==
  \A i \in Slots : q.length[i] # 0 <=> \E k \in 0 .. (q.count - 1) : Slot(q, k) = i

-----------------------------------------------------------------------------
(* Arithmetic of the ring.                                                 *)

LEMMA SlotUnfolds ==
  ASSUME NEW q \in Queues, NEW k \in 0 .. Capacity
  PROVE  /\ Slot(q, k) \in Slots
         /\ Slot(q, k) = IF q.head + k < Capacity THEN q.head + k
                         ELSE q.head + k - Capacity
<1>1. q.head \in 0 .. (Capacity - 1)
  BY DEF Queues, Slots
<1>2. (q.head + k) % Capacity \in 0 .. (Capacity - 1)
  BY <1>1, CapacityAssumption
<1>3. CASE q.head + k < Capacity
  <2>1. (q.head + k) % Capacity = q.head + k
    BY <1>1, <1>3, CapacityAssumption
  <2> QED
    BY <1>2, <1>3, <2>1 DEF Slot, Slots
<1>4. CASE ~(q.head + k < Capacity)
  <2>1. (q.head + k) % Capacity = q.head + k - Capacity
    BY <1>1, <1>4, CapacityAssumption
  <2> QED
    BY <1>2, <1>4, <2>1 DEF Slot, Slots
<1> QED
  BY <1>3, <1>4

\* The packets of one window lie in different slots.
LEMMA SlotsDiffer ==
  ASSUME NEW q \in Queues,
         NEW j \in 0 .. (Capacity - 1), NEW k \in 0 .. (Capacity - 1), j # k
  PROVE  Slot(q, j) # Slot(q, k)
<1>1. j \in 0 .. Capacity /\ k \in 0 .. Capacity /\ q.head \in 0 .. (Capacity - 1)
  BY CapacityAssumption DEF Queues, Slots
<1>2. Slot(q, j) = IF q.head + j < Capacity THEN q.head + j
                   ELSE q.head + j - Capacity
  BY <1>1, SlotUnfolds
<1>3. Slot(q, k) = IF q.head + k < Capacity THEN q.head + k
                   ELSE q.head + k - Capacity
  BY <1>1, SlotUnfolds
<1> QED
  BY <1>1, <1>2, <1>3, CapacityAssumption

LEMMA ContentsFacts ==
  ASSUME NEW q \in Queues
  PROVE  /\ Contents(q) \in Seq(0 .. MaxChunk)
         /\ Len(Contents(q)) = q.count
         /\ \A k \in 1 .. q.count : Contents(q)[k] = q.length[Slot(q, k - 1)]
<1>1. q.count \in 0 .. Capacity /\ q.count \in Nat
      /\ q.length \in [Slots -> 0 .. MaxChunk]
  BY CapacityAssumption DEF Queues
<1>2. \A k \in 1 .. q.count : Slot(q, k - 1) \in Slots
  BY <1>1, SlotUnfolds, CapacityAssumption
<1>3. Contents(q) \in [1 .. q.count -> 0 .. MaxChunk]
  BY <1>1, <1>2 DEF Contents
<1>4. Contents(q) \in Seq(0 .. MaxChunk)
  BY <1>1, <1>3, SeqDef
<1>5. Len(Contents(q)) = q.count
  BY <1>1, <1>3, <1>4, LenProperties
<1> QED
  BY <1>4, <1>5 DEF Contents

LEMMA EmptyQueueFacts ==
  EmptyQueue \in Queues /\ QueueWindow(EmptyQueue) /\ Contents(EmptyQueue) = <<>>
<1>1. EmptyQueue \in Queues /\ EmptyQueue.count = 0
  BY CapacityAssumption, MaxChunkAssumption DEF EmptyQueue, Queues, Slots
<1>2. QueueWindow(EmptyQueue)
  BY DEF EmptyQueue, QueueWindow
<1>3. Contents(EmptyQueue) = <<>>
  BY <1>1, ContentsFacts, EmptySeq
<1> QED
  BY <1>1, <1>2, <1>3

LEMMA PushedFacts ==
  ASSUME NEW q \in Queues, NEW len \in 1 .. MaxChunk, q.count < Capacity
  PROVE  /\ Pushed(q, len) \in Queues
         /\ Pushed(q, len).count = q.count + 1
         /\ QueueWindow(q) => QueueWindow(Pushed(q, len))
         /\ Contents(Pushed(q, len)) = Append(Contents(q), len)
<1> DEFINE p == Pushed(q, len)
           last == Slot(q, q.count)
<1>1. q.count \in 0 .. (Capacity - 1)
  BY CapacityAssumption DEF Queues
<1>2. last \in Slots
  BY <1>1, SlotUnfolds, CapacityAssumption
<1>3. /\ p.head = q.head
      /\ p.count = q.count + 1
      /\ p.length = [q.length EXCEPT ![last] = len]
      /\ p \in Queues
  BY <1>1, <1>2, MaxChunkAssumption, CapacityAssumption DEF Pushed, Queues
<1>4. \A k \in 0 .. Capacity : Slot(p, k) = Slot(q, k)
  BY <1>3 DEF Slot
<1>5. \A k \in 0 .. (q.count - 1) : Slot(q, k) \in Slots /\ Slot(q, k) # last
  BY <1>1, SlotsDiffer, SlotUnfolds, CapacityAssumption
<1>6. ASSUME QueueWindow(q)
      PROVE  QueueWindow(p)
  <2> SUFFICES ASSUME NEW i \in Slots
               PROVE  p.length[i] # 0 <=> \E k \in 0 .. q.count : Slot(q, k) = i
    <3>1. 0 .. (p.count - 1) = 0 .. q.count /\ q.count \in 0 .. (Capacity - 1)
      BY <1>1, <1>3
    <3>2. \A k \in 0 .. q.count : Slot(p, k) = Slot(q, k)
      BY <3>1, <1>4, CapacityAssumption
    <3> QED
      BY <3>1, <3>2 DEF QueueWindow
  <2>1. CASE i = last
    BY <2>1, <1>1, <1>2, <1>3, MaxChunkAssumption DEF Queues
  <2>2. CASE i # last
    <3>1. p.length[i] = q.length[i]
      BY <2>2, <1>3 DEF Queues
    <3>2. (\E k \in 0 .. q.count : Slot(q, k) = i)
            <=> (\E k \in 0 .. (q.count - 1) : Slot(q, k) = i)
      BY <2>2, <1>1
    <3> QED
      BY <3>1, <3>2, <1>6 DEF QueueWindow
  <2> QED
    BY <2>1, <2>2
<1>7. Contents(p) = Append(Contents(q), len)
  <2>1. \A k \in 1 .. q.count : p.length[Slot(p, k - 1)] = q.length[Slot(q, k - 1)]
    <3> TAKE k \in 1 .. q.count
    <3>1. k - 1 \in 0 .. (q.count - 1) /\ k - 1 \in 0 .. Capacity
      BY <1>1, CapacityAssumption
    <3>2. Slot(p, k - 1) = Slot(q, k - 1)
      BY <3>1, <1>4
    <3>3. Slot(q, k - 1) \in Slots /\ Slot(q, k - 1) # last
      BY <3>1, <1>5
    <3> QED
      BY <3>2, <3>3, <1>2, <1>3 DEF Queues
  <2>2. p.length[Slot(p, q.count)] = len
    BY <1>1, <1>2, <1>3, <1>4 DEF Queues
  <2>3. len \in 0 .. MaxChunk
    BY MaxChunkAssumption
  <2>4. /\ Append(Contents(q), len) \in Seq(0 .. MaxChunk)
        /\ Len(Append(Contents(q), len)) = q.count + 1
        /\ \A k \in 1 .. q.count :
              Append(Contents(q), len)[k] = q.length[Slot(q, k - 1)]
        /\ Append(Contents(q), len)[q.count + 1] = len
    BY <2>3, ContentsFacts, AppendProperties
  <2>5. /\ Contents(p) \in Seq(0 .. MaxChunk)
        /\ Len(Contents(p)) = q.count + 1
        /\ \A k \in 1 .. (q.count + 1) : Contents(p)[k] = p.length[Slot(p, k - 1)]
    BY <1>3, ContentsFacts
  <2>6. ASSUME NEW k \in 1 .. (q.count + 1)
        PROVE  Contents(p)[k] = Append(Contents(q), len)[k]
    BY <2>1, <2>2, <2>4, <2>5, <1>1
  <2> QED
    BY <2>4, <2>5, <2>6, SeqEqual
<1> QED
  BY <1>3, <1>6, <1>7

LEMMA PoppedFacts ==
  ASSUME NEW q \in Queues, q.count > 0
  PROVE  /\ Popped(q) \in Queues
         /\ Front(q) \in 0 .. MaxChunk
         /\ Popped(q).count = q.count - 1
         /\ QueueWindow(q) => QueueWindow(Popped(q))
         /\ Contents(q) # <<>>
         /\ Head(Contents(q)) = Front(q)
         /\ Contents(Popped(q)) = Tail(Contents(q))
<1> DEFINE p == Popped(q)
<1>1. q.count \in 1 .. Capacity /\ q.head \in Slots /\ q.length \in [Slots -> 0 .. MaxChunk]
  BY CapacityAssumption DEF Queues
<1>2. Slot(q, 0) = q.head /\ Slot(q, 1) \in Slots
  <2>1. 0 \in 0 .. Capacity /\ 1 \in 0 .. Capacity
    BY CapacityAssumption
  <2>2. Slot(q, 0) = IF q.head + 0 < Capacity THEN q.head + 0
                     ELSE q.head + 0 - Capacity
    BY <2>1, SlotUnfolds
  <2>3. Slot(q, 1) \in Slots
    BY <2>1, SlotUnfolds
  <2> QED
    BY <2>2, <2>3, <1>1, CapacityAssumption DEF Slots
<1>3. /\ p.head = Slot(q, 1)
      /\ p.count = q.count - 1
      /\ p.length = [q.length EXCEPT ![q.head] = 0]
      /\ p \in Queues
  BY <1>1, <1>2, MaxChunkAssumption, CapacityAssumption DEF Popped, Queues
<1>4. \A k \in 0 .. (Capacity - 1) : Slot(p, k) = Slot(q, k + 1)
  <2> TAKE k \in 0 .. (Capacity - 1)
  <2>1. k + 1 \in 0 .. Capacity /\ 1 \in 0 .. Capacity /\ k \in 0 .. Capacity
    BY CapacityAssumption
  <2>2. Slot(q, 1) = IF q.head + 1 < Capacity THEN q.head + 1 ELSE q.head + 1 - Capacity
    BY <2>1, SlotUnfolds
  <2>3. Slot(q, k + 1) = IF q.head + (k + 1) < Capacity THEN q.head + (k + 1)
                         ELSE q.head + (k + 1) - Capacity
    BY <2>1, SlotUnfolds
  <2>4. Slot(p, k) = IF p.head + k < Capacity THEN p.head + k
                     ELSE p.head + k - Capacity
    BY <2>1, <1>3, SlotUnfolds
  <2>5. q.head \in 0 .. (Capacity - 1) /\ p.head = Slot(q, 1) /\ Capacity \in Nat
    BY <1>1, <1>3, CapacityAssumption DEF Slots
  <2>6. CASE q.head + 1 < Capacity
    BY <2>2, <2>3, <2>4, <2>5, <2>6
  <2>7. CASE ~(q.head + 1 < Capacity)
    BY <2>2, <2>3, <2>4, <2>5, <2>7
  <2> QED
    BY <2>6, <2>7
<1>5. \A k \in 1 .. (q.count - 1) : Slot(q, k) \in Slots /\ Slot(q, k) # q.head
  BY <1>1, <1>2, SlotsDiffer, SlotUnfolds, CapacityAssumption
<1>6. ASSUME QueueWindow(q)
      PROVE  QueueWindow(p)
  <2> SUFFICES ASSUME NEW i \in Slots
               PROVE  p.length[i] # 0
                        <=> \E k \in 0 .. (q.count - 2) : Slot(q, k + 1) = i
    <3>1. /\ 0 .. (p.count - 1) = 0 .. (q.count - 2)
          /\ \A k \in 0 .. (q.count - 2) : k \in 0 .. (Capacity - 1)
      BY <1>1, <1>3, CapacityAssumption
    <3>2. \A k \in 0 .. (q.count - 2) : Slot(p, k) = Slot(q, k + 1)
      BY <3>1, <1>4
    <3> QED
      BY <3>1, <3>2 DEF QueueWindow
  <2>1. CASE i = q.head
    BY <2>1, <1>1, <1>3, <1>5
  <2>2. CASE i # q.head
    <3>1. p.length[i] = q.length[i]
      BY <2>2, <1>1, <1>3
    <3>2. (\E k \in 0 .. (q.count - 2) : Slot(q, k + 1) = i)
            <=> (\E k \in 0 .. (q.count - 1) : Slot(q, k) = i)
      <4>1. ASSUME NEW k \in 0 .. (q.count - 1), Slot(q, k) = i
            PROVE  \E m \in 0 .. (q.count - 2) : Slot(q, m + 1) = i
        <5>1. k # 0
          BY <4>1, <2>2, <1>2
        <5>2. k - 1 \in 0 .. (q.count - 2) /\ (k - 1) + 1 = k
          BY <5>1, <1>1
        <5> QED
          BY <4>1, <5>2
      <4>2. ASSUME NEW m \in 0 .. (q.count - 2), Slot(q, m + 1) = i
            PROVE  \E k \in 0 .. (q.count - 1) : Slot(q, k) = i
        <5>1. m + 1 \in 0 .. (q.count - 1)
          BY <1>1
        <5> QED
          BY <4>2, <5>1
      <4> QED
        BY <4>1, <4>2
    <3> QED
      BY <3>1, <3>2, <1>6 DEF QueueWindow
  <2> QED
    BY <2>1, <2>2
<1>7. /\ Contents(q) # <<>>
      /\ Head(Contents(q)) = Front(q)
      /\ Front(q) \in 0 .. MaxChunk
  <2>1. Contents(q)[1] = q.length[Slot(q, 1 - 1)]
    BY <1>1, ContentsFacts
  <2>2. Contents(q) # <<>> /\ Head(Contents(q)) = Contents(q)[1]
    BY <1>1, ContentsFacts, EmptySeq, HeadTailProperties
  <2> QED
    BY <2>1, <2>2, <1>1, <1>2 DEF Front
<1>8. Contents(p) = Tail(Contents(q))
  <2>1. \A k \in 1 .. (q.count - 1) : p.length[Slot(p, k - 1)] = q.length[Slot(q, k)]
    <3> TAKE k \in 1 .. (q.count - 1)
    <3>1. Slot(p, k - 1) = Slot(q, k)
      <4>1. k - 1 \in 0 .. (Capacity - 1) /\ (k - 1) + 1 = k
        BY <1>1, CapacityAssumption
      <4> QED
        BY <4>1, <1>4
    <3> QED
      BY <3>1, <1>1, <1>3, <1>5
  <2>2. /\ Tail(Contents(q)) \in Seq(0 .. MaxChunk)
        /\ Len(Tail(Contents(q))) = q.count - 1
        /\ \A k \in 1 .. (q.count - 1) : Tail(Contents(q))[k] = Contents(q)[k + 1]
    BY <1>1, <1>7, ContentsFacts, HeadTailProperties
  <2>3. /\ Contents(p) \in Seq(0 .. MaxChunk)
        /\ Len(Contents(p)) = q.count - 1
        /\ \A k \in 1 .. (q.count - 1) : Contents(p)[k] = p.length[Slot(p, k - 1)]
    BY <1>3, ContentsFacts
  <2>4. ASSUME NEW k \in 1 .. (q.count - 1)
        PROVE  Contents(p)[k] = Tail(Contents(q))[k]
    <3>1. k + 1 \in 1 .. q.count /\ (k + 1) - 1 = k
      BY <1>1
    <3>2. Contents(q)[k + 1] = q.length[Slot(q, k)]
      BY <3>1, ContentsFacts
    <3> QED
      BY <3>2, <2>1, <2>2, <2>3
  <2> QED
    BY <2>2, <2>3, <2>4, SeqEqual
<1> QED
  BY <1>3, <1>6, <1>7, <1>8
-----------------------------------------------------------------------------
(* The operations.  Sound(f) is the inductive invariant, of any transport  *)
(* record: its rings are exact, its queues belong to a session, opens and  *)
(* closes pair, and its epoch has already been drawn, or is 0 because no   *)
(* epoch is left.                                                          *)

Sound(f) == /\ f \in Fakes
            /\ QueueWindow(f.hostToDock)
            /\ QueueWindow(f.dockToHost)
            /\ f.open => f.connected
            /\ f.hostToDock.count > 0 => f.open
            /\ f.dockToHost.count > 0 => f.connected
            /\ f.openCount = f.closeCount + (IF f.open THEN 1 ELSE 0)
            /\ f.epoch < f.nextEpoch
            /\ f.epoch = 0 => f.nextEpoch = EpochMax

LEMMA DrawFacts ==
  ASSUME NEW n \in 1 .. EpochMax
  PROVE  /\ Taken(n) \in 0 .. (EpochMax - 1)
         /\ After(n) \in 1 .. EpochMax
         /\ Taken(n) < After(n)
         /\ Taken(n) = 0 => After(n) = EpochMax
         /\ Taken(n) = 0 \/ Taken(n) = n
  BY EpochAssumption DEF Taken, After

LEMMA FreshSound == ASSUME NEW n \in 1 .. EpochMax PROVE Sound(Fresh(n))
  BY DrawFacts, EmptyQueueFacts DEF Sound, Fresh, Fakes, EmptyQueue

LEMMA AdvancedFacts ==
  ASSUME NEW f \in Fakes
  PROVE  /\ Advanced(f) \in Fakes
         /\ Advanced(f).epoch = Taken(f.nextEpoch)
         /\ Advanced(f).nextEpoch = After(f.nextEpoch)
         /\ Advanced(f).connected = f.connected
         /\ Advanced(f).open = f.open
         /\ Advanced(f).hostToDock = f.hostToDock
         /\ Advanced(f).dockToHost = f.dockToHost
         /\ Advanced(f).openCount = f.openCount
         /\ Advanced(f).closeCount = f.closeCount
         /\ Advanced(f).epoch < Advanced(f).nextEpoch
         /\ Advanced(f).epoch = 0 => Advanced(f).nextEpoch = EpochMax
  BY DrawFacts DEF Advanced, Fakes

LEMMA ClearedFacts ==
  ASSUME NEW f \in Fakes
  PROVE  /\ Cleared(f) \in Fakes
         /\ Cleared(f).hostToDock = EmptyQueue
         /\ Cleared(f).dockToHost = EmptyQueue
         /\ Cleared(f).epoch = f.epoch
         /\ Cleared(f).nextEpoch = f.nextEpoch
         /\ Cleared(f).connected = f.connected
         /\ Cleared(f).open = f.open
         /\ Cleared(f).openCount = f.openCount
         /\ Cleared(f).closeCount = f.closeCount
  BY EmptyQueueFacts DEF Cleared, Fakes

LEMMA OpenedSound == ASSUME NEW f, Sound(f) PROVE Sound(Opened(f))
<1>1. CASE f.connected /\ ~f.open
  <2> DEFINE g == [f EXCEPT !.open = TRUE, !.openCount = @ + 1]
  <2>1. /\ g \in Fakes
        /\ g.open = TRUE /\ g.openCount = f.openCount + 1
        /\ g.connected = f.connected /\ g.closeCount = f.closeCount
        /\ g.hostToDock = f.hostToDock /\ g.dockToHost = f.dockToHost
    <3>1. f \in Fakes
      BY DEF Sound
    <3>2. f.openCount + 1 \in Nat
      BY <3>1 DEF Fakes
    <3> QED
      BY <3>1, <3>2 DEF Fakes
  <2>2. Opened(f) = Advanced(g)
    BY <1>1 DEF Opened
  <2> HIDE DEF g
  <2>3. f \in Fakes /\ f.connected = TRUE /\ f.openCount = f.closeCount
    BY <1>1 DEF Sound, Fakes
  <2>4. /\ Advanced(g) \in Fakes
        /\ Advanced(g).open = TRUE /\ Advanced(g).connected = TRUE
        /\ Advanced(g).openCount = f.openCount + 1
        /\ Advanced(g).closeCount = f.closeCount
        /\ Advanced(g).hostToDock = f.hostToDock
        /\ Advanced(g).dockToHost = f.dockToHost
        /\ Advanced(g).epoch < Advanced(g).nextEpoch
        /\ Advanced(g).epoch = 0 => Advanced(g).nextEpoch = EpochMax
    BY <2>1, <2>3, AdvancedFacts
  <2> QED
    BY <2>2, <2>3, <2>4 DEF Sound
<1>2. CASE ~(f.connected /\ ~f.open)
  BY <1>2 DEF Opened
<1> QED
  BY <1>1, <1>2

LEMMA ClosedSound == ASSUME NEW f, Sound(f) PROVE Sound(Closed(f))
<1> DEFINE g == [f EXCEPT !.open = FALSE, !.closeCount = @ + 1]
           h == IF f.open THEN Advanced(g) ELSE f
<1>1. /\ g \in Fakes
      /\ g.open = FALSE /\ g.closeCount = f.closeCount + 1
      /\ g.connected = f.connected /\ g.openCount = f.openCount
  <2>1. f \in Fakes
    BY DEF Sound
  <2>2. f.closeCount + 1 \in Nat
    BY <2>1 DEF Fakes
  <2> QED
    BY <2>1, <2>2 DEF Fakes
<1>2. Closed(f) = Cleared(h)
  BY DEF Closed
<1> HIDE DEF g
<1>3. /\ h \in Fakes
      /\ h.open = FALSE
      /\ h.openCount = h.closeCount
      /\ h.epoch < h.nextEpoch
      /\ h.epoch = 0 => h.nextEpoch = EpochMax
  BY <1>1, AdvancedFacts DEF Sound, Fakes
<1>4. EmptyQueue.count = 0
  BY DEF EmptyQueue
<1> HIDE DEF h
<1> QED
  BY <1>2, <1>3, <1>4, ClearedFacts, EmptyQueueFacts DEF Sound, Fakes

LEMMA DisconnectedSound == ASSUME NEW f, Sound(f) PROVE Sound(Disconnected(f))
<1> DEFINE g == [f EXCEPT !.connected = FALSE, !.open = FALSE,
                          !.closeCount = IF f.open THEN @ + 1 ELSE @]
<1>1. /\ g \in Fakes
      /\ g.open = FALSE /\ g.connected = FALSE
      /\ g.openCount = g.closeCount
  <2>1. f \in Fakes
    BY DEF Sound
  <2>2. (IF f.open THEN f.closeCount + 1 ELSE f.closeCount) \in Nat
    BY <2>1 DEF Fakes
  <2>3. /\ g \in Fakes
        /\ g.open = FALSE /\ g.connected = FALSE
        /\ g.openCount = f.openCount
        /\ g.closeCount = IF f.open THEN f.closeCount + 1 ELSE f.closeCount
    BY <2>1, <2>2 DEF Fakes
  <2> QED
    BY <2>3 DEF Sound, Fakes
<1>2. Disconnected(f) = IF f.connected THEN Advanced(Cleared(g)) ELSE f
  BY DEF Disconnected
<1>3. EmptyQueue.count = 0
  BY DEF EmptyQueue
<1> HIDE DEF g
<1>4. Cleared(g) \in Fakes
  BY <1>1, ClearedFacts
<1>5. Sound(Advanced(Cleared(g)))
  BY <1>1, <1>3, <1>4, ClearedFacts, AdvancedFacts, EmptyQueueFacts DEF Sound, Fakes
<1> QED
  BY <1>2, <1>5

LEMMA ReconnectedSound == ASSUME NEW f, Sound(f) PROVE Sound(Reconnected(f))
<1> DEFINE g == [f EXCEPT !.connected = TRUE]
<1>1. /\ g \in Fakes
      /\ g.connected = TRUE /\ g.open = f.open
      /\ g.openCount = f.openCount /\ g.closeCount = f.closeCount
      /\ g.hostToDock = f.hostToDock /\ g.dockToHost = f.dockToHost
  BY DEF Sound, Fakes
<1>2. Reconnected(f) = IF f.connected THEN f ELSE Advanced(g)
  BY DEF Reconnected
<1> HIDE DEF g
<1> QED
  BY <1>1, <1>2, AdvancedFacts DEF Sound, Fakes

\* What "ok" tells about the arguments and the state of a call.
LEMMA OkFacts ==
  ASSUME NEW f \in Fakes, NEW endpoint, NEW required, NEW q \in Queues,
         NEW size \in Sizes
  PROVE  /\ Then(LinkResult(f, endpoint, required, size), PushResult(q, size)) = "ok"
              => f.connected /\ f.open /\ size \in 1 .. MaxChunk /\ q.count < Capacity
         /\ Then(LinkResult(f, endpoint, required, size), PopResult(q, size)) = "ok"
              => f.connected /\ f.open /\ q.count > 0
         /\ Then(Plugged(f), PushResult(q, size)) = "ok"
              => f.connected /\ size \in 1 .. MaxChunk /\ q.count < Capacity
         /\ Then(Plugged(f), PopResult(q, size)) = "ok"
              => f.connected /\ q.count > 0
         /\ Then(LinkResult(f, endpoint, required, size), PushResult(q, size)) \in Results
         /\ Then(LinkResult(f, endpoint, required, size), PopResult(q, size)) \in Results
         /\ Then(Plugged(f), PushResult(q, size)) \in Results
         /\ Then(Plugged(f), PopResult(q, size)) \in Results
<1>1. /\ PushResult(q, size) = "ok" => size \in 1 .. MaxChunk /\ q.count < Capacity
      /\ PushResult(q, size) \in Results
  BY MaxChunkAssumption, CapacityAssumption DEF PushResult, Queues, Sizes, Results
<1>2. /\ PopResult(q, size) = "ok" => q.count > 0
      /\ PopResult(q, size) \in Results
  BY MaxChunkAssumption, CapacityAssumption DEF PopResult, Queues, Sizes, Results
<1>3. /\ LinkResult(f, endpoint, required, size) = "ok" => f.connected /\ f.open
      /\ LinkResult(f, endpoint, required, size) \in Results
  BY MaxChunkAssumption DEF LinkResult, IsOpen, Fakes, Sizes, Results
<1>4. /\ Plugged(f) = "ok" => f.connected
      /\ Plugged(f) \in Results
  BY DEF Plugged, Results
<1> QED
  BY <1>1, <1>2, <1>3, <1>4 DEF Then

LEMMA PushSound ==
  ASSUME NEW f, Sound(f), NEW len \in 1 .. MaxChunk
  PROVE  /\ f.open /\ f.hostToDock.count < Capacity
              => Sound([f EXCEPT !.hostToDock = Pushed(f.hostToDock, len)])
         /\ f.connected /\ f.dockToHost.count < Capacity
              => Sound([f EXCEPT !.dockToHost = Pushed(f.dockToHost, len)])
<1>1. f \in Fakes /\ f.hostToDock \in Queues /\ f.dockToHost \in Queues
  BY DEF Sound, Fakes
<1>2. ASSUME f.open, f.hostToDock.count < Capacity
      PROVE  Sound([f EXCEPT !.hostToDock = Pushed(f.hostToDock, len)])
  BY <1>1, <1>2, PushedFacts DEF Sound, Fakes
<1>3. ASSUME f.connected, f.dockToHost.count < Capacity
      PROVE  Sound([f EXCEPT !.dockToHost = Pushed(f.dockToHost, len)])
  BY <1>1, <1>3, PushedFacts DEF Sound, Fakes
<1> QED
  BY <1>2, <1>3

LEMMA PopSound ==
  ASSUME NEW f, Sound(f)
  PROVE  /\ f.hostToDock.count > 0
              => Sound([f EXCEPT !.hostToDock = Popped(f.hostToDock)])
         /\ f.dockToHost.count > 0
              => Sound([f EXCEPT !.dockToHost = Popped(f.dockToHost)])
<1>1. f \in Fakes /\ f.hostToDock \in Queues /\ f.dockToHost \in Queues
  BY DEF Sound, Fakes
<1>2. ASSUME f.hostToDock.count > 0
      PROVE  Sound([f EXCEPT !.hostToDock = Popped(f.hostToDock)])
  BY <1>1, <1>2, PoppedFacts DEF Sound, Fakes
<1>3. ASSUME f.dockToHost.count > 0
      PROVE  Sound([f EXCEPT !.dockToHost = Popped(f.dockToHost)])
  BY <1>1, <1>3, PoppedFacts DEF Sound, Fakes
<1> QED
  BY <1>2, <1>3

-----------------------------------------------------------------------------
(* What an operation does to the epoch: either it leaves the lifecycle     *)
(* alone, or it draws the next epoch.                                      *)

Kept(f, g) == /\ g.epoch = f.epoch /\ g.nextEpoch = f.nextEpoch
              /\ g.connected = f.connected /\ g.open = f.open

Drawn(f, g) == g.epoch = Taken(f.nextEpoch) /\ g.nextEpoch = After(f.nextEpoch)

LEMMA OpenedLifecycle ==
  ASSUME NEW f, Sound(f)
  PROVE  /\ f.connected /\ ~f.open => Drawn(f, Opened(f))
         /\ ~(f.connected /\ ~f.open) => Opened(f) = f
         /\ f.connected => Opened(f).connected /\ Opened(f).open
<1>0. f \in Fakes
  BY DEF Sound
<1>1. CASE f.connected /\ ~f.open
  <2> DEFINE g == [f EXCEPT !.open = TRUE, !.openCount = @ + 1]
  <2>1. f.openCount + 1 \in Nat
    BY <1>0 DEF Fakes
  <2>2. /\ g \in Fakes /\ g.nextEpoch = f.nextEpoch
        /\ g.open = TRUE /\ g.connected = f.connected
    BY <1>0, <2>1 DEF Fakes
  <2>3. Opened(f) = Advanced(g)
    BY <1>1 DEF Opened
  <2> HIDE DEF g
  <2> QED
    BY <1>1, <2>2, <2>3, AdvancedFacts DEF Drawn
<1>2. CASE ~(f.connected /\ ~f.open)
  BY <1>2 DEF Opened
<1> QED
  BY <1>1, <1>2

LEMMA ClosedLifecycle ==
  ASSUME NEW f, Sound(f)
  PROVE  /\ f.open => Drawn(f, Closed(f))
         /\ ~f.open => Kept(f, Closed(f))
         /\ Closed(f).open = FALSE
<1>0. f \in Fakes
  BY DEF Sound
<1>1. CASE f.open
  <2> DEFINE g == [f EXCEPT !.open = FALSE, !.closeCount = @ + 1]
  <2>1. f.closeCount + 1 \in Nat
    BY <1>0 DEF Fakes
  <2>2. g \in Fakes /\ g.nextEpoch = f.nextEpoch /\ g.open = FALSE
    BY <1>0, <2>1 DEF Fakes
  <2>3. Closed(f) = Cleared(Advanced(g))
    BY <1>1 DEF Closed
  <2> HIDE DEF g
  <2> QED
    BY <1>1, <2>2, <2>3, AdvancedFacts, ClearedFacts DEF Drawn
<1>2. CASE ~f.open
  <2>1. Closed(f) = Cleared(f) /\ f.open = FALSE
    BY <1>0, <1>2 DEF Closed, Fakes
  <2> QED
    BY <1>0, <1>2, <2>1, ClearedFacts DEF Kept
<1> QED
  BY <1>1, <1>2

LEMMA DisconnectedLifecycle ==
  ASSUME NEW f, Sound(f)
  PROVE  /\ f.connected => Drawn(f, Disconnected(f))
         /\ ~f.connected => Disconnected(f) = f
<1>0. f \in Fakes
  BY DEF Sound
<1>1. CASE f.connected
  <2> DEFINE g == [f EXCEPT !.connected = FALSE, !.open = FALSE,
                            !.closeCount = IF f.open THEN @ + 1 ELSE @]
  <2>1. (IF f.open THEN f.closeCount + 1 ELSE f.closeCount) \in Nat
    BY <1>0 DEF Fakes
  <2>2. g \in Fakes /\ g.nextEpoch = f.nextEpoch
    BY <1>0, <2>1 DEF Fakes
  <2>3. Disconnected(f) = Advanced(Cleared(g))
    BY <1>1 DEF Disconnected
  <2> HIDE DEF g
  <2> QED
    BY <1>1, <2>2, <2>3, AdvancedFacts, ClearedFacts DEF Drawn
<1>2. CASE ~f.connected
  BY <1>2 DEF Disconnected
<1> QED
  BY <1>1, <1>2

LEMMA ReconnectedLifecycle ==
  ASSUME NEW f, Sound(f)
  PROVE  /\ ~f.connected => Drawn(f, Reconnected(f))
         /\ f.connected => Reconnected(f) = f
<1>0. f \in Fakes
  BY DEF Sound
<1>1. CASE ~f.connected
  <2> DEFINE g == [f EXCEPT !.connected = TRUE]
  <2>1. g \in Fakes /\ g.nextEpoch = f.nextEpoch
    BY <1>0 DEF Fakes
  <2>2. Reconnected(f) = Advanced(g)
    BY <1>1 DEF Reconnected
  <2> HIDE DEF g
  <2> QED
    BY <1>1, <2>1, <2>2, AdvancedFacts DEF Drawn
<1>2. CASE f.connected
  BY <1>2 DEF Reconnected
<1> QED
  BY <1>1, <1>2
-----------------------------------------------------------------------------
(* Runs of an order.                                                       *)

LEMMA RunFacts ==
  ASSUME NEW order, NEW n \in Nat,
         NEW run \in [1 .. n -> Roles(order)], IsRun(order, run)
  PROVE  /\ SeqRange(run) \subseteq Roles(order)
         /\ IsFiniteSet(SeqRange(run))
         /\ Cardinality(SeqRange(run)) = n
         /\ IsClosed(order, SeqRange(run))
<1>1. \A i, j \in 1 .. n : run[i] = run[j] => i = j
  <2> SUFFICES ASSUME NEW i \in 1 .. n, NEW j \in 1 .. n, run[i] = run[j], j < i
               PROVE  FALSE
    OBVIOUS
  <2>1. j \in 1 .. (i - 1)
    OBVIOUS
  <2> QED
    BY <2>1 DEF IsRun
<1>2. run \in [1 .. n -> SeqRange(run)]
  BY DEF SeqRange
<1>3. run \in Bijection(1 .. n, SeqRange(run))
  <2>1. run \in Injection(1 .. n, SeqRange(run))
    BY <1>1, <1>2 DEF Injection, IsInjective
  <2>2. run \in Surjection(1 .. n, SeqRange(run))
    BY <1>2 DEF Surjection, SeqRange
  <2> QED
    BY <2>1, <2>2 DEF Bijection
<1>4. ExistsBijection(1 .. n, SeqRange(run))
  BY <1>3 DEF ExistsBijection
<1>5. IsFiniteSet(1 .. n) /\ Cardinality(1 .. n) = n
  BY FS_Interval
<1>6. IsFiniteSet(SeqRange(run)) /\ Cardinality(SeqRange(run)) = n
  BY <1>4, <1>5, FS_Bijection
<1>7. ASSUME NEW r \in SeqRange(run) PROVE order[r].before \subseteq SeqRange(run)
  <2>1. PICK i \in 1 .. n : run[i] = r
    BY <1>7 DEF SeqRange
  <2>2. order[run[i]].before \subseteq {run[j] : j \in 1 .. (i - 1)}
    BY DEF IsRun
  <2>3. {run[j] : j \in 1 .. (i - 1)} \subseteq SeqRange(run)
    BY DEF SeqRange
  <2> QED
    BY <2>1, <2>2, <2>3
<1> QED
  BY <1>6, <1>7 DEF SeqRange, IsClosed

\* Before any transfer there is one explanation, which completes no role.
LEMMA NothingExplained ==
  ASSUME NEW order
  PROVE  Completions(order, <<>>) = {{}}
<1>1. Len(<<>>) = 0 /\ 1 .. 0 = {}
  OBVIOUS
<1>2. \A run \in Explanations(order, <<>>) : SeqRange(run) = {}
  BY <1>1 DEF Explanations, SeqRange
<1> DEFINE none == [i \in 1 .. 0 |-> i]
<1>3. none \in Explanations(order, <<>>)
  BY <1>1 DEF Explanations, IsRun
<1> QED
  BY <1>2, <1>3 DEF Completions

LEMMA SuccessorExplained ==
  ASSUME NEW order, NEW past \in Seq(Transfers), NEW transfer \in Transfers,
         NEW run \in Explanations(order, past),
         NEW r \in Eligible(order, SeqRange(run), transfer)
  PROVE  SeqRange(run) \cup {r} \in Completions(order, Append(past, transfer))
<1> DEFINE n == Len(past)
           longer == Append(past, transfer)
           next == [i \in 1 .. (n + 1) |-> IF i = n + 1 THEN r ELSE run[i]]
<1>1. /\ n \in Nat /\ Len(longer) = n + 1
      /\ longer[n + 1] = transfer
      /\ \A i \in 1 .. n : longer[i] = past[i]
  BY AppendProperties, LenProperties
<1>2. /\ run \in [1 .. n -> Roles(order)] /\ IsRun(order, run)
      /\ \A i \in 1 .. n : past[i] \in order[run[i]].takes
  BY DEF Explanations
<1>3. /\ r \in Roles(order) /\ r \notin SeqRange(run)
      /\ order[r].before \subseteq SeqRange(run) /\ transfer \in order[r].takes
  BY DEF Eligible
<1>4. /\ next \in [1 .. (n + 1) -> Roles(order)]
      /\ next[n + 1] = r /\ \A i \in 1 .. n : next[i] = run[i] /\ i # n + 1
  BY <1>1, <1>2, <1>3
<1>5. DOMAIN run = 1 .. n /\ DOMAIN next = 1 .. (n + 1)
  BY <1>2, <1>4
<1> HIDE DEF next
<1>6. SeqRange(run) = {next[i] : i \in 1 .. n}
  BY <1>4, <1>5 DEF SeqRange
<1>7. SeqRange(next) = SeqRange(run) \cup {r}
  <2>1. 1 .. (n + 1) = (1 .. n) \cup {n + 1}
    BY <1>1
  <2> QED
    BY <1>4, <1>5, <1>6, <2>1 DEF SeqRange
<1>8. IsRun(order, next)
  <2> SUFFICES ASSUME NEW i \in 1 .. (n + 1)
               PROVE  /\ next[i] \in Roles(order)
                      /\ \A j \in 1 .. (i - 1) : next[j] # next[i]
                      /\ order[next[i]].before
                           \subseteq {next[j] : j \in 1 .. (i - 1)}
    BY <1>5 DEF IsRun
  <2>1. CASE i = n + 1
    <3>1. n + 1 - 1 = n
      BY <1>1
    <3> QED
      BY <1>3, <1>4, <1>6, <2>1, <3>1
  <2>2. CASE i # n + 1
    <3>1. i \in 1 .. n /\ \A j \in 1 .. (i - 1) : j \in 1 .. n
      BY <1>1, <2>2
    <3>2. {next[j] : j \in 1 .. (i - 1)} = {run[j] : j \in 1 .. (i - 1)}
      BY <1>4, <3>1
    <3> QED
      BY <1>2, <1>4, <1>5, <3>1, <3>2 DEF IsRun
  <2> QED
    BY <2>1, <2>2
<1>9. \A i \in 1 .. (n + 1) : longer[i] \in order[next[i]].takes
  <2> TAKE i \in 1 .. (n + 1)
  <2>1. CASE i = n + 1
    BY <1>1, <1>3, <1>4, <2>1
  <2>2. CASE i \in 1 .. n
    BY <1>1, <1>2, <1>4, <2>2
  <2> QED
    BY <1>1, <2>1, <2>2
<1>10. next \in Explanations(order, longer)
  BY <1>1, <1>4, <1>8, <1>9 DEF Explanations
<1> QED
  BY <1>7, <1>10 DEF Completions

LEMMA ExplainedIsSuccessor ==
  ASSUME NEW order, NEW past \in Seq(Transfers), NEW transfer \in Transfers,
         NEW run \in Explanations(order, Append(past, transfer))
  PROVE  \E front \in Explanations(order, past) :
           \E r \in Eligible(order, SeqRange(front), transfer) :
              SeqRange(run) = SeqRange(front) \cup {r}
<1> DEFINE n == Len(past)
           longer == Append(past, transfer)
           front == [i \in 1 .. n |-> run[i]]
           r == run[n + 1]
<1>1. /\ n \in Nat /\ Len(longer) = n + 1
      /\ longer[n + 1] = transfer
      /\ \A i \in 1 .. n : longer[i] = past[i]
  BY AppendProperties, LenProperties
<1>2. /\ run \in [1 .. (n + 1) -> Roles(order)] /\ IsRun(order, run)
      /\ \A i \in 1 .. (n + 1) : longer[i] \in order[run[i]].takes
  BY <1>1 DEF Explanations
<1>3. /\ n + 1 \in 1 .. (n + 1) /\ \A i \in 1 .. n : i \in 1 .. (n + 1)
      /\ 1 .. (n + 1) = (1 .. n) \cup {n + 1} /\ n + 1 - 1 = n
  BY <1>1
<1>4. /\ front \in [1 .. n -> Roles(order)]
      /\ \A i \in 1 .. n : front[i] = run[i]
      /\ DOMAIN front = 1 .. n /\ DOMAIN run = 1 .. (n + 1)
  BY <1>2, <1>3
<1> HIDE DEF front
<1>5. SeqRange(front) = {run[i] : i \in 1 .. n}
  BY <1>4 DEF SeqRange
<1>6. SeqRange(run) = SeqRange(front) \cup {r}
  BY <1>3, <1>4, <1>5 DEF SeqRange
<1>7. IsRun(order, front)
  <2> SUFFICES ASSUME NEW i \in 1 .. n
               PROVE  /\ front[i] \in Roles(order)
                      /\ \A j \in 1 .. (i - 1) : front[j] # front[i]
                      /\ order[front[i]].before
                           \subseteq {front[j] : j \in 1 .. (i - 1)}
    BY <1>4 DEF IsRun
  <2>1. \A j \in 1 .. (i - 1) : j \in 1 .. n
    BY <1>1
  <2>2. {front[j] : j \in 1 .. (i - 1)} = {run[j] : j \in 1 .. (i - 1)}
    BY <1>4, <2>1
  <2> QED
    BY <1>2, <1>3, <1>4, <2>1, <2>2 DEF IsRun
<1>8. front \in Explanations(order, past)
  BY <1>1, <1>2, <1>3, <1>4, <1>7 DEF Explanations
<1>9. r \in Eligible(order, SeqRange(front), transfer)
  <2>1. /\ r \in Roles(order)
        /\ \A j \in 1 .. n : run[j] # r
        /\ order[r].before \subseteq {run[j] : j \in 1 .. n}
    BY <1>2, <1>3, <1>4 DEF IsRun
  <2>2. transfer \in order[r].takes
    BY <1>1, <1>2, <1>3
  <2> QED
    BY <1>5, <2>1, <2>2 DEF Eligible
<1> QED
  BY <1>6, <1>8, <1>9

\* What one more transfer does to the completions is what Successors() does
\* to the frontier.
LEMMA CompletionsExtend ==
  ASSUME NEW m, NEW past \in Seq(Transfers), NEW transfer \in Transfers,
         m.candidates = Completions(m.order, past)
  PROVE  Successors(m, transfer)
           = Completions(m.order, Append(past, transfer))
<1>1. ASSUME NEW mask \in Successors(m, transfer)
      PROVE  mask \in Completions(m.order, Append(past, transfer))
  <2>1. PICK c \in m.candidates :
               \E r \in Eligible(m.order, c, transfer) : mask = c \cup {r}
    BY <1>1 DEF Successors
  <2>2. PICK run \in Explanations(m.order, past) : c = SeqRange(run)
    BY DEF Completions
  <2> QED
    BY <2>1, <2>2, SuccessorExplained
<1>2. ASSUME NEW mask \in Completions(m.order, Append(past, transfer))
      PROVE  mask \in Successors(m, transfer)
  <2>1. PICK run \in Explanations(m.order, Append(past, transfer)) :
               mask = SeqRange(run)
    BY DEF Completions
  <2>2. PICK front \in Explanations(m.order, past) :
               \E r \in Eligible(m.order, SeqRange(front), transfer) :
                  SeqRange(run) = SeqRange(front) \cup {r}
    BY ExplainedIsSuccessor
  <2>3. SeqRange(front) \in m.candidates
    BY DEF Completions
  <2> QED
    BY <2>1, <2>2, <2>3 DEF Successors
<1> QED
  BY <1>1, <1>2
-----------------------------------------------------------------------------
(* A record that tells the same story as a history.                        *)

\* The record m is what the accepted transfers past make of it.
Faithful(m, past) ==
  /\ ModelIsValid(m.order)
  /\ m.consumed = Len(past)
  /\ m.candidates = Completions(m.order, past)
  /\ m.candidates # {}
  /\ Cardinality(m.candidates) <= MaxCandidates
  /\ m.consumed <= Len(m.order)
  /\ m.state = IF m.consumed = 0 THEN "waiting"
               ELSE IF m.consumed = Len(m.order) THEN "complete"
               ELSE "in-progress"

\* Masks of a faithful record: as many roles as transfers, predecessors in.
LEMMA MaskFacts ==
  ASSUME NEW m \in Matchers, NEW past \in Seq(Transfers), Faithful(m, past),
         NEW mask \in m.candidates
  PROVE  /\ mask \subseteq Roles(m.order)
         /\ IsFiniteSet(mask) /\ Cardinality(mask) = m.consumed
         /\ IsClosed(m.order, mask)
<1>1. PICK run \in Explanations(m.order, past) : mask = SeqRange(run)
  BY DEF Faithful, Completions
<1>2. Len(past) \in Nat
  BY LenProperties
<1>3. run \in [1 .. Len(past) -> Roles(m.order)] /\ IsRun(m.order, run)
  BY DEF Explanations
<1> QED
  BY <1>1, <1>2, <1>3, RunFacts DEF Faithful

LEMMA FaithfulIsConsistent ==
  ASSUME NEW m \in Matchers, NEW past \in Seq(Transfers), Faithful(m, past)
  PROVE  IsConsistent(m)
<1>1. /\ m.order \in Seq(RoleRecords)
      /\ Len(m.order) \in 1 .. MaxRoles /\ Roles(m.order) = 1 .. Len(m.order)
  BY LenProperties DEF Matchers, OrderRecords, Faithful, ModelIsValid, Roles
<1>2. m.consumed \in Nat /\ Len(m.order) \in Nat
  BY <1>1 DEF Matchers
<1>3. ASSUME m.state = "waiting"
      PROVE  m.consumed = 0 /\ m.candidates = {{}}
  <2>1. m.consumed = 0
    BY <1>3 DEF Faithful
  <2>2. past = <<>>
    BY <2>1, EmptySeq, LenProperties DEF Faithful
  <2> QED
    BY <2>1, <2>2, NothingExplained DEF Faithful
<1>4. ASSUME m.state = "in-progress"
      PROVE  m.consumed \in 1 .. (Len(m.order) - 1)
  BY <1>2, <1>4 DEF Faithful
<1>5. ASSUME m.state = "complete"
      PROVE  m.consumed = Len(m.order) /\ m.candidates = {Roles(m.order)}
  <2>1. m.consumed = Len(m.order)
    BY <1>5 DEF Faithful
  <2>2. IsFiniteSet(Roles(m.order)) /\ Cardinality(Roles(m.order)) = Len(m.order)
    BY <1>1, <1>2, FS_Interval
  <2>3. \A mask \in m.candidates : mask = Roles(m.order)
    BY <2>1, <2>2, MaskFacts, FS_Subset
  <2> QED
    BY <2>1, <2>3 DEF Faithful
<1>6. m.state # "failed"
  BY DEF Faithful
<1> QED
  BY <1>3, <1>4, <1>5, <1>6, MaskFacts DEF Faithful, IsConsistent
-----------------------------------------------------------------------------
(* Loading, failing, accepting.                                            *)

LEMMA LoadedFacts ==
  ASSUME NEW order \in Seq(RoleRecords)
  PROVE  /\ Loaded(order) \in Matchers
         /\ Loaded(order).state # "failed" => Faithful(Loaded(order), <<>>)
<1> DEFINE m == Loaded(order)
<1>1. Len(order) \in Nat /\ <<>> \in Seq(RoleRecords) /\ Len(<<>>) = 0
  BY LenProperties, EmptySeq
<1>2. IF Len(order) \in 1 .. MaxRoles THEN order \in OrderRecords
      ELSE <<>> \in OrderRecords
  BY <1>1, MaxRolesAssumption DEF OrderRecords
<1>3. m.order \in OrderRecords
  BY <1>2 DEF Loaded
<1>4. m \in Matchers
  <2>1. 0 \in 0 .. MaxRoles
    BY MaxRolesAssumption
  <2> QED
    BY <1>3, <2>1 DEF Loaded, Matchers
<1>5. ASSUME m.state # "failed" PROVE Faithful(m, <<>>)
  <2>1. ModelIsValid(order)
    BY <1>5 DEF Loaded
  <2>2. /\ m.order = order /\ m.consumed = 0 /\ m.candidates = {{}}
        /\ m.state = "waiting"
    BY <2>1 DEF Loaded, ModelIsValid
  <2>3. Cardinality({{}}) = 1
    BY FS_Singleton
  <2> QED
    BY <1>1, <2>1, <2>2, <2>3, NothingExplained, MaxCandidatesAssumption
       DEF Faithful
<1> QED
  BY <1>4, <1>5

LEMMA FailedFacts ==
  ASSUME NEW m \in Matchers
  PROVE  Failed(m) \in Matchers /\ Failed(m).state = "failed"
BY DEF Failed, Matchers

LEMMA SuccessorsType ==
  ASSUME NEW m \in Matchers, NEW transfer
  PROVE  /\ Successors(m, transfer) \subseteq SUBSET (1 .. MaxRoles)
         /\ IsFiniteSet(Successors(m, transfer))
         /\ Cardinality(Successors(m, transfer)) \in Nat
<1>1. Roles(m.order) \subseteq 1 .. MaxRoles
  <2>1. m.order \in Seq(RoleRecords) /\ Len(m.order) <= MaxRoles
    BY DEF Matchers, OrderRecords
  <2>2. Roles(m.order) = 1 .. Len(m.order) /\ Len(m.order) \in Nat
    BY <2>1, LenProperties DEF Roles
  <2> QED
    BY <2>1, <2>2, MaxRolesAssumption
<1>2. Successors(m, transfer) \subseteq SUBSET (1 .. MaxRoles)
  <2> SUFFICES ASSUME NEW s \in Successors(m, transfer)
               PROVE  s \subseteq 1 .. MaxRoles
    OBVIOUS
  <2>1. PICK c \in m.candidates :
               \E r \in Eligible(m.order, c, transfer) : s = c \cup {r}
    BY DEF Successors
  <2> QED
    BY <1>1, <2>1 DEF Eligible, Matchers
<1>3. IsFiniteSet(SUBSET (1 .. MaxRoles))
  <2>1. 1 \in Int /\ MaxRoles \in Int
    BY MaxRolesAssumption
  <2>2. IsFiniteSet(1 .. MaxRoles)
    BY <2>1, FS_Interval
  <2> QED
    BY <2>2, FS_SUBSET
<1> QED
  BY <1>2, <1>3, FS_Subset, FS_CardinalityType

\* An accepted transfer: the record moves on and stays faithful.
LEMMA ProgressedFacts ==
  ASSUME NEW m \in Matchers, NEW past \in Seq(Transfers), Faithful(m, past),
         NEW transfer, transfer \in Inputs,
         AcceptResult(m, transfer) \in {"ok", "complete"}
  PROVE  /\ transfer \in Transfers
         /\ Progressed(m, transfer) \in Matchers
         /\ Faithful(Progressed(m, transfer), Append(past, transfer))
<1> DEFINE n == Progressed(m, transfer)
<1>1. /\ m.state # "failed" /\ m.state # "complete"
      /\ transfer \in Transfers
      /\ Successors(m, transfer) # {}
      /\ ~(Cardinality(Successors(m, transfer)) > MaxCandidates)
  BY DEF AcceptResult, Inputs
<1>2. Cardinality(Successors(m, transfer)) <= MaxCandidates
  BY <1>1, SuccessorsType, MaxCandidatesAssumption
<1>3. /\ Len(m.order) \in Nat /\ Len(m.order) <= MaxRoles
      /\ m.consumed \in Nat /\ m.consumed <= Len(m.order)
      /\ ModelIsValid(m.order) /\ m.order \in OrderRecords
  BY LenProperties DEF Matchers, OrderRecords, Faithful
<1>4. m.consumed < Len(m.order)
  <2>1. m.consumed # Len(m.order)
    BY <1>1, <1>3 DEF Faithful, ModelIsValid
  <2> QED
    BY <1>3, <2>1
<1>5. m.consumed + 1 \in 0 .. MaxRoles /\ m.consumed + 1 <= Len(m.order)
  BY <1>3, <1>4, MaxRolesAssumption
<1>6. n \in Matchers
  BY <1>3, <1>5, SuccessorsType DEF Progressed, Matchers
<1>7. Len(Append(past, transfer)) = m.consumed + 1
  BY <1>1, AppendProperties DEF Faithful
<1>8. n.candidates = Completions(m.order, Append(past, transfer))
  BY <1>1, CompletionsExtend DEF Faithful, Progressed
<1>9. n.state = IF n.consumed = 0 THEN "waiting"
               ELSE IF n.consumed = Len(n.order) THEN "complete"
               ELSE "in-progress"
  BY <1>3 DEF Progressed
<1>10. /\ n.order = m.order /\ n.consumed = m.consumed + 1
       /\ n.candidates = Successors(m, transfer)
  BY DEF Progressed
<1> HIDE DEF n
<1>11. Faithful(n, Append(past, transfer))
  BY <1>1, <1>2, <1>3, <1>5, <1>7, <1>8, <1>9, <1>10 DEF Faithful
<1> QED
  BY <1>1, <1>6, <1>11 DEF n
-----------------------------------------------------------------------------
(* Tables that roles_form_dag() lets in.                                   *)

\* The roles that a pass completes when those of done are complete.
Pass(order, done) == {r \in Roles(order) : order[r].before \subseteq done}

IsPasses(order, n, f) ==
  f = [pass \in 0 .. n |-> IF pass = 0 THEN {} ELSE Pass(order, f[pass - 1])]

\* What roles_form_dag() computes exists, for as many passes as one likes.
LEMMA PassesExist ==
  ASSUME NEW order, NEW n \in Nat
  PROVE  \E f : IsPasses(order, n, f)
<1> DEFINE T == {k \in Nat : ~\E f : IsPasses(order, k, f)}
<1>1. SUFFICES ASSUME T # {} PROVE FALSE
  OBVIOUS
<1>2. PICK m \in T : \A k \in T : m <= k
  <2> T \in SUBSET Nat
    OBVIOUS
  <2> HIDE DEF T
  <2> QED
    BY <1>1, Least
<1>3. m # 0
  <2> DEFINE f == [pass \in 0 .. 0 |-> {}]
  <2>1. IsPasses(order, 0, f)
    BY DEF IsPasses
  <2> QED
    BY <1>2, <2>1
<1>4. PICK g : IsPasses(order, m - 1, g)
  <2>1. m - 1 \in Nat /\ ~(m <= m - 1)
    BY <1>2, <1>3
  <2> QED
    BY <1>2, <2>1
<1> DEFINE last == Pass(order, g[m - 1])
           f == [pass \in 0 .. m |-> IF pass = m THEN last ELSE g[pass]]
<1>5. \A pass \in 0 .. m :
        f[pass] = IF pass = 0 THEN {} ELSE Pass(order, f[pass - 1])
  <2> TAKE pass \in 0 .. m
  <2>1. CASE pass = m
    <3>1. f[pass - 1] = g[m - 1]
      BY <1>3, <2>1
    <3> QED
      BY <1>3, <2>1, <3>1
  <2>2. CASE pass # m
    <3>1. /\ pass \in 0 .. (m - 1) /\ f[pass] = g[pass]
          /\ pass # 0 => f[pass - 1] = g[pass - 1]
      BY <2>2
    <3>2. g[pass] = IF pass = 0 THEN {} ELSE Pass(order, g[pass - 1])
      BY <1>4, <3>1 DEF IsPasses
    <3> QED
      BY <3>1, <3>2
  <2> QED
    BY <2>1, <2>2
<1>6. IsPasses(order, m, f)
  <2>1. f = [pass \in 0 .. m |-> f[pass]]
    OBVIOUS
  <2> HIDE DEF f
  <2> QED
    BY <1>5, <2>1 DEF IsPasses
<1> QED
  BY <1>2, <1>6

LEMMA PassesOfDag ==
  ASSUME NEW order \in Seq(RoleRecords), RolesFormDag(order)
  PROVE  \E f : /\ IsPasses(order, Len(order), f)
                /\ f[Len(order)] = Roles(order)
<1> DEFINE completed[pass \in 0 .. Len(order)] ==
             IF pass = 0 THEN {}
             ELSE LET done == completed[pass - 1]
                  IN  {r \in Roles(order) : order[r].before \subseteq done}
<1>1. completed[Len(order)] = Roles(order)
  BY DEF RolesFormDag
<1>2. PICK f : IsPasses(order, Len(order), f)
  BY PassesExist, LenProperties
<1>3. IsPasses(order, Len(order), completed)
  BY <1>2 DEF IsPasses, Pass
<1> QED
  BY <1>1, <1>3

\* A role that is not completed and that the first pass to complete such a
\* role completes has all its predecessors completed.
LEMMA NeverStuckOn ==
  ASSUME NEW order \in Seq(RoleRecords), ModelIsValid(order),
         NEW mask, mask \subseteq Roles(order), mask # Roles(order)
  PROVE  \E transfer \in Transfers : Eligible(order, mask, transfer) # {}
<1>1. PICK f : IsPasses(order, Len(order), f) /\ f[Len(order)] = Roles(order)
  BY PassesOfDag DEF ModelIsValid
<1>2. Len(order) \in Nat
  BY LenProperties
<1> DEFINE T == {pass \in 0 .. Len(order) : ~(f[pass] \subseteq mask)}
<1>3. Len(order) \in T
  <2>1. ~(Roles(order) \subseteq mask)
    OBVIOUS
  <2>2. ~(f[Len(order)] \subseteq mask)
    BY <1>1, <2>1
  <2>3. Len(order) \in 0 .. Len(order)
    BY <1>2
  <2> QED
    BY <2>2, <2>3
<1>4. PICK p \in T : \A q \in T : p <= q
  <2> T \in SUBSET Nat
    BY <1>2
  <2> HIDE DEF T
  <2> QED
    BY <1>3, Least
<1>5. f[p] = IF p = 0 THEN {} ELSE Pass(order, f[p - 1])
  BY <1>1, <1>4 DEF IsPasses
<1>6. p # 0
  BY <1>4, <1>5
<1>7. f[p - 1] \subseteq mask
  BY <1>2, <1>4, <1>6
<1>8. PICK r \in Roles(order) \ mask : order[r].before \subseteq mask
  BY <1>4, <1>5, <1>6, <1>7 DEF Pass
<1>9. order[r].takes # {} /\ order[r].takes \subseteq Transfers
  <2>1. order[r] \in RoleRecords
    BY ElementOfSeq, LenProperties DEF Roles
  <2> QED
    BY <2>1 DEF RoleRecords, ModelIsValid, RoleIsValid
<1> QED
  BY <1>8, <1>9 DEF Eligible
-----------------------------------------------------------------------------
(* Chains.                                                                 *)

\* The one run of a chain takes the roles from the first one on.
LEMMA ChainRun ==
  ASSUME NEW order \in Seq(RoleRecords), IsChain(order),
         NEW transfers \in Seq(Transfers),
         NEW run \in Explanations(order, transfers)
  PROVE  \A i \in 1 .. Len(transfers) : run[i] = i
<1> DEFINE n == Len(transfers)
           T == {i \in 1 .. n : run[i] # i}
<1>1. n \in Nat /\ Len(order) \in Nat /\ Roles(order) = 1 .. Len(order)
  BY LenProperties DEF Roles
<1>2. run \in [1 .. n -> Roles(order)] /\ IsRun(order, run)
  BY DEF Explanations
<1> HIDE DEF n
<1>3. SUFFICES ASSUME T # {} PROVE FALSE
  BY DEF n
<1>4. PICK m \in T : \A i \in T : m <= i
  <2> T \in SUBSET Nat
    OBVIOUS
  <2> HIDE DEF T
  <2> QED
    BY <1>3, Least
<1>5. m \in 1 .. n /\ run[m] # m /\ run[m] \in 1 .. Len(order)
  BY <1>1, <1>2, <1>4
<1>6. \A j \in 1 .. (m - 1) : run[j] = j
  <2> SUFFICES ASSUME NEW j \in 1 .. (m - 1), run[j] # j PROVE FALSE
    OBVIOUS
  <2>1. j \in T /\ ~(m <= j)
    BY <1>1, <1>5
  <2> QED
    BY <1>4, <2>1
<1>7. /\ \A j \in 1 .. (m - 1) : run[j] # run[m]
      /\ order[run[m]].before \subseteq {run[j] : j \in 1 .. (m - 1)}
  BY <1>2, <1>5 DEF IsRun
<1>8. ~(run[m] < m)
  <2> SUFFICES ASSUME run[m] < m PROVE FALSE
    OBVIOUS
  <2>1. run[m] \in 1 .. (m - 1)
    BY <1>1, <1>5
  <2> QED
    BY <1>6, <1>7, <2>1
<1>9. ~(run[m] > m)
  <2> SUFFICES ASSUME run[m] > m PROVE FALSE
    OBVIOUS
  <2>0. PICK r \in Roles(order) : r = run[m]
    BY <1>1, <1>5
  <2>1. order[run[m]].before = {run[m] - 1}
    <3>1. order[r].before = IF r = 1 THEN {} ELSE {r - 1}
      BY DEF IsChain
    <3>2. r # 1
      BY <1>5, <2>0
    <3> QED
      BY <2>0, <3>1, <3>2
  <2>2. PICK j \in 1 .. (m - 1) : run[m] - 1 = run[j]
    BY <1>7, <2>1
  <2>3. run[j] = j
    BY <1>6
  <2> QED
    BY <1>1, <1>5, <2>2, <2>3
<1> QED
  BY <1>1, <1>5, <1>8, <1>9

\* A chain explains what follows it line by line, and nothing else.
LEMMA ChainExplains ==
  ASSUME NEW order \in Seq(RoleRecords), IsChain(order),
         NEW transfers \in Seq(Transfers)
  PROVE  Explanations(order, transfers) # {} <=>
           /\ Len(transfers) <= Len(order)
           /\ \A i \in 1 .. Len(transfers) : transfers[i] \in order[i].takes
<1> DEFINE n == Len(transfers)
<1>1. n \in Nat /\ Len(order) \in Nat /\ Roles(order) = 1 .. Len(order)
  BY LenProperties DEF Roles
<1>2. ASSUME NEW run \in Explanations(order, transfers)
      PROVE  /\ n <= Len(order)
             /\ \A i \in 1 .. n : transfers[i] \in order[i].takes
  <2>1. \A i \in 1 .. n : run[i] = i
    BY ChainRun
  <2>2. /\ run \in [1 .. n -> Roles(order)]
        /\ \A i \in 1 .. n : transfers[i] \in order[run[i]].takes
    BY DEF Explanations
  <2>3. n # 0 => n \in Roles(order)
    <3>1. n # 0 => n \in 1 .. n
      BY <1>1
    <3> QED
      BY <2>1, <2>2, <3>1
  <2> QED
    BY <1>1, <2>1, <2>2, <2>3
<1>3. ASSUME n <= Len(order),
             \A i \in 1 .. n : transfers[i] \in order[i].takes
      PROVE  [i \in 1 .. n |-> i] \in Explanations(order, transfers)
  <2> DEFINE run == [i \in 1 .. n |-> i]
  <2>1. run \in [1 .. n -> Roles(order)]
    BY <1>1, <1>3
  <2>2. \A i \in 1 .. n : /\ run[i] = i
                         /\ \A j \in 1 .. (i - 1) : run[j] = j
    BY <1>1
  <2>3. IsRun(order, run)
    <3> SUFFICES ASSUME NEW i \in 1 .. n
                 PROVE  /\ run[i] \in Roles(order)
                        /\ \A j \in 1 .. (i - 1) : run[j] # run[i]
                        /\ order[run[i]].before
                             \subseteq {run[j] : j \in 1 .. (i - 1)}
      BY DEF IsRun
    <3>1. i \in Roles(order) /\ i \in Nat
      BY <1>1, <1>3
    <3>2. order[i].before \subseteq 1 .. (i - 1)
      <4>1. order[i].before = IF i = 1 THEN {} ELSE {i - 1}
        BY <3>1 DEF IsChain
      <4>2. i # 1 => i - 1 \in 1 .. (i - 1)
        OBVIOUS
      <4> QED
        BY <4>1, <4>2
    <3>3. {run[j] : j \in 1 .. (i - 1)} = 1 .. (i - 1)
      BY <2>2
    <3>4. \A j \in 1 .. (i - 1) : j # i
      BY <3>1
    <3> HIDE DEF run
    <3> QED
      BY <2>2, <3>1, <3>2, <3>3, <3>4
  <2> QED
    BY <1>3, <2>1, <2>2, <2>3 DEF Explanations
<1> QED
  BY <1>2, <1>3

\* So a chain never has two candidates.
LEMMA ChainCompletes ==
  ASSUME NEW order \in Seq(RoleRecords), IsChain(order),
         NEW transfers \in Seq(Transfers)
  PROVE  Cardinality(Completions(order, transfers)) <= 1
<1> DEFINE n == Len(transfers)
<1>1. ASSUME NEW run \in Explanations(order, transfers)
      PROVE  SeqRange(run) = 1 .. n
  <2>1. run \in [1 .. n -> Roles(order)] /\ \A i \in 1 .. n : run[i] = i
    BY ChainRun DEF Explanations
  <2> QED
    BY <2>1 DEF SeqRange
<1>2. Completions(order, transfers) \subseteq {1 .. n}
  BY <1>1 DEF Completions
<1>3. Cardinality({1 .. n}) = 1 /\ IsFiniteSet({1 .. n})
  BY FS_Singleton
<1> QED
  BY <1>2, <1>3, FS_Subset
=============================================================================
