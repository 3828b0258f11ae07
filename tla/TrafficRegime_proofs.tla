------------------------ MODULE TrafficRegime_proofs ------------------------
(***************************************************************************)
(* Proofs about TrafficRegime, for every alignment, every pair of limits   *)
(* and every size of the window: the self-check admits what transfers can  *)
(* produce, the regime is that of all transfers seen, and no transfer is   *)
(* refused for the sake of a byte counter.                                 *)
(*                                                                         *)
(* The arithmetic is that of one direction: what SumIsPossible() says of a *)
(* count, a sum and a largest length it says again after one more length   *)
(* (SumStep).  It does not follow from SumIsPossible() alone.  With one    *)
(* transfer so far it says nothing of how short that one was; the          *)
(* invariant adds that the largest length seen is at least the shortest    *)
(* one possible.                                                           *)
(***************************************************************************)
EXTENDS TrafficRegime, SequenceTheorems, TLAPS

-----------------------------------------------------------------------------
(* Arithmetic.                                                             *)

LEMMA TimesMonotone ==
  ASSUME NEW c \in Nat, NEW d \in Nat, NEW k \in Nat, c <= d
  PROVE  c * k <= d * k /\ k * c <= k * d /\ c * k \in Nat
<1>1. PICK e \in Nat : d = c + e
  BY d - c \in Nat, d = c + (d - c)
<1>2. d * k = c * k + e * k /\ e * k \in Nat /\ c * k \in Nat
  BY <1>1
<1> QED
  BY <1>2

LEMMA Quotient ==
  ASSUME NEW a \in Nat, NEW k \in Nat \ {0}, a % k = 0
  PROVE  \E m \in Nat : a = k * m
<1> DEFINE m == a \div k
<1>1. m \in Nat /\ a = k * m
  BY Z3
<1> QED
  BY <1>1

LEMMA NoRemainder ==
  ASSUME NEW m \in Nat, NEW k \in Nat \ {0}
  PROVE  (k * m) % k = 0
BY Z3

LEMMA Multiples ==
  ASSUME NEW a \in Nat, NEW b \in Nat, NEW k \in Nat \ {0}, a % k = 0, b % k = 0
  PROVE  (a + b) % k = 0
<1>1. PICK m \in Nat, n \in Nat : a = k * m /\ b = k * n
  BY Quotient
<1>2. a + b = k * (m + n) /\ m + n \in Nat
  BY <1>1
<1> QED
  BY <1>2, NoRemainder

LEMMA LongerFacts ==
  ASSUME NEW a \in Nat, NEW b \in Nat
  PROVE  /\ Longer(a, b) \in {a, b} /\ Longer(a, b) >= a /\ Longer(a, b) >= b
BY DEF Longer

\* One more length in one direction.
LEMMA SumStep ==
  ASSUME NEW count \in Nat, NEW bytes \in Nat, NEW largest \in Nat,
         NEW shortest \in Nat \ {0}, NEW length \in Nat, length >= shortest,
         SumIsPossible(count, bytes, largest, shortest),
         count > 0 => largest >= shortest
  PROVE  /\ SumIsPossible(count + 1, bytes + length, Longer(largest, length), shortest)
         /\ Longer(largest, length) >= shortest
<1> DEFINE top == Longer(largest, length)
<1>1. top \in Nat /\ top \in {largest, length} /\ top >= largest /\ top >= length
  BY LongerFacts
<1> HIDE DEF top
<1>2. CASE count = 0
  <2>1. bytes = 0 /\ largest = 0 /\ 1 * shortest = shortest /\ 1 * top = top
    BY <1>1, <1>2 DEF SumIsPossible
  <2>2. top = length
    BY <1>1, <2>1
  <2> QED
    BY <1>1, <1>2, <2>1, <2>2 DEF SumIsPossible, top
<1>3. CASE count > 0
  <2>1. /\ bytes + shortest >= count * shortest + largest
        /\ bytes <= count * largest /\ largest >= shortest
    BY <1>3 DEF SumIsPossible
  <2>2. PICK p \in Nat : p = count * shortest /\ (count + 1) * shortest = p + shortest
    BY count * shortest \in Nat
  <2>3. bytes + length + shortest >= (count + 1) * shortest + top
    BY <1>1, <2>1, <2>2
  <2>4. PICK q \in Nat : q = count * top /\ (count + 1) * top = q + top
    BY <1>1, count * top \in Nat
  <2>5. PICK r \in Nat : r = count * largest
    BY count * largest \in Nat
  <2>6. count * largest <= count * top
    BY <1>1, TimesMonotone
  <2>7. bytes + length <= (count + 1) * top
    BY <1>1, <2>1, <2>4, <2>5, <2>6
  <2>8. top # 0 /\ count + 1 # 0
    BY <1>1, <2>1
  <2> QED
    BY <1>1, <2>1, <2>3, <2>7, <2>8 DEF SumIsPossible, top
<1> QED
  BY <1>1, <1>2, <1>3 DEF top

\* No sum exceeds its count times whatever bounds the largest length.
LEMMA SumBound ==
  ASSUME NEW count \in Nat, NEW bytes \in Nat, NEW largest \in Nat,
         NEW shortest \in Nat, NEW limit \in Nat, largest <= limit,
         SumIsPossible(count, bytes, largest, shortest)
  PROVE  bytes <= count * limit /\ count * limit \in Nat
<1>1. count * largest <= count * limit /\ count * limit \in Nat /\ count * largest \in Nat
  BY TimesMonotone
<1>2. CASE count = 0
  BY <1>1, <1>2 DEF SumIsPossible
<1>3. CASE count # 0
  <2>1. bytes <= count * largest
    BY <1>3 DEF SumIsPossible
  <2>2. PICK p \in Nat, q \in Nat : p = count * largest /\ q = count * limit
    BY <1>1
  <2> QED
    BY <1>1, <2>1, <2>2
<1> QED
  BY <1>2, <1>3
-----------------------------------------------------------------------------
(* The window after one more transfer.                                     *)

\* What the self-check leaves open about a single transfer of a direction.
NoneTooShort(w) ==
  /\ w.inCount > 0 => w.maxIn >= PrefixSize
  /\ w.outCount > 0 => w.maxOut >= Alignment

LEMMA QualifiedLength ==
  ASSUME NEW transfer \in Transfers, MetadataIsQualified(transfer)
  PROVE  /\ transfer.length \in Nat /\ transfer.length # 0
         /\ transfer.length <= Largest
         /\ transfer.direction = "out" => /\ transfer.length % Alignment = 0
                                          /\ transfer.length >= Alignment
         /\ transfer.direction # "out" => transfer.length \in PrefixSize .. Small
<1>1. /\ transfer.length \in Nat /\ transfer.length # 0
      /\ transfer.length <= Largest
      /\ transfer.direction = "out" => transfer.length % Alignment = 0
      /\ transfer.direction # "out" => transfer.length \in PrefixSize .. Small
  BY TransfersAssumption, SizesAssumption DEF MetadataIsQualified
<1>2. ASSUME transfer.direction = "out" PROVE transfer.length >= Alignment
  <2>1. PICK length \in Nat : length = transfer.length
    BY <1>1
  <2>2. length # 0 /\ length % Alignment = 0
    BY <1>1, <1>2, <2>1
  <2>3. PICK m \in Nat : length = Alignment * m
    BY <2>2, Quotient, SizesAssumption
  <2>4. m >= 1
    BY <2>2, <2>3, SizesAssumption
  <2>5. Alignment * 1 <= Alignment * m
    BY <2>4, TimesMonotone, SizesAssumption
  <2>6. Alignment * 1 = Alignment
    BY SizesAssumption
  <2> QED
    BY <2>1, <2>3, <2>5, <2>6
<1> QED
  BY <1>1, <1>2

\* A full window is the only one without room, in bytes as in events.
LEMMA BytesHaveRoom ==
  ASSUME NEW w \in Windows, WindowIsConsistent(w), w.events < MaxEvents,
         NEW length \in Nat, length <= Largest
  PROVE  w.bytes + length <= ByteMax
<1>1. /\ w.events \in Nat /\ w.outCount \in Nat /\ w.inCount \in Nat /\ w.bytes \in Nat
      /\ w.outBytes \in Nat /\ w.inBytes \in Nat /\ w.maxOut \in Nat /\ w.maxIn \in Nat
  BY DEF Windows
<1>2. /\ w.events = w.outCount + w.inCount /\ w.bytes = w.outBytes + w.inBytes
      /\ w.maxOut <= Largest /\ w.maxIn <= Small
      /\ SumIsPossible(w.outCount, w.outBytes, w.maxOut, Alignment)
      /\ SumIsPossible(w.inCount, w.inBytes, w.maxIn, PrefixSize)
  BY DEF WindowIsConsistent
<1>3. w.maxIn <= Largest
  BY <1>1, <1>2, SizesAssumption
<1>4. w.outBytes <= w.outCount * Largest /\ w.outCount * Largest \in Nat
  BY <1>1, <1>2, SumBound, SizesAssumption
<1>5. w.inBytes <= w.inCount * Largest /\ w.inCount * Largest \in Nat
  BY <1>1, <1>2, <1>3, SumBound, SizesAssumption
<1>6. (w.events + 1) * Largest = w.outCount * Largest + w.inCount * Largest + Largest
  BY <1>1, <1>2, SizesAssumption
<1>7. (w.events + 1) * Largest <= MaxEvents * Largest
  BY <1>1, TimesMonotone, SizesAssumption
<1>8. PICK p \in Nat, q \in Nat : p = w.outCount * Largest /\ q = w.inCount * Largest
  BY <1>4, <1>5
<1> QED
  BY <1>1, <1>2, <1>4, <1>5, <1>6, <1>7, <1>8, SizesAssumption

LEMMA CountedFields ==
  ASSUME NEW w \in Windows, NEW transfer \in Transfers
  PROVE  LET c == Counted(w, transfer)
             out == transfer.direction = "out"
         IN  /\ c.state = RegimeAfter(w, transfer) /\ c.finished = w.finished
             /\ c.events = w.events + 1 /\ c.bytes = w.bytes + transfer.length
             /\ out => /\ c.outCount = w.outCount + 1
                       /\ c.outBytes = w.outBytes + transfer.length
                       /\ c.maxOut = Longer(w.maxOut, transfer.length)
                       /\ c.inCount = w.inCount /\ c.inBytes = w.inBytes
                       /\ c.maxIn = w.maxIn
             /\ ~out => /\ c.inCount = w.inCount + 1
                        /\ c.inBytes = w.inBytes + transfer.length
                        /\ c.maxIn = Longer(w.maxIn, transfer.length)
                        /\ c.outCount = w.outCount /\ c.outBytes = w.outBytes
                        /\ c.maxOut = w.maxOut
<1>1. CASE transfer.direction = "out"
  BY <1>1 DEF Counted, Windows
<1>2. CASE transfer.direction # "out"
  BY <1>2 DEF Counted, Windows
<1> QED
  BY <1>1, <1>2

LEMMA CountedType ==
  ASSUME NEW w \in Windows, w.state # "failed",
         NEW transfer \in Transfers, transfer.length \in Nat
  PROVE  Counted(w, transfer) \in Windows /\ RegimeAfter(w, transfer) \in Regimes
<1>1. RegimeAfter(w, transfer) \in Regimes
  BY DEF RegimeAfter, Regimes, Windows
<1>2. /\ Longer(w.maxOut, transfer.length) \in Nat
      /\ Longer(w.maxIn, transfer.length) \in Nat
  BY DEF Longer, Windows
<1> DEFINE next == [w EXCEPT !.state = RegimeAfter(w, transfer),
                             !.events = @ + 1,
                             !.bytes = @ + transfer.length]
<1>3. /\ next \in Windows /\ next.maxOut = w.maxOut /\ next.maxIn = w.maxIn
      /\ next.outCount + 1 \in Nat /\ next.outBytes + transfer.length \in Nat
      /\ next.inCount + 1 \in Nat /\ next.inBytes + transfer.length \in Nat
  <2>1. PICK r \in Regimes : r = RegimeAfter(w, transfer)
    BY <1>1
  <2>2. PICK e \in Nat, b \in Nat : e = w.events + 1 /\ b = w.bytes + transfer.length
    BY DEF Windows
  <2>3. next = [[[w EXCEPT !.state = r] EXCEPT !.events = e] EXCEPT !.bytes = b]
    BY <2>1, <2>2
  <2> HIDE DEF next
  <2>4. next \in Windows
    BY <2>3 DEF Windows
  <2>5. next.maxOut = w.maxOut /\ next.maxIn = w.maxIn
    BY <2>3 DEF Windows
  <2> QED
    BY <2>4, <2>5 DEF Windows
<1>4. Counted(w, transfer)
        = IF transfer.direction = "out"
          THEN [next EXCEPT !.outCount = @ + 1,
                            !.outBytes = @ + transfer.length,
                            !.maxOut = Longer(@, transfer.length)]
          ELSE [next EXCEPT !.inCount = @ + 1,
                            !.inBytes = @ + transfer.length,
                            !.maxIn = Longer(@, transfer.length)]
  BY Zenon DEF Counted
<1> HIDE DEF next
<1>5. CASE transfer.direction = "out"
  <2>1. PICK m \in Nat : m = Longer(next.maxOut, transfer.length)
    BY <1>2, <1>3
  <2>2. Counted(w, transfer) = [next EXCEPT !.outCount = next.outCount + 1,
                                            !.outBytes = next.outBytes + transfer.length,
                                            !.maxOut = m]
    BY <1>4, <1>5, <2>1
  <2> QED
    BY <1>1, <1>3, <2>2 DEF Windows
<1>6. CASE transfer.direction # "out"
  <2>1. PICK m \in Nat : m = Longer(next.maxIn, transfer.length)
    BY <1>2, <1>3
  <2>2. Counted(w, transfer) = [next EXCEPT !.inCount = next.inCount + 1,
                                            !.inBytes = next.inBytes + transfer.length,
                                            !.maxIn = m]
    BY <1>4, <1>6, <2>1
  <2> QED
    BY <1>1, <1>3, <2>2 DEF Windows
<1> QED
  BY <1>1, <1>5, <1>6

\* RegimeFitsMaximum() without its CASE.
LEMMA FitsMeans ==
  ASSUME NEW w
  PROVE  RegimeFitsMaximum(w)
           <=> \/ w.state = "small-only" /\ w.maxOut <= Small
               \/ w.state = "out-above-small" /\ w.maxOut > Small /\ w.maxOut < Largest
               \/ w.state = "out-largest" /\ w.maxOut = Largest
<1>1. CASE w.state = "small-only"
  BY <1>1 DEF RegimeFitsMaximum
<1>2. CASE w.state = "out-above-small"
  BY <1>2 DEF RegimeFitsMaximum
<1>3. CASE w.state = "out-largest"
  BY <1>3 DEF RegimeFitsMaximum
<1>4. CASE w.state \notin {"small-only", "out-above-small", "out-largest"}
  BY <1>4 DEF RegimeFitsMaximum
<1> QED
  BY <1>1, <1>2, <1>3, <1>4

\* The regime after one more transfer fits the largest length after it.
LEMMA CountedFits ==
  ASSUME NEW w \in Windows, WindowIsConsistent(w),
         NEW transfer \in Transfers, MetadataIsQualified(transfer)
  PROVE  /\ RegimeFitsMaximum(Counted(w, transfer))
         /\ Counted(w, transfer).maxOut <= Largest
<1> DEFINE c == Counted(w, transfer)
           length == transfer.length
<1>1. /\ w.maxOut \in Nat /\ w.maxOut <= Largest /\ length \in Nat /\ length <= Largest
      /\ w.events \in Nat /\ w.outCount \in Nat /\ w.inCount \in Nat
      /\ w.state \in Regimes /\ w.state = "empty" <=> w.events = 0
      /\ w.events = w.outCount + w.inCount
      /\ w.events > 0 => RegimeFitsMaximum(w)
  BY QualifiedLength DEF WindowIsConsistent, Windows
<1>2. w.events = 0 => w.maxOut = 0
  BY <1>1 DEF WindowIsConsistent, SumIsPossible
<1>3. c.state = RegimeAfter(w, transfer)
  BY CountedFields
<1>4. c.maxOut = IF transfer.direction = "out" THEN Longer(w.maxOut, length) ELSE w.maxOut
  BY CountedFields
<1> HIDE DEF c
<1>5. \/ w.state = "empty" /\ w.maxOut = 0
      \/ w.state = "small-only" /\ w.maxOut <= Small
      \/ w.state = "out-above-small" /\ w.maxOut > Small /\ w.maxOut < Largest
      \/ w.state = "out-largest" /\ w.maxOut = Largest
  BY <1>1, <1>2, FitsMeans
<1>6. PICK old \in Nat, new \in Nat : /\ old = w.maxOut /\ new = c.maxOut
                                     /\ old <= Largest /\ new <= Largest
  BY <1>1, <1>4, LongerFacts
<1>7. \/ c.state = "small-only" /\ new <= Small
      \/ c.state = "out-above-small" /\ new > Small /\ new < Largest
      \/ c.state = "out-largest" /\ new = Largest
  <2>1. CASE transfer.direction = "out" /\ length = Largest
    <3>1. c.state = "out-largest"
      BY <1>3, <2>1 DEF RegimeAfter
    <3>2. new = Largest
      BY <1>4, <1>6, <2>1, SizesAssumption DEF Longer
    <3> QED
      BY <3>1, <3>2
  <2>2. CASE transfer.direction = "out" /\ length # Largest /\ length > Small
    <3>1. c.state = IF w.state = "out-largest" THEN "out-largest" ELSE "out-above-small"
      BY <1>3, <2>2 DEF RegimeAfter
    <3>2. new = IF old > length THEN old ELSE length
      BY <1>4, <1>6, <2>2 DEF Longer
    <3> QED
      BY <1>1, <1>5, <1>6, <2>2, <3>1, <3>2, SizesAssumption
  <2>3. CASE ~(transfer.direction = "out" /\ length > Small)
    <3>1. c.state = IF w.state = "empty" THEN "small-only" ELSE w.state
      BY <1>1, <1>3, <2>3, SizesAssumption DEF RegimeAfter
    <3>2. new = old \/ (new \in {old, length} /\ new >= old /\ length <= Small)
      BY <1>1, <1>4, <1>6, <2>3, LongerFacts, SizesAssumption
    <3> QED
      BY <1>1, <1>5, <1>6, <3>1, <3>2, SizesAssumption
  <2> QED
    BY <2>1, <2>2, <2>3
<1> QED
  BY <1>6, <1>7, FitsMeans DEF c

LEMMA CountedConsistent ==
  ASSUME NEW w \in Windows, WindowIsConsistent(w), NoneTooShort(w), w.events < MaxEvents,
         NEW transfer \in Transfers, MetadataIsQualified(transfer)
  PROVE  /\ Counted(w, transfer) \in Windows
         /\ WindowIsConsistent(Counted(w, transfer))
         /\ NoneTooShort(Counted(w, transfer))
<1> DEFINE c == Counted(w, transfer)
           length == transfer.length
<1>1. /\ w.events \in Nat /\ w.outCount \in Nat /\ w.inCount \in Nat /\ w.bytes \in Nat
      /\ w.outBytes \in Nat /\ w.inBytes \in Nat /\ w.maxOut \in Nat /\ w.maxIn \in Nat
  BY DEF Windows
<1>2. /\ w.state # "failed" /\ w.events = w.outCount + w.inCount
      /\ w.bytes = w.outBytes + w.inBytes
      /\ w.maxOut % Alignment = 0 /\ w.outBytes % Alignment = 0 /\ w.maxIn <= Small
      /\ SumIsPossible(w.outCount, w.outBytes, w.maxOut, Alignment)
      /\ SumIsPossible(w.inCount, w.inBytes, w.maxIn, PrefixSize)
  BY DEF WindowIsConsistent
<1>3. /\ length \in Nat /\ length # 0 /\ length <= Largest
      /\ transfer.direction = "out" => length % Alignment = 0 /\ length >= Alignment
      /\ transfer.direction # "out" => length \in PrefixSize .. Small
  BY QualifiedLength
<1>4. w.bytes + length <= ByteMax
  BY <1>3, BytesHaveRoom
<1>5. c \in Windows /\ RegimeAfter(w, transfer) \in Regimes
  BY <1>2, <1>3, CountedType
<1>6. RegimeFitsMaximum(c) /\ c.maxOut <= Largest
  BY CountedFits
<1>7. /\ c.state = RegimeAfter(w, transfer) /\ c.events = w.events + 1
      /\ c.bytes = w.bytes + length
  BY CountedFields
<1>8. CASE transfer.direction = "out"
  <2>1. /\ c.outCount = w.outCount + 1 /\ c.outBytes = w.outBytes + length
        /\ c.maxOut = Longer(w.maxOut, length)
        /\ c.inCount = w.inCount /\ c.inBytes = w.inBytes /\ c.maxIn = w.maxIn
    BY <1>8, CountedFields
  <2> HIDE DEF c
  <2>2. w.outCount > 0 => w.maxOut >= Alignment
    BY DEF NoneTooShort
  <2>3. /\ SumIsPossible(c.outCount, c.outBytes, c.maxOut, Alignment)
        /\ c.maxOut >= Alignment
    <3>1. /\ SumIsPossible(w.outCount + 1, w.outBytes + length,
                           Longer(w.maxOut, length), Alignment)
          /\ Longer(w.maxOut, length) >= Alignment
      BY <1>1, <1>2, <1>3, <1>8, <2>2, SumStep, SizesAssumption
    <3> QED
      BY <2>1, <3>1
  <2>4. c.outBytes % Alignment = 0
    BY <1>1, <1>2, <1>3, <1>8, <2>1, Multiples, SizesAssumption
  <2>5. c.maxOut % Alignment = 0
    BY <1>1, <1>2, <1>3, <1>8, <2>1 DEF Longer
  <2>6. NoneTooShort(c)
    BY <2>1, <2>3 DEF NoneTooShort
  <2>7. WindowIsConsistent(c)
    <3> HIDE DEF c, length
    <3>1. c.state # "failed" /\ c.state # "empty"
      BY <1>2, <1>5, <1>6, <1>7 DEF Regimes, RegimeFitsMaximum
    <3>2. /\ c.events <= MaxEvents /\ c.events = c.outCount + c.inCount /\ c.events # 0
          /\ c.outBytes + c.inBytes <= ByteMax /\ c.bytes = c.outBytes + c.inBytes
      BY <1>1, <1>2, <1>3, <1>4, <1>7, <2>1, SizesAssumption
    <3>3. c.maxIn <= Small /\ SumIsPossible(c.inCount, c.inBytes, c.maxIn, PrefixSize)
      BY <1>2, <2>1
    <3> QED
      BY <1>6, <2>3, <2>4, <2>5, <3>1, <3>2, <3>3 DEF WindowIsConsistent
  <2> QED
    BY <1>5, <2>6, <2>7 DEF c
<1>9. CASE transfer.direction # "out"
  <2>1. /\ c.inCount = w.inCount + 1 /\ c.inBytes = w.inBytes + length
        /\ c.maxIn = Longer(w.maxIn, length)
        /\ c.outCount = w.outCount /\ c.outBytes = w.outBytes /\ c.maxOut = w.maxOut
    BY <1>9, CountedFields
  <2> HIDE DEF c
  <2>2. w.inCount > 0 => w.maxIn >= PrefixSize
    BY DEF NoneTooShort
  <2>3. length >= PrefixSize /\ length <= Small
    BY <1>3, <1>9, SizesAssumption
  <2>4. /\ SumIsPossible(c.inCount, c.inBytes, c.maxIn, PrefixSize)
        /\ c.maxIn >= PrefixSize
    <3>1. /\ SumIsPossible(w.inCount + 1, w.inBytes + length,
                           Longer(w.maxIn, length), PrefixSize)
          /\ Longer(w.maxIn, length) >= PrefixSize
      BY <1>1, <1>2, <1>3, <2>2, <2>3, SumStep, SizesAssumption
    <3> QED
      BY <2>1, <3>1
  <2>5. c.maxIn <= Small
    BY <1>1, <1>2, <1>3, <2>1, <2>3, SizesAssumption DEF Longer
  <2>6. NoneTooShort(c)
    BY <2>1, <2>4 DEF NoneTooShort
  <2>7. WindowIsConsistent(c)
    <3> HIDE DEF c, length
    <3>1. c.state # "failed" /\ c.state # "empty"
      BY <1>2, <1>5, <1>6, <1>7 DEF Regimes, RegimeFitsMaximum
    <3>2. /\ c.events <= MaxEvents /\ c.events = c.outCount + c.inCount /\ c.events # 0
          /\ c.outBytes + c.inBytes <= ByteMax /\ c.bytes = c.outBytes + c.inBytes
      BY <1>1, <1>2, <1>3, <1>4, <1>7, <2>1, SizesAssumption
    <3>3. /\ SumIsPossible(c.outCount, c.outBytes, c.maxOut, Alignment)
          /\ c.maxOut % Alignment = 0 /\ c.outBytes % Alignment = 0
      BY <1>2, <2>1
    <3> QED
      BY <1>6, <2>4, <2>5, <3>1, <3>2, <3>3 DEF WindowIsConsistent
  <2> QED
    BY <1>5, <2>6, <2>7 DEF c
<1> QED
  BY <1>8, <1>9
-----------------------------------------------------------------------------
(* The invariant.                                                          *)

Inv ==
  /\ NeverCorrupted /\ RegimeIsOfTheWholeWindow
  /\ seen \in Seq(Transfers)
  /\ window.state # "failed" => NoneTooShort(window)

\* The regime of the transfers seen and of one more.
LEMMA RegimeStep ==
  ASSUME NEW transfer \in Transfers, MetadataIsQualified(transfer),
         seen \in Seq(Transfers), seen' = Append(seen, transfer),
         window.state = RegimeOfSeen
  PROVE  RegimeAfter(window, transfer) = RegimeOfSeen'
<1> DEFINE n == Len(seen) + 1
           out == transfer.direction = "out"
<1>1. /\ n \in Nat /\ DOMAIN seen = 1 .. (n - 1) /\ DOMAIN seen' = 1 .. n
      /\ seen'[n] = transfer /\ \A i \in 1 .. (n - 1) : seen'[i] = seen[i]
      /\ seen' # <<>>
  BY AppendProperties, LenProperties
<1>2. transfer.length \in Nat
  BY QualifiedLength
<1> HIDE DEF n
<1>3. (\E i \in SeenOut' : seen'[i].length = Largest)
        <=> \/ out /\ transfer.length = Largest
            \/ \E i \in SeenOut : seen[i].length = Largest
  BY <1>1 DEF SeenOut
<1>4. (\E i \in SeenOut' : seen'[i].length > Small)
        <=> \/ out /\ transfer.length > Small
            \/ \E i \in SeenOut : seen[i].length > Small
  BY <1>1 DEF SeenOut
<1>5. RegimeOfSeen' = IF \E i \in SeenOut' : seen'[i].length = Largest THEN "out-largest"
                      ELSE IF \E i \in SeenOut' : seen'[i].length > Small
                      THEN "out-above-small" ELSE "small-only"
  BY <1>1 DEF RegimeOfSeen
<1>6. seen = <<>> => /\ ~\E i \in SeenOut : seen[i].length = Largest
                     /\ ~\E i \in SeenOut : seen[i].length > Small
  BY DEF SeenOut
<1>7. /\ window.state = "out-largest" <=> \E i \in SeenOut : seen[i].length = Largest
      /\ window.state = "out-above-small"
           <=> /\ ~\E i \in SeenOut : seen[i].length = Largest
               /\ \E i \in SeenOut : seen[i].length > Small
      /\ window.state \in {"empty", "small-only", "out-above-small", "out-largest"}
  BY <1>6 DEF RegimeOfSeen
<1> QED
  BY <1>3, <1>4, <1>5, <1>7 DEF RegimeAfter

\* The window of an initialization passes the check.
LEMMA EmptyWindow ==
  Empty \in Windows /\ WindowIsConsistent(Empty) /\ NoneTooShort(Empty)
<1>1. 0 % Alignment = 0
  <2>1. 0 = Alignment * 0
    BY SizesAssumption
  <2> QED
    BY <2>1, NoRemainder, SizesAssumption
<1>2. Empty \in Windows
  BY DEF Windows, Empty, Regimes
<1>3. WindowIsConsistent(Empty)
  BY <1>1, SizesAssumption DEF WindowIsConsistent, SumIsPossible, Empty
<1> QED
  BY <1>2, <1>3 DEF NoneTooShort, Empty

LEMMA InitInv == Init => Inv
<1> SUFFICES ASSUME Init PROVE Inv
  OBVIOUS
<1>1. window = Empty /\ seen = <<>> /\ observed = "none" /\ result = "ok"
  BY DEF Init
<1>2. NeverCorrupted
  BY <1>1, EmptyWindow DEF NeverCorrupted, Results
<1>3. RegimeIsOfTheWholeWindow
  BY <1>1 DEF RegimeIsOfTheWholeWindow, RegimeOfSeen, Empty
<1> QED
  BY <1>1, <1>2, <1>3, EmptyWindow DEF Inv

\* Of a live window, the checks that AcceptResult() makes before the last one.
LEMMA AcceptResultFacts ==
  ASSUME Inv, NEW transfer \in Transfers \cup {NoTransfer}
  PROVE  /\ AcceptResult(window, transfer) \in Results \ {"corrupted"}
         /\ window.state = "failed" => AcceptResult(window, transfer) = "sticky-failure"
         /\ window.state # "failed" => AcceptResult(window, transfer) # "sticky-failure"
         /\ AcceptResult(window, transfer) = "ok"
              => /\ window.state # "failed" /\ ~window.finished
                 /\ transfer \in Transfers /\ MetadataIsQualified(transfer)
                 /\ window.events < MaxEvents
<1>1. /\ window.state # "failed" => WindowIsConsistent(window)
      /\ window.events \in Nat
  BY DEF Inv, NeverCorrupted, Windows
<1>2. AcceptResult(window, transfer) = "ok"
        => ~(window.events >= MaxEvents) /\ MetadataIsQualified(transfer)
  BY DEF AcceptResult
<1>3. MetadataIsQualified(transfer) => transfer # NoTransfer
  BY DEF MetadataIsQualified
<1> QED
  BY <1>1, <1>2, <1>3, SizesAssumption DEF AcceptResult, Results

LEMMA NextInv == Inv /\ [Next]_vars => Inv'
<1> SUFFICES ASSUME Inv, [Next]_vars PROVE Inv'
  OBVIOUS
<1>1. /\ window \in Windows /\ observed \in Regimes \cup {"none"} /\ result \in Results
      /\ seen \in Seq(Transfers)
      /\ window.state # "failed" => /\ WindowIsConsistent(window) /\ NoneTooShort(window)
                                    /\ window.state = RegimeOfSeen
                                    /\ window.events = Len(seen)
                                    /\ window.finished => observed = RegimeOfSeen
  BY DEF Inv, NeverCorrupted, RegimeIsOfTheWholeWindow
<1>2. CASE Initialize
  <2>1. window' = Empty /\ seen' = <<>> /\ observed' = observed /\ result' = result
    BY <1>2 DEF Initialize
  <2>2. NeverCorrupted'
    BY <1>1, <2>1, EmptyWindow DEF NeverCorrupted
  <2>3. RegimeIsOfTheWholeWindow'
    BY <2>1 DEF RegimeIsOfTheWholeWindow, RegimeOfSeen, Empty
  <2> QED
    BY <2>1, <2>2, <2>3, EmptyWindow DEF Inv
<1>3. ASSUME NEW transfer \in Transfers \cup {NoTransfer}, Accept(transfer) PROVE Inv'
  <2>1. observed' = observed /\ result' = AcceptResult(window, transfer)
        /\ result' \in Results
    BY <1>3, AcceptResultFacts DEF Accept
  <2>2. CASE result' = "ok"
    <3>1. /\ window' = Counted(window, transfer) /\ seen' = Append(seen, transfer)
          /\ transfer \in Transfers /\ MetadataIsQualified(transfer)
          /\ window.state # "failed" /\ window.events < MaxEvents /\ ~window.finished
      BY <1>3, <2>1, <2>2, AcceptResultFacts DEF Accept
    <3>2. window' \in Windows /\ WindowIsConsistent(window') /\ NoneTooShort(window')
      BY <1>1, <3>1, CountedConsistent
    <3>3. window'.state = RegimeOfSeen'
      BY <1>1, <3>1, CountedFields, RegimeStep
    <3>4. window'.events = Len(seen') /\ ~window'.finished /\ seen' \in Seq(Transfers)
      BY <1>1, <3>1, CountedFields, AppendProperties
    <3> QED
      BY <1>1, <2>1, <3>2, <3>3, <3>4 DEF Inv, NeverCorrupted, RegimeIsOfTheWholeWindow
  <2>3. CASE result' \in {"sticky-failure", "already-finished"}
    <3>1. window' = window /\ seen' = seen
      BY <1>3, <2>3 DEF Accept
    <3> QED
      BY <1>1, <2>1, <3>1 DEF Inv, NeverCorrupted, RegimeIsOfTheWholeWindow, RegimeOfSeen, SeenOut
  <2>4. CASE result' \notin {"ok", "sticky-failure", "already-finished"}
    <3>1. window' = FailedWindow(window) /\ seen' = seen
      BY <1>3, <2>4 DEF Accept
    <3>2. window' \in Windows /\ window'.state = "failed"
      BY <1>1, <3>1 DEF FailedWindow, Windows
    <3> QED
      BY <1>1, <2>1, <3>1, <3>2 DEF Inv, NeverCorrupted, RegimeIsOfTheWholeWindow
  <2> QED
    BY <2>2, <2>3, <2>4
<1>4. CASE Finish
  <2>1. /\ result' = FinishResult(window) /\ result' \in Results \ {"corrupted"}
        /\ result' = "ok" => window.state # "failed"
        /\ seen' = seen
    BY <1>1, <1>4 DEF Finish, FinishResult, Results
  <2>2. CASE result' = "ok"
    <3>1. window' = [window EXCEPT !.finished = TRUE] /\ observed' = window.state
      BY <1>4, <2>2 DEF Finish
    <3>2. /\ window' \in Windows /\ window'.state = window.state
          /\ window'.events = window.events
          /\ WindowIsConsistent(window') /\ NoneTooShort(window')
      BY <1>1, <2>1, <2>2, <3>1
      DEF Windows, WindowIsConsistent, NoneTooShort, RegimeFitsMaximum
    <3>3. observed' \in Regimes
      BY <1>1, <2>1, <2>2, <3>1 DEF Windows
    <3>4. RegimeOfSeen' = RegimeOfSeen
      BY <2>1 DEF RegimeOfSeen, SeenOut
    <3> QED
      BY <1>1, <2>1, <2>2, <3>1, <3>2, <3>3, <3>4
      DEF Inv, NeverCorrupted, RegimeIsOfTheWholeWindow
  <2>3. CASE result' # "ok"
    <3>1. window' = window /\ observed' = observed
      BY <1>4, <2>1, <2>3 DEF Finish
    <3> QED
      BY <1>1, <2>1, <3>1 DEF Inv, NeverCorrupted, RegimeIsOfTheWholeWindow, RegimeOfSeen, SeenOut
  <2> QED
    BY <2>2, <2>3
<1>5. CASE UNCHANGED vars
  BY <1>1, <1>5
  DEF vars, Inv, NeverCorrupted, RegimeIsOfTheWholeWindow, RegimeOfSeen, SeenOut
<1> QED
  BY <1>2, <1>3, <1>4, <1>5 DEF Next

\* The invariant holds of every behaviour.
THEOREM Inductive == Spec => []Inv
BY InitInv, NextInv, PTL DEF Spec

\* No sequence of calls makes a window that its own self-check takes for
\* corrupted: window_is_consistent() admits everything that
\* db_traffic_regime_accept() builds, whatever the limits and the alignment.
THEOREM CheckAdmitsEveryWindow == Spec => []NeverCorrupted
<1>1. Inv => NeverCorrupted
  BY DEF Inv
<1> QED
  BY <1>1, Inductive, PTL

\* The regime is that of the transfers seen and not of their order, and a
\* finished window goes on reporting it.
THEOREM RegimeIsOfAllTransfers == Spec => []RegimeIsOfTheWholeWindow
<1>1. Inv => RegimeIsOfTheWholeWindow
  BY DEF Inv
<1> QED
  BY <1>1, Inductive, PTL

\* A qualified transfer fails a live window only when the window is full: the
\* byte counters have room wherever the event counter has.
THEOREM OnlyAFullWindowRefuses == Spec => RefusesOnlyWhenFull
<1>1. Inv /\ [Next]_vars
        => [\A transfer \in Transfers :
             /\ MetadataIsQualified(transfer) /\ Accept(transfer)
             /\ window'.state = "failed" /\ window.state # "failed"
             => Len(seen) = MaxEvents]_vars
  <2> SUFFICES ASSUME Inv, NEW transfer \in Transfers, MetadataIsQualified(transfer),
                      Accept(transfer), window'.state = "failed", window.state # "failed"
               PROVE  Len(seen) = MaxEvents
    OBVIOUS
  <2>1. /\ window \in Windows /\ WindowIsConsistent(window) /\ window.events = Len(seen)
    BY DEF Inv, NeverCorrupted, RegimeIsOfTheWholeWindow
  <2>2. window.events \in Nat /\ window.events <= MaxEvents
    BY <2>1 DEF Windows, WindowIsConsistent
  <2>3. result' = AcceptResult(window, transfer)
    BY DEF Accept
  <2>4. result' # "ok"
    <3> SUFFICES ASSUME result' = "ok" PROVE FALSE
      OBVIOUS
    <3>1. window' = Counted(window, transfer)
      BY DEF Accept
    <3>2. transfer.length \in Nat
      BY QualifiedLength
    <3>3. window'.state \in Regimes
      BY <2>1, <3>1, <3>2, CountedFields, CountedType
    <3> QED
      BY <3>3 DEF Regimes
  <2>5. result' \notin {"sticky-failure", "already-finished"}
    BY DEF Accept
  <2>6. result' = "bounds-exceeded"
    BY <2>1, <2>3, <2>4, <2>5 DEF AcceptResult, MetadataIsQualified
  <2>7. window.events >= MaxEvents \/ window.bytes + transfer.length > ByteMax
    BY <2>3, <2>6 DEF AcceptResult
  <2>8. window.events < MaxEvents => ~(window.bytes + transfer.length > ByteMax)
    <3>1. transfer.length \in Nat /\ transfer.length <= Largest
      BY QualifiedLength
    <3>2. window.events < MaxEvents => window.bytes + transfer.length <= ByteMax
      BY <2>1, <3>1, BytesHaveRoom
    <3>3. PICK sum \in Nat : sum = window.bytes + transfer.length
      BY <2>1, <3>1 DEF Windows
    <3> QED
      BY <3>2, <3>3, SizesAssumption
  <2> QED
    BY <2>1, <2>2, <2>7, <2>8, SizesAssumption
<1> QED
  BY <1>1, Inductive, PTL DEF Spec, RefusesOnlyWhenFull
=============================================================================
