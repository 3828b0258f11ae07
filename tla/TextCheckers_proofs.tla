------------------------- MODULE TextCheckers_proofs -------------------------
(***************************************************************************)
(* Proofs about TextCheckers, for every set of lines and all limits: the   *)
(* two parsers, which keep flags and counters, agree with the grammars of  *)
(* their texts, and what they and the replay count is what the text says;  *)
(* and about EtwImport, which writes one of the texts: the trials are the  *)
(* lifetimes that there were, the parser accepts what is rendered of them, *)
(* and what is published stays.                                            *)
(***************************************************************************)
EXTENDS TextCheckers, EtwImport, Operators_proofs

-----------------------------------------------------------------------------
(* Totals.                                                                 *)

IsSums(numbers, n, f) ==
  f = [k \in 0 .. n |-> IF k = 0 THEN 0 ELSE f[k - 1] + numbers[k]]

LEMMA SumsExist ==
  ASSUME NEW numbers, NEW n \in Nat
  PROVE  \E f : IsSums(numbers, n, f)
<1> DEFINE T == {k \in Nat : ~\E f : IsSums(numbers, k, f)}
<1>1. SUFFICES ASSUME T # {} PROVE FALSE
  OBVIOUS
<1>2. PICK m \in T : \A k \in T : m <= k
  <2> T \in SUBSET Nat
    OBVIOUS
  <2> HIDE DEF T
  <2> QED
    BY <1>1, Least
<1>3. m # 0
  <2> DEFINE f == [k \in 0 .. 0 |-> 0]
  <2>1. IsSums(numbers, 0, f)
    BY DEF IsSums
  <2> QED
    BY <1>2, <2>1
<1>4. PICK g : IsSums(numbers, m - 1, g)
  <2>1. m - 1 \in Nat /\ ~(m <= m - 1)
    BY <1>2, <1>3
  <2> QED
    BY <1>2, <2>1
<1> DEFINE last == g[m - 1] + numbers[m]
           f == [k \in 0 .. m |-> IF k = m THEN last ELSE g[k]]
<1>5. \A k \in 0 .. m : f[k] = IF k = 0 THEN 0 ELSE f[k - 1] + numbers[k]
  <2> TAKE k \in 0 .. m
  <2>1. CASE k = m
    <3>1. f[k - 1] = g[m - 1]
      BY <1>3, <2>1
    <3> QED
      BY <1>3, <2>1, <3>1
  <2>2. CASE k # m
    <3>1. /\ k \in 0 .. (m - 1) /\ f[k] = g[k]
          /\ k # 0 => f[k - 1] = g[k - 1]
      BY <2>2
    <3>2. g[k] = IF k = 0 THEN 0 ELSE g[k - 1] + numbers[k]
      BY <1>4, <3>1 DEF IsSums
    <3> QED
      BY <3>1, <3>2
  <2> QED
    BY <2>1, <2>2
<1>6. IsSums(numbers, m, f)
  <2>1. f = [k \in 0 .. m |-> f[k]]
    OBVIOUS
  <2> HIDE DEF f
  <2> QED
    BY <1>5, <2>1 DEF IsSums
<1> QED
  BY <1>2, <1>6

\* What Total() computes.
LEMMA TotalIsSum ==
  ASSUME NEW numbers \in Seq(Nat)
  PROVE  \E f : IsSums(numbers, Len(numbers), f) /\ Total(numbers) = f[Len(numbers)]
<1> DEFINE upTo[n \in 0 .. Len(numbers)] ==
             IF n = 0 THEN 0 ELSE upTo[n - 1] + numbers[n]
<1>1. Total(numbers) = upTo[Len(numbers)]
  BY DEF Total
<1>2. PICK f : IsSums(numbers, Len(numbers), f)
  BY SumsExist, LenProperties
<1>3. IsSums(numbers, Len(numbers), upTo)
  BY <1>2 DEF IsSums
<1> QED
  BY <1>1, <1>3

\* Two sequences of numbers that differ at most in one place.
LEMMA TotalsCompare ==
  ASSUME NEW s \in Seq(Nat), NEW t \in Seq(Nat), Len(t) = Len(s),
         NEW i \in 1 .. Len(s), \A k \in 1 .. Len(s) : k # i => t[k] = s[k]
  PROVE  Total(t) + s[i] = Total(s) + t[i]
<1> DEFINE len == Len(s)
<1>1. len \in Nat /\ i \in Nat /\ 1 <= i /\ i <= len
      /\ \A k \in 1 .. len : s[k] \in Nat /\ t[k] \in Nat
  BY LenProperties, ElementOfSeq
<1>2. PICK f : IsSums(s, len, f) /\ Total(s) = f[len]
  BY TotalIsSum
<1>3. PICK g : IsSums(t, len, g) /\ Total(t) = g[len]
  BY TotalIsSum
<1> HIDE DEF len
<1> DEFINE Right(k) == /\ f[k] \in Nat /\ g[k] \in Nat
                       /\ k < i => g[k] = f[k]
                       /\ k >= i => g[k] + s[i] = f[k] + t[i]
           T == {k \in 0 .. len : ~Right(k)}
<1>4. SUFFICES ASSUME T # {} PROVE FALSE
  <2>1. len \in 0 .. len
    BY <1>1
  <2>2. Right(len)
    BY <1>4, <2>1
  <2> QED
    BY <1>1, <1>2, <1>3, <2>2 DEF len
<1>5. PICK m \in T : \A k \in T : m <= k
  <2> T \in SUBSET Nat
    BY <1>1
  <2> HIDE DEF T
  <2> QED
    BY <1>4, Least
<1>6. m \in Nat /\ m <= len
  BY <1>1, <1>5
<1>7. /\ \A k \in 0 .. len : f[k] = IF k = 0 THEN 0 ELSE f[k - 1] + s[k]
      /\ \A k \in 0 .. len : g[k] = IF k = 0 THEN 0 ELSE g[k - 1] + t[k]
  BY <1>2, <1>3 DEF IsSums
<1>8. CASE m = 0
  <2>1. f[0] = 0 /\ g[0] = 0
    BY <1>1, <1>7
  <2> QED
    BY <1>1, <1>5, <1>8, <2>1
<1>9. CASE m # 0
  <2>1. m - 1 \in 0 .. len /\ ~(m <= m - 1)
    BY <1>1, <1>6, <1>9
  <2>2. Right(m - 1)
    BY <1>5, <2>1
  <2>3. f[m] = f[m - 1] + s[m] /\ g[m] = g[m - 1] + t[m] /\ m \in 1 .. len
    BY <1>1, <1>6, <1>7, <1>9
  <2>4. Right(m)
    <3>1. s[m] \in Nat /\ t[m] \in Nat /\ (m # i => t[m] = s[m])
      BY <1>1, <2>3 DEF len
    <3>2. CASE m < i
      BY <1>1, <1>6, <2>2, <2>3, <3>1, <3>2
    <3>3. CASE m = i
      BY <1>1, <1>6, <2>2, <2>3, <3>1, <3>3
    <3>4. CASE m > i
      <4>1. g[m - 1] + s[i] = f[m - 1] + t[i] /\ f[m - 1] \in Nat /\ g[m - 1] \in Nat
        BY <1>1, <1>6, <2>2, <3>4
      <4>2. s[i] \in Nat /\ t[i] \in Nat
        BY <1>1 DEF len
      <4>3. t[m] = s[m] /\ s[m] \in Nat
        BY <1>1, <1>6, <3>1, <3>4
      <4>4. PICK a \in Nat, b \in Nat, c \in Nat :
              a = f[m - 1] /\ b = g[m - 1] /\ c = s[m] /\ f[m] = a + c /\ g[m] = b + c
        BY <2>3, <4>1, <4>3
      <4>5. f[m] \in Nat /\ g[m] \in Nat /\ g[m] + s[i] = f[m] + t[i]
        <5>1. PICK p \in Nat, q \in Nat : p = s[i] /\ q = t[i]
          BY <4>2
        <5>2. b + p = a + q
          BY <4>1, <4>4, <5>1
        <5>3. (b + c) + p = (a + c) + q
          BY <5>2
        <5>4. a + c \in Nat /\ b + c \in Nat
          OBVIOUS
        <5> QED
          BY <4>4, <5>1, <5>3, <5>4, Zenon
      <4> QED
        BY <1>1, <1>6, <3>4, <4>5
    <3> QED
      BY <1>1, <1>6, <3>2, <3>3, <3>4
  <2> QED
    BY <1>5, <2>4
<1> QED
  BY <1>8, <1>9

\* One more number.
LEMMA TotalAppended ==
  ASSUME NEW s \in Seq(Nat), NEW t \in Seq(Nat), Len(t) = Len(s) + 1,
         \A k \in 1 .. Len(s) : t[k] = s[k]
  PROVE  Total(t) = Total(s) + t[Len(s) + 1] /\ Total(s) \in Nat
<1> DEFINE len == Len(s)
<1>1. len \in Nat /\ \A k \in 1 .. len : s[k] \in Nat /\ t[k] = s[k]
  BY LenProperties, ElementOfSeq
<1>2. PICK f : IsSums(s, len, f) /\ Total(s) = f[len]
  BY TotalIsSum
<1>3. PICK g : IsSums(t, len + 1, g) /\ Total(t) = g[len + 1]
  BY TotalIsSum
<1> HIDE DEF len
<1> DEFINE T == {k \in 0 .. len : ~(f[k] \in Nat /\ g[k] = f[k])}
<1>4. /\ \A k \in 0 .. len : f[k] = IF k = 0 THEN 0 ELSE f[k - 1] + s[k]
      /\ \A k \in 0 .. (len + 1) : g[k] = IF k = 0 THEN 0 ELSE g[k - 1] + t[k]
  BY <1>2, <1>3 DEF IsSums
<1>5. T = {}
  <2> SUFFICES ASSUME T # {} PROVE FALSE
    OBVIOUS
  <2>1. PICK m \in T : \A k \in T : m <= k
    <3> T \in SUBSET Nat
      BY <1>1
    <3> HIDE DEF T
    <3> QED
      BY Least
  <2>2. m \in Nat /\ m <= len /\ m \in 0 .. (len + 1)
    BY <1>1, <2>1
  <2>3. m # 0
    <3>1. f[0] = 0 /\ g[0] = 0
      BY <1>1, <1>4
    <3> QED
      BY <2>1, <3>1
  <2>4. m - 1 \in 0 .. len /\ ~(m <= m - 1)
    BY <1>1, <2>2, <2>3
  <2>5. f[m - 1] \in Nat /\ g[m - 1] = f[m - 1]
    BY <2>1, <2>4
  <2>6. f[m] = f[m - 1] + s[m] /\ g[m] = g[m - 1] + t[m] /\ m \in 1 .. len
    BY <1>1, <1>4, <2>2, <2>3
  <2> QED
    BY <1>1, <2>1, <2>5, <2>6
<1>6. f[len] \in Nat /\ g[len] = f[len]
  BY <1>1, <1>5
<1>7. g[len + 1] = g[len] + t[len + 1]
  BY <1>1, <1>4
<1> QED
  BY <1>2, <1>3, <1>6, <1>7 DEF len

LEMMA TotalOfNothing == Total(<<>>) = 0
<1>1. <<>> \in Seq(Nat) /\ Len(<<>>) = 0
  OBVIOUS
<1>2. PICK f : IsSums(<<>>, 0, f) /\ Total(<<>>) = f[0]
  BY <1>1, TotalIsSum
<1> QED
  BY <1>2 DEF IsSums

\* The same of functions on intervals, as the specifications write them.
LEMMA NumbersAreASequence ==
  ASSUME NEW n \in Nat, NEW s \in [1 .. n -> Nat]
  PROVE  s \in Seq(Nat) /\ Len(s) = n
BY IsASeq, LenProperties

LEMMA TotalExtended ==
  ASSUME NEW n \in Nat \ {0}, NEW s \in [1 .. (n - 1) -> Nat], NEW t \in [1 .. n -> Nat],
         \A k \in 1 .. (n - 1) : t[k] = s[k]
  PROVE  Total(t) = Total(s) + t[n] /\ Total(s) \in Nat
<1>1. n - 1 \in Nat
  OBVIOUS
<1>2. s \in Seq(Nat) /\ Len(s) = n - 1 /\ t \in Seq(Nat) /\ Len(t) = n
  BY <1>1, NumbersAreASequence
<1>3. Len(s) + 1 = n
  BY <1>2
<1> QED
  BY <1>2, <1>3, TotalAppended

LEMMA TotalChanged ==
  ASSUME NEW n \in Nat, NEW s \in [1 .. n -> Nat], NEW t \in [1 .. n -> Nat],
         NEW i \in 1 .. n, \A k \in 1 .. n : k # i => t[k] = s[k]
  PROVE  Total(t) + s[i] = Total(s) + t[i]
<1>1. s \in Seq(Nat) /\ Len(s) = n /\ t \in Seq(Nat) /\ Len(t) = n
  BY NumbersAreASequence
<1> QED
  BY <1>1, TotalsCompare

LEMMA TotalType ==
  ASSUME NEW n \in Nat, NEW s \in [1 .. n -> Nat]
  PROVE  Total(s) \in Nat
<1> DEFINE m == n + 1
           t == [k \in 1 .. m |-> IF k = m THEN 0 ELSE s[k]]
<1>1. /\ m \in Nat \ {0} /\ s \in [1 .. (m - 1) -> Nat] /\ t \in [1 .. m -> Nat]
      /\ \A k \in 1 .. (m - 1) : t[k] = s[k]
  OBVIOUS
<1> QED
  BY <1>1, TotalExtended
-----------------------------------------------------------------------------
(* Observation transcripts.                                                *)

\* What one more line does to the positions of a kind.
LEMMA AtAppended ==
  ASSUME NEW ls \in Seq(TranscriptLines), NEW line \in TranscriptLines, NEW kind
  PROVE  LET n == Len(ls) + 1
             longer == Append(ls, line)
         IN  /\ n \in Nat \ {0} /\ longer \in Seq(TranscriptLines) /\ longer[n] = line
             /\ DOMAIN ls = 1 .. (n - 1) /\ DOMAIN longer = 1 .. n /\ Len(longer) = n
             /\ \A i \in 1 .. (n - 1) : longer[i] = ls[i]
             /\ At(ls, kind) \subseteq 1 .. (n - 1)
             /\ line.kind = kind => At(longer, kind) = At(ls, kind) \cup {n}
             /\ line.kind # kind => At(longer, kind) = At(ls, kind)
             /\ IsFiniteSet(At(ls, kind)) /\ Cardinality(At(ls, kind)) \in Nat
             /\ line.kind = kind
                  => Cardinality(At(longer, kind)) = Cardinality(At(ls, kind)) + 1
<1> DEFINE n == Len(ls) + 1
           longer == Append(ls, line)
<1>1. /\ n \in Nat \ {0} /\ longer \in Seq(TranscriptLines) /\ longer[n] = line
      /\ DOMAIN ls = 1 .. (n - 1) /\ DOMAIN longer = 1 .. n /\ Len(longer) = n
      /\ \A i \in 1 .. (n - 1) : longer[i] = ls[i]
  BY AppendProperties, LenProperties
<1> HIDE DEF n, longer
<1>2. At(ls, kind) \subseteq 1 .. (n - 1) /\ n \notin 1 .. (n - 1)
  BY <1>1 DEF At
<1>3. /\ line.kind = kind => At(longer, kind) = At(ls, kind) \cup {n}
      /\ line.kind # kind => At(longer, kind) = At(ls, kind)
  <2>1. \A i : i \in At(longer, kind) <=> i \in At(ls, kind) \/ (i = n /\ line.kind = kind)
    BY <1>1 DEF At
  <2> QED
    BY <2>1
<1>4. IsFiniteSet(At(ls, kind)) /\ Cardinality(At(ls, kind)) \in Nat
  <2>1. IsFiniteSet(1 .. (n - 1))
    BY <1>1, Interval
  <2> QED
    BY <1>2, <2>1, FS_Subset, FS_CardinalityType
<1>5. line.kind = kind => Cardinality(At(longer, kind)) = Cardinality(At(ls, kind)) + 1
  <2>1. n \notin At(ls, kind)
    BY <1>2
  <2> QED
    BY <1>3, <1>4, <2>1, FS_AddElement
<1> QED
  BY <1>1, <1>2, <1>3, <1>4, <1>5 DEF n, longer

LEMMA LineFacts ==
  ASSUME NEW line \in TranscriptLines
  PROVE  /\ line.kind \in {"header", "unknown", "overlong", "origin", "device",
                           "interface", "transfer"}
         /\ line.kind = "transfer" => line.length \in Nat /\ line.sequence \in Nat
         /\ line.kind = "interface" => line.candidate \in BOOLEAN
BY TranscriptAssumption

\* The lengths of the transfers, in a form that Total() takes.
TransferLengths(ls) ==
  [i \in DOMAIN ls |-> IF ls[i].kind = "transfer" THEN ls[i].length ELSE 0]

LEMMA LengthsAppended ==
  ASSUME NEW ls \in Seq(TranscriptLines), NEW line \in TranscriptLines
  PROVE  /\ Total(TransferLengths(ls)) \in Nat
         /\ Total(TransferLengths(Append(ls, line)))
              = Total(TransferLengths(ls))
                  + IF line.kind = "transfer" THEN line.length ELSE 0
<1> DEFINE n == Len(ls) + 1
           longer == Append(ls, line)
           s == TransferLengths(ls)
           t == TransferLengths(longer)
<1>1. /\ n \in Nat /\ longer \in Seq(TranscriptLines) /\ longer[n] = line
      /\ DOMAIN ls = 1 .. (n - 1) /\ DOMAIN longer = 1 .. n
      /\ \A i \in 1 .. (n - 1) : longer[i] = ls[i]
  BY AtAppended
<1> HIDE DEF n, longer
<1>2. \A i \in 1 .. n : longer[i] \in TranscriptLines
  BY <1>1, ElementOfSeq
<1>3. /\ s \in [1 .. (n - 1) -> Nat] /\ t \in [1 .. n -> Nat]
      /\ \A i \in 1 .. (n - 1) : t[i] = s[i]
      /\ t[n] = IF line.kind = "transfer" THEN line.length ELSE 0
  <2>1. \A i \in 1 .. n :
          /\ (IF longer[i].kind = "transfer" THEN longer[i].length ELSE 0) \in Nat
          /\ i < n => (IF ls[i].kind = "transfer" THEN ls[i].length ELSE 0) \in Nat
    BY <1>1, <1>2, LineFacts
  <2>2. /\ s = [i \in 1 .. (n - 1) |-> IF ls[i].kind = "transfer" THEN ls[i].length ELSE 0]
        /\ t = [i \in 1 .. n |-> IF longer[i].kind = "transfer" THEN longer[i].length ELSE 0]
    BY <1>1 DEF TransferLengths
  <2> HIDE DEF s, t
  <2>3. n \in 1 .. n /\ \A i \in 1 .. (n - 1) : i \in 1 .. n /\ i < n
    BY <1>1, LenProperties DEF n
  <2> QED
    BY <1>1, <2>1, <2>2, <2>3
<1> HIDE DEF s, t
<1>4. n \in Nat \ {0}
  BY LenProperties DEF n
<1>5. Total(t) = Total(s) + t[n] /\ Total(s) \in Nat
  BY <1>3, <1>4, TotalExtended
<1> QED
  BY <1>3, <1>5 DEF s, t, longer

\* What the grammar asks of one more line, in the terms of the lines so far.
FitsTranscript(ls, line) ==
  /\ line.kind \notin {"overlong", "unknown"}
  /\ line.kind = "header" <=> ls = <<>>
  /\ line.kind \in {"origin", "device"} => line.valid /\ At(ls, line.kind) = {}
  /\ line.kind \in {"interface", "transfer"} =>
       line.complete /\ line.valid /\ At(ls, "device") # {}
  /\ line.kind = "interface" => Cardinality(At(ls, "interface")) < MaxInterfaces
  /\ line.kind = "transfer" =>
       /\ line.length <= MaxObservedLength
       /\ line.sequence = Cardinality(At(ls, "transfer"))
       /\ Cardinality(At(ls, "transfer")) < MaxObservedTransfers

LEMMA FitIsViable ==
  ASSUME NEW ls \in Seq(TranscriptLines), NEW line \in TranscriptLines, ViableTranscript(ls)
  PROVE  ViableTranscript(Append(ls, line)) <=> FitsTranscript(ls, line)
<1> DEFINE n == Len(ls) + 1
           longer == Append(ls, line)
           new == {n}
<1>1. /\ n \in Nat \ {0} /\ longer \in Seq(TranscriptLines) /\ longer[n] = line
      /\ DOMAIN ls = 1 .. (n - 1) /\ DOMAIN longer = 1 .. n
      /\ \A i \in 1 .. (n - 1) : longer[i] = ls[i]
      /\ longer # <<>> /\ (ls = <<>> <=> n = 1)
  <2>1. ls = <<>> <=> n = 1
    BY EmptySeq, LenProperties
  <2>2. longer # <<>>
    BY AppendProperties
  <2> QED
    BY <2>1, <2>2, AtAppended
<1>2. ASSUME NEW kind
      PROVE  /\ At(ls, kind) \subseteq 1 .. (n - 1)
             /\ line.kind = kind => At(longer, kind) = At(ls, kind) \cup {n}
             /\ line.kind # kind => At(longer, kind) = At(ls, kind)
             /\ Cardinality(At(ls, kind)) \in Nat /\ IsFiniteSet(At(ls, kind))
             /\ line.kind = kind
                  => Cardinality(At(longer, kind)) = Cardinality(At(ls, kind)) + 1
  <2>1. /\ At(ls, kind) \subseteq 1 .. (n - 1)
        /\ Cardinality(At(ls, kind)) \in Nat /\ IsFiniteSet(At(ls, kind))
    BY AtAppended
  <2>2. CASE line.kind = kind
    BY AtAppended, <2>1, <2>2
  <2>3. CASE line.kind # kind
    BY AtAppended, <2>1, <2>3
  <2> QED
    BY <2>2, <2>3
<1>3. n \notin 1 .. (n - 1)
  BY <1>1
<1> HIDE DEF n, longer
\* The conjuncts of the grammar, one by one.
<1>4. /\ At(ls, "header") \subseteq {1} /\ (ls # <<>> => ls[1].kind = "header")
      /\ At(ls, "overlong") \cup At(ls, "unknown") = {}
      /\ \A k \in {"origin", "device"} : Cardinality(At(ls, k)) <= 1
      /\ \A i \in At(ls, "origin") \cup At(ls, "device") : ls[i].valid
      /\ \A i \in At(ls, "interface") \cup At(ls, "transfer") :
           ls[i].complete /\ ls[i].valid /\ \E j \in At(ls, "device") : j < i
      /\ \A i \in At(ls, "transfer") :
           /\ ls[i].length <= MaxObservedLength
           /\ ls[i].sequence = Cardinality({j \in At(ls, "transfer") : j < i})
      /\ Cardinality(At(ls, "interface")) <= MaxInterfaces
      /\ Cardinality(At(ls, "transfer")) <= MaxObservedTransfers
  BY DEF ViableTranscript
<1>5. (/\ At(longer, "header") \subseteq {1} /\ (longer # <<>> => longer[1].kind = "header"))
        <=> (line.kind = "header" <=> ls = <<>>)
  <2>1. CASE ls = <<>>
    <3>1. n = 1 /\ longer[1] = line /\ At(longer, "header") \subseteq 1 .. n
      BY <1>1, <2>1 DEF At
    <3> QED
      BY <1>1, <2>1, <3>1
  <2>2. CASE ls # <<>>
    <3>1. n # 1 /\ 1 \in 1 .. (n - 1) /\ longer[1] = ls[1]
      BY <1>1, <2>2
    <3> QED
      BY <1>1, <1>2, <1>4, <2>2, <3>1
  <2> QED
    BY <2>1, <2>2
<1>6. At(longer, "overlong") \cup At(longer, "unknown") = {}
        <=> line.kind \notin {"overlong", "unknown"}
  BY <1>2, <1>4
<1>7. ASSUME NEW k \in {"origin", "device"}
      PROVE  Cardinality(At(longer, k)) <= 1 <=> (line.kind = k => At(ls, k) = {})
  <2>1. Cardinality(At(ls, k)) = 0 <=> At(ls, k) = {}
    BY <1>2, FS_EmptySet
  <2> QED
    BY <1>2, <1>4, <2>1
<1>8. (\A i \in At(longer, "origin") \cup At(longer, "device") : longer[i].valid)
        <=> (line.kind \in {"origin", "device"} => line.valid)
  BY <1>1, <1>2, <1>4
<1>9. (\A i \in At(longer, "interface") \cup At(longer, "transfer") :
         longer[i].complete /\ longer[i].valid /\ \E j \in At(longer, "device") : j < i)
        <=> (line.kind \in {"interface", "transfer"} =>
               line.complete /\ line.valid /\ At(ls, "device") # {})
  <2>1. ASSUME NEW i \in At(ls, "interface") \cup At(ls, "transfer")
        PROVE  longer[i].complete /\ longer[i].valid /\ \E j \in At(longer, "device") : j < i
    BY <1>1, <1>2, <1>4
  <2>2. ASSUME line.kind \in {"interface", "transfer"}
        PROVE  (\E j \in At(longer, "device") : j < n) <=> At(ls, "device") # {}
    <3>1. At(longer, "device") = At(ls, "device")
      BY <1>2, <2>2
    <3>2. \A j \in At(ls, "device") : j < n
      BY <1>1, <1>2
    <3> QED
      BY <3>1, <3>2
  <2>3. \A i : i \in At(longer, "interface") \cup At(longer, "transfer")
                <=> \/ i \in At(ls, "interface") \cup At(ls, "transfer")
                    \/ i = n /\ line.kind \in {"interface", "transfer"}
    BY <1>2
  <2> QED
    BY <1>1, <2>1, <2>2, <2>3
<1>10. (\A i \in At(longer, "transfer") :
           /\ longer[i].length <= MaxObservedLength
           /\ longer[i].sequence = Cardinality({j \in At(longer, "transfer") : j < i}))
         <=> (line.kind = "transfer" => /\ line.length <= MaxObservedLength
                                        /\ line.sequence = Cardinality(At(ls, "transfer")))
  <2>1. ASSUME NEW i \in At(ls, "transfer")
        PROVE  /\ longer[i].length <= MaxObservedLength
               /\ longer[i].sequence = Cardinality({j \in At(longer, "transfer") : j < i})
    <3>1. {j \in At(longer, "transfer") : j < i} = {j \in At(ls, "transfer") : j < i}
      BY <1>1, <1>2
    <3>2. longer[i] = ls[i]
      BY <1>1, <1>2
    <3> QED
      BY <1>4, <3>1, <3>2
  <2>2. {j \in At(longer, "transfer") : j < n} = At(ls, "transfer")
    BY <1>1, <1>2
  <2>3. \A i : i \in At(longer, "transfer")
                <=> i \in At(ls, "transfer") \/ (i = n /\ line.kind = "transfer")
    BY <1>2
  <2> DEFINE Right(i) ==
        /\ longer[i].length <= MaxObservedLength
        /\ longer[i].sequence = Cardinality({j \in At(longer, "transfer") : j < i})
  <2>4. Right(n) <=> /\ line.length <= MaxObservedLength
                     /\ line.sequence = Cardinality(At(ls, "transfer"))
    BY <1>1, <2>2
  <2>5. \A i \in At(ls, "transfer") : Right(i)
    BY <2>1
  <2> HIDE DEF Right
  <2>6. (\A i \in At(longer, "transfer") : Right(i)) <=> (line.kind = "transfer" => Right(n))
    BY <2>3, <2>5
  <2> QED
    BY <2>4, <2>6 DEF Right
<1>11. /\ Cardinality(At(longer, "interface")) <= MaxInterfaces
            <=> (line.kind = "interface" => Cardinality(At(ls, "interface")) < MaxInterfaces)
       /\ Cardinality(At(longer, "transfer")) <= MaxObservedTransfers
            <=> (line.kind = "transfer"
                   => Cardinality(At(ls, "transfer")) < MaxObservedTransfers)
  BY <1>2, <1>4, TranscriptAssumption
<1>12. ViableTranscript(longer) <=>
         /\ (/\ At(longer, "header") \subseteq {1}
             /\ (longer # <<>> => longer[1].kind = "header"))
         /\ At(longer, "overlong") \cup At(longer, "unknown") = {}
         /\ \A k \in {"origin", "device"} : Cardinality(At(longer, k)) <= 1
         /\ \A i \in At(longer, "origin") \cup At(longer, "device") : longer[i].valid
         /\ \A i \in At(longer, "interface") \cup At(longer, "transfer") :
              longer[i].complete /\ longer[i].valid /\ \E j \in At(longer, "device") : j < i
         /\ \A i \in At(longer, "transfer") :
              /\ longer[i].length <= MaxObservedLength
              /\ longer[i].sequence = Cardinality({j \in At(longer, "transfer") : j < i})
         /\ Cardinality(At(longer, "interface")) <= MaxInterfaces
         /\ Cardinality(At(longer, "transfer")) <= MaxObservedTransfers
  BY DEF ViableTranscript
<1>13. FitsTranscript(ls, line) <=>
         /\ (line.kind = "header" <=> ls = <<>>)
         /\ line.kind \notin {"overlong", "unknown"}
         /\ \A k \in {"origin", "device"} : (line.kind = k => At(ls, k) = {})
         /\ (line.kind \in {"origin", "device"} => line.valid)
         /\ (line.kind \in {"interface", "transfer"} =>
               line.complete /\ line.valid /\ At(ls, "device") # {})
         /\ (line.kind = "transfer" => /\ line.length <= MaxObservedLength
                                        /\ line.sequence = Cardinality(At(ls, "transfer")))
         /\ (line.kind = "interface" => Cardinality(At(ls, "interface")) < MaxInterfaces)
         /\ (line.kind = "transfer"
                   => Cardinality(At(ls, "transfer")) < MaxObservedTransfers)
  BY DEF FitsTranscript
<1> QED
  BY <1>5, <1>6, <1>7, <1>8, <1>9, <1>10, <1>11, <1>12, <1>13 DEF longer

LEMMA SummaryFields ==
  ASSUME NEW ls \in Seq(TranscriptLines)
  PROVE  LET p == SummaryOf(ls)
         IN  /\ p.header <=> At(ls, "header") # {}
             /\ p.origin <=> At(ls, "origin") # {}
             /\ p.device <=> At(ls, "device") # {}
             /\ p.interfaces = Cardinality(At(ls, "interface"))
             /\ p.transfers = Cardinality(At(ls, "transfer"))
             /\ p.bytes = Total(TransferLengths(ls))
             /\ p.candidate <=> \E i \in At(ls, "interface") : ls[i].candidate
BY DEF SummaryOf, TransferLengths

\* The flags and counters are enough: what the parser asks of a line, of them,
\* is what the grammar asks of it.
LEMMA OutcomeIsFit ==
  ASSUME NEW ls \in Seq(TranscriptLines), NEW line \in TranscriptLines, ViableTranscript(ls)
  PROVE  TranscriptOutcome(SummaryOf(ls), line) = "ok" <=> FitsTranscript(ls, line)
<1> DEFINE p == SummaryOf(ls)
<1>1. /\ p.header <=> At(ls, "header") # {}
      /\ p.origin <=> At(ls, "origin") # {}
      /\ p.device <=> At(ls, "device") # {}
      /\ p.interfaces = Cardinality(At(ls, "interface"))
      /\ p.transfers = Cardinality(At(ls, "transfer"))
  BY SummaryFields
<1>2. p.header <=> ls # <<>>
  <2>1. ls # <<>> => 1 \in DOMAIN ls
    BY EmptySeq, LenProperties
  <2>2. ls = <<>> => DOMAIN ls = {}
    OBVIOUS
  <2>3. ls # <<>> => ls[1].kind = "header"
    BY DEF ViableTranscript
  <2> QED
    BY <1>1, <2>1, <2>2, <2>3 DEF At
<1>3. At(ls, "device") # {} => ls # <<>>
  BY DEF At
<1>4. /\ Cardinality(At(ls, "interface")) \in Nat
      /\ Cardinality(At(ls, "transfer")) \in Nat
  BY AtAppended
<1> HIDE DEF p
<1>5. CASE line.kind = "header"
  <2>1. TranscriptOutcome(p, line) = "ok" <=> ~p.header
    BY <1>5 DEF TranscriptOutcome
  <2>2. FitsTranscript(ls, line) <=> ls = <<>>
    BY <1>5 DEF FitsTranscript
  <2> QED
    BY <1>2, <2>1, <2>2 DEF p
<1>6. CASE line.kind \in {"origin", "device"}
  <2>1. FitsTranscript(ls, line) <=> ls # <<>> /\ line.valid /\ At(ls, line.kind) = {}
    BY <1>6 DEF FitsTranscript
  <2>2. CASE line.kind = "origin"
    <3>1. TranscriptOutcome(p, line) = "ok" <=> p.header /\ ~p.origin /\ line.valid
      BY <2>2 DEF TranscriptOutcome
    <3> QED
      BY <1>1, <1>2, <2>1, <2>2, <3>1 DEF p
  <2>3. CASE line.kind = "device"
    <3>1. TranscriptOutcome(p, line) = "ok" <=> p.header /\ ~p.device /\ line.valid
      BY <2>3 DEF TranscriptOutcome
    <3> QED
      BY <1>1, <1>2, <2>1, <2>3, <3>1 DEF p
  <2> QED
    BY <1>6, <2>2, <2>3
<1>7. CASE line.kind = "interface"
  <2>1. TranscriptOutcome(p, line) = "ok"
          <=> p.header /\ InterfaceOutcome(p, line) = "ok"
    BY <1>7 DEF TranscriptOutcome
  <2>2. InterfaceOutcome(p, line) = "ok"
          <=> line.complete /\ p.device /\ ~(p.interfaces >= MaxInterfaces) /\ line.valid
    BY DEF InterfaceOutcome
  <2>3. ~(p.interfaces >= MaxInterfaces) <=> p.interfaces < MaxInterfaces
    BY <1>1, <1>4, TranscriptAssumption
  <2>4. FitsTranscript(ls, line)
          <=> /\ ls # <<>> /\ line.complete /\ line.valid /\ At(ls, "device") # {}
              /\ Cardinality(At(ls, "interface")) < MaxInterfaces
    BY <1>7 DEF FitsTranscript
  <2> QED
    BY <1>1, <1>2, <1>3, <2>1, <2>2, <2>3, <2>4 DEF p
<1>8. CASE line.kind = "transfer"
  <2>1. TranscriptOutcome(p, line) = "ok"
          <=> p.header /\ MetadataOutcome(p, line) = "ok"
    BY <1>8 DEF TranscriptOutcome
  <2>2. MetadataOutcome(p, line) = "ok"
          <=> /\ line.complete /\ p.device /\ line.valid /\ line.sequence = p.transfers
              /\ ~(line.length > MaxObservedLength)
              /\ ~(p.transfers >= MaxObservedTransfers)
    BY DEF MetadataOutcome
  <2>3. /\ ~(p.transfers >= MaxObservedTransfers) <=> p.transfers < MaxObservedTransfers
        /\ ~(line.length > MaxObservedLength) <=> line.length <= MaxObservedLength
    BY <1>1, <1>4, <1>8, LineFacts, TranscriptAssumption
  <2>4. FitsTranscript(ls, line)
          <=> /\ ls # <<>> /\ line.complete /\ line.valid /\ At(ls, "device") # {}
              /\ line.length <= MaxObservedLength
              /\ line.sequence = Cardinality(At(ls, "transfer"))
              /\ Cardinality(At(ls, "transfer")) < MaxObservedTransfers
    BY <1>8 DEF FitsTranscript
  <2> QED
    BY <1>1, <1>2, <1>3, <2>1, <2>2, <2>3, <2>4 DEF p
<1>9. CASE line.kind \in {"unknown", "overlong"}
  BY <1>9 DEF TranscriptOutcome, FitsTranscript
<1> QED
  BY <1>5, <1>6, <1>7, <1>8, <1>9, LineFacts DEF p

\* What the parser counts is what the lines say.
LEMMA SummaryStep ==
  ASSUME NEW ls \in Seq(TranscriptLines), NEW line \in TranscriptLines,
         line.kind \in {"header", "origin", "device", "interface", "transfer"}
  PROVE  WithTranscriptLine(SummaryOf(ls), line) = SummaryOf(Append(ls, line))
<1> DEFINE n == Len(ls) + 1
           longer == Append(ls, line)
           p == SummaryOf(ls)
           q == SummaryOf(longer)
<1>1. /\ n \in Nat \ {0} /\ longer[n] = line
      /\ \A i \in 1 .. (n - 1) : longer[i] = ls[i] /\ n \notin 1 .. (n - 1)
  BY AtAppended
<1>2. ASSUME NEW kind
      PROVE  /\ At(ls, kind) \subseteq 1 .. (n - 1)
             /\ line.kind = kind => /\ At(longer, kind) = At(ls, kind) \cup {n}
                                    /\ Cardinality(At(longer, kind))
                                         = Cardinality(At(ls, kind)) + 1
             /\ line.kind # kind => At(longer, kind) = At(ls, kind)
  <2>1. CASE line.kind = kind
    BY AtAppended, <2>1
  <2>2. CASE line.kind # kind
    BY AtAppended, <2>2
  <2> QED
    BY <2>1, <2>2
<1>3. Total(TransferLengths(longer))
        = Total(TransferLengths(ls)) + (IF line.kind = "transfer" THEN line.length ELSE 0)
      /\ Total(TransferLengths(ls)) \in Nat
  BY LengthsAppended
<1> DEFINE Some(l) == \E i \in At(l, "interface") : l[i].candidate
           Has(l, k) == At(l, k) # {}
<1>4. /\ p = [header |-> Has(ls, "header"), origin |-> Has(ls, "origin"),
              device |-> Has(ls, "device"),
              interfaces |-> Cardinality(At(ls, "interface")),
              transfers |-> Cardinality(At(ls, "transfer")),
              bytes |-> Total(TransferLengths(ls)), candidate |-> Some(ls)]
      /\ q = [header |-> Has(longer, "header"), origin |-> Has(longer, "origin"),
              device |-> Has(longer, "device"),
              interfaces |-> Cardinality(At(longer, "interface")),
              transfers |-> Cardinality(At(longer, "transfer")),
              bytes |-> Total(TransferLengths(longer)), candidate |-> Some(longer)]
  BY DEF SummaryOf, TransferLengths
<1>5. Some(longer) = IF line.kind = "interface" THEN Some(ls) \/ line.candidate ELSE Some(ls)
  <2>1. CASE line.kind = "interface"
    <3>1. Some(longer) <=> (Some(ls) \/ line.candidate)
      BY <1>1, <1>2, <2>1
    <3>2. Some(longer) \in BOOLEAN /\ (Some(ls) \/ line.candidate) \in BOOLEAN
      OBVIOUS
    <3> HIDE DEF Some
    <3> QED
      BY <2>1, <3>1, <3>2
  <2>2. CASE line.kind # "interface"
    <3>1. Some(longer) <=> Some(ls)
      BY <1>1, <1>2, <2>2
    <3>2. Some(longer) \in BOOLEAN /\ Some(ls) \in BOOLEAN
      OBVIOUS
    <3> HIDE DEF Some
    <3> QED
      BY <2>2, <3>1, <3>2
  <2> QED
    BY <2>1, <2>2
<1>6. ASSUME NEW k
      PROVE  Has(longer, k) = IF line.kind = k THEN TRUE ELSE Has(ls, k)
  <2>1. line.kind = k => (Has(longer, k) <=> TRUE)
    BY <1>2
  <2>2. line.kind # k => Has(longer, k) = Has(ls, k)
    BY <1>2
  <2>3. Has(longer, k) \in BOOLEAN
    OBVIOUS
  <2> HIDE DEF Has
  <2> QED
    BY <2>1, <2>2, <2>3
<1> HIDE DEF n, longer, p, q, Some, Has
<1>7. SUFFICES WithTranscriptLine(p, line) = q
  BY DEF p, q, longer
<1>8. CASE line.kind = "header"
  <2>1. /\ Has(longer, "header") = TRUE
        /\ Has(longer, "origin") = Has(ls, "origin")
        /\ Has(longer, "device") = Has(ls, "device")
    BY <1>6, <1>8
  <2>2. /\ Cardinality(At(longer, "interface")) = Cardinality(At(ls, "interface"))
        /\ Cardinality(At(longer, "transfer")) = Cardinality(At(ls, "transfer"))
    BY <1>2, <1>8
  <2>3. /\ Total(TransferLengths(longer)) = Total(TransferLengths(ls))
        /\ Some(longer) = Some(ls)
    BY <1>3, <1>5, <1>8
  <2>4. WithTranscriptLine(p, line) = [p EXCEPT !.header = TRUE]
    BY <1>8 DEF WithTranscriptLine
  <2> QED
    BY <1>4, <2>1, <2>2, <2>3, <2>4
<1>9. CASE line.kind = "origin"
  <2>1. /\ Has(longer, "header") = Has(ls, "header")
        /\ Has(longer, "origin") = TRUE
        /\ Has(longer, "device") = Has(ls, "device")
    BY <1>6, <1>9
  <2>2. /\ Cardinality(At(longer, "interface")) = Cardinality(At(ls, "interface"))
        /\ Cardinality(At(longer, "transfer")) = Cardinality(At(ls, "transfer"))
    BY <1>2, <1>9
  <2>3. /\ Total(TransferLengths(longer)) = Total(TransferLengths(ls))
        /\ Some(longer) = Some(ls)
    BY <1>3, <1>5, <1>9
  <2>4. WithTranscriptLine(p, line) = [p EXCEPT !.origin = TRUE]
    BY <1>9 DEF WithTranscriptLine
  <2> QED
    BY <1>4, <2>1, <2>2, <2>3, <2>4
<1>10. CASE line.kind = "device"
  <2>1. /\ Has(longer, "header") = Has(ls, "header")
        /\ Has(longer, "origin") = Has(ls, "origin")
        /\ Has(longer, "device") = TRUE
    BY <1>6, <1>10
  <2>2. /\ Cardinality(At(longer, "interface")) = Cardinality(At(ls, "interface"))
        /\ Cardinality(At(longer, "transfer")) = Cardinality(At(ls, "transfer"))
    BY <1>2, <1>10
  <2>3. /\ Total(TransferLengths(longer)) = Total(TransferLengths(ls))
        /\ Some(longer) = Some(ls)
    BY <1>3, <1>5, <1>10
  <2>4. WithTranscriptLine(p, line) = [p EXCEPT !.device = TRUE]
    BY <1>10 DEF WithTranscriptLine
  <2> QED
    BY <1>4, <2>1, <2>2, <2>3, <2>4
<1>11. CASE line.kind = "interface"
  <2>1. /\ Has(longer, "header") = Has(ls, "header")
        /\ Has(longer, "origin") = Has(ls, "origin")
        /\ Has(longer, "device") = Has(ls, "device")
    BY <1>6, <1>11
  <2>2. /\ Cardinality(At(longer, "interface")) = Cardinality(At(ls, "interface")) + 1
        /\ Cardinality(At(longer, "transfer")) = Cardinality(At(ls, "transfer"))
    BY <1>2, <1>11
  <2>3. /\ Total(TransferLengths(longer)) = Total(TransferLengths(ls))
        /\ Some(longer) = (Some(ls) \/ line.candidate)
    BY <1>3, <1>5, <1>11
  <2>4. WithTranscriptLine(p, line) = [p EXCEPT !.interfaces = @ + 1, !.candidate = @ \/ line.candidate]
    BY <1>11 DEF WithTranscriptLine
  <2> QED
    BY <1>4, <2>1, <2>2, <2>3, <2>4
<1>12. CASE line.kind = "transfer"
  <2>1. /\ Has(longer, "header") = Has(ls, "header")
        /\ Has(longer, "origin") = Has(ls, "origin")
        /\ Has(longer, "device") = Has(ls, "device")
    BY <1>6, <1>12
  <2>2. /\ Cardinality(At(longer, "interface")) = Cardinality(At(ls, "interface"))
        /\ Cardinality(At(longer, "transfer")) = Cardinality(At(ls, "transfer")) + 1
    BY <1>2, <1>12
  <2>3. /\ Total(TransferLengths(longer)) = Total(TransferLengths(ls)) + line.length
        /\ Some(longer) = Some(ls)
    BY <1>3, <1>5, <1>12
  <2>4. WithTranscriptLine(p, line) = [p EXCEPT !.transfers = @ + 1, !.bytes = @ + line.length]
    BY <1>12 DEF WithTranscriptLine
  <2> QED
    BY <1>4, <2>1, <2>2, <2>3, <2>4
<1> QED
  BY <1>8, <1>9, <1>10, <1>11, <1>12

LEMMA RequiredIsComplete ==
  ASSUME NEW ls \in Seq(TranscriptLines), ViableTranscript(ls)
  PROVE  Required(SummaryOf(ls)) <=> CompleteTranscript(ls)
<1>1. Cardinality(At(ls, "interface")) # 0 <=> At(ls, "interface") # {}
  <2>1. IsFiniteSet(At(ls, "interface"))
    <3>1. IsFiniteSet(1 .. Len(ls)) /\ At(ls, "interface") \subseteq 1 .. Len(ls)
      BY Interval, LenProperties DEF At
    <3> QED
      BY <3>1, FS_Subset
  <2> QED
    BY <2>1, FS_EmptySet
<1>2. Required(SummaryOf(ls))
        <=> /\ At(ls, "header") # {} /\ At(ls, "origin") # {} /\ At(ls, "device") # {}
            /\ Cardinality(At(ls, "interface")) # 0
  BY SummaryFields DEF Required
<1> QED
  BY <1>1, <1>2 DEF CompleteTranscript

LEMMA NoLines ==
  /\ <<>> \in Seq(TranscriptLines) /\ ViableTranscript(<<>>)
  /\ SummaryOf(<<>>) = Nothing
<1>1. \A kind : At(<<>>, kind) = {}
  BY DEF At
<1>2. TransferLengths(<<>>) = <<>>
  BY DEF TransferLengths
<1>3. Total(TransferLengths(<<>>)) = 0
  BY <1>2, TotalOfNothing
<1>4. Cardinality({}) = 0
  BY FS_EmptySet
<1>5. ViableTranscript(<<>>)
  <2>1. /\ At(<<>>, "header") = {} /\ At(<<>>, "origin") = {} /\ At(<<>>, "device") = {}
        /\ At(<<>>, "interface") = {} /\ At(<<>>, "transfer") = {}
        /\ At(<<>>, "overlong") = {} /\ At(<<>>, "unknown") = {}
    BY <1>1
  <2>2. 0 <= 1 /\ 0 <= MaxInterfaces /\ 0 <= MaxObservedTransfers
    BY TranscriptAssumption
  <2> QED
    BY <1>4, <2>1, <2>2 DEF ViableTranscript
<1> DEFINE Some == \E i \in At(<<>>, "interface") : <<>>[i].candidate
           Has(kind) == At(<<>>, kind) # {}
<1>6. SummaryOf(<<>>)
        = [header |-> Has("header"), origin |-> Has("origin"),
           device |-> Has("device"), interfaces |-> Cardinality(At(<<>>, "interface")),
           transfers |-> Cardinality(At(<<>>, "transfer")),
           bytes |-> Total(TransferLengths(<<>>)), candidate |-> Some]
  BY DEF SummaryOf, TransferLengths
<1>7. Some = FALSE
  BY <1>1
<1>8. \A kind : Has(kind) = FALSE
  BY <1>1
<1>9. /\ Cardinality(At(<<>>, "interface")) = 0
      /\ Cardinality(At(<<>>, "transfer")) = 0
  BY <1>1, <1>4
<1> HIDE DEF Some, Has
<1>10. SummaryOf(<<>>) = Nothing
  BY <1>3, <1>6, <1>7, <1>8, <1>9 DEF Nothing
<1> QED
  BY <1>5, <1>10

TranscriptInv ==
  /\ accepted \in Seq(TranscriptLines)
  /\ verdict \in {"reading", "ok"} => /\ parsed = SummaryOf(accepted)
                                      /\ ViableTranscript(accepted)
  /\ verdict = "ok" => CompleteTranscript(accepted)
  /\ printed = IF verdict = "ok" THEN SummaryOf(accepted) ELSE Nothing

LEMMA InitTranscriptInv == TranscriptInit => TranscriptInv
BY NoLines DEF TranscriptInit, TranscriptInv

LEMMA TranscriptOutcomes ==
  ASSUME NEW p, NEW line
  PROVE  TranscriptOutcome(p, line) \in {"ok", "format-error", "bounds-error"}
<1>1. InterfaceOutcome(p, line) \in {"ok", "format-error", "bounds-error"}
  BY DEF InterfaceOutcome
<1>2. MetadataOutcome(p, line) \in {"ok", "format-error", "bounds-error"}
  BY DEF MetadataOutcome
<1> QED
  BY <1>1, <1>2 DEF TranscriptOutcome

LEMMA NextTranscriptInv ==
  TranscriptInv /\ (TranscriptNext \/ UNCHANGED transcriptVars) => TranscriptInv'
<1> SUFFICES ASSUME TranscriptInv, TranscriptNext \/ UNCHANGED transcriptVars
             PROVE  TranscriptInv'
  OBVIOUS
<1>1. ASSUME NEW refusal \in {"format-error", "bounds-error", "io-error"},
             verdict = "reading", RefuseTranscript(refusal)
      PROVE  TranscriptInv'
  <2>1. verdict' \notin {"reading", "ok"} /\ accepted' = <<>> /\ printed' = printed
    BY <1>1 DEF RefuseTranscript
  <2>2. printed = Nothing
    BY <1>1 DEF TranscriptInv
  <2> QED
    BY <2>1, <2>2, NoLines DEF TranscriptInv
<1>2. ASSUME NEW line \in TranscriptLines, ReadTranscriptLine(line)
      PROVE  TranscriptInv'
  <2>1. verdict = "reading" /\ parsed = SummaryOf(accepted) /\ ViableTranscript(accepted)
        /\ accepted \in Seq(TranscriptLines) /\ printed = Nothing
    BY <1>2 DEF ReadTranscriptLine, TranscriptInv
  <2>2. CASE TranscriptOutcome(parsed, line) = "ok"
    <3>1. /\ verdict' = "reading" /\ printed' = Nothing
          /\ accepted' = Append(accepted, line)
          /\ parsed' = WithTranscriptLine(parsed, line)
      BY <1>2, <2>1, <2>2 DEF ReadTranscriptLine
    <3>2. FitsTranscript(accepted, line)
      BY <2>1, <2>2, OutcomeIsFit
    <3>3. line.kind \in {"header", "origin", "device", "interface", "transfer"}
      BY <3>2, LineFacts DEF FitsTranscript
    <3>4. ViableTranscript(accepted') /\ parsed' = SummaryOf(accepted')
      BY <2>1, <3>1, <3>2, <3>3, FitIsViable, SummaryStep
    <3>5. accepted' \in Seq(TranscriptLines)
      BY <2>1, <3>1, AppendProperties
    <3> QED
      BY <3>1, <3>4, <3>5 DEF TranscriptInv
  <2>3. CASE TranscriptOutcome(parsed, line) # "ok"
    <3>1. TranscriptOutcome(parsed, line) \in {"format-error", "bounds-error", "io-error"}
      BY <2>3, TranscriptOutcomes
    <3>2. RefuseTranscript(TranscriptOutcome(parsed, line))
      BY <1>2, <2>3 DEF ReadTranscriptLine
    <3> QED
      BY <1>1, <2>1, <3>1, <3>2
  <2> QED
    BY <2>2, <2>3
<1>3. CASE TranscriptReadFails
  BY <1>1, <1>3 DEF TranscriptReadFails
<1>4. CASE EndOfTranscript
  <2>1. verdict = "reading" /\ parsed = SummaryOf(accepted) /\ ViableTranscript(accepted)
        /\ accepted \in Seq(TranscriptLines)
    BY <1>4 DEF EndOfTranscript, TranscriptInv
  <2>2. CASE Required(parsed)
    <3>1. /\ verdict' = "ok" /\ printed' = parsed
          /\ parsed' = parsed /\ accepted' = accepted
      BY <1>4, <2>2 DEF EndOfTranscript
    <3>2. CompleteTranscript(accepted)
      BY <2>1, <2>2, RequiredIsComplete
    <3> QED
      BY <2>1, <3>1, <3>2 DEF TranscriptInv
  <2>3. CASE ~Required(parsed)
    BY <1>1, <1>4, <2>1, <2>3 DEF EndOfTranscript
  <2> QED
    BY <2>2, <2>3
<1>5. CASE UNCHANGED transcriptVars
  BY <1>5 DEF transcriptVars, TranscriptInv
<1> QED
  BY <1>2, <1>3, <1>4, <1>5 DEF TranscriptNext

\* The transcript parser reads on exactly while the lines so far can begin a
\* transcript, accepts exactly the complete ones, and prints exactly then, and
\* what the whole text says: for all limits, and transcripts of any length.
THEOREM TranscriptsAlwaysParsed == CheckersSpec => []TranscriptsAreParsed
<1>1. CheckersInit => TranscriptInv
  BY InitTranscriptInv DEF CheckersInit
<1>2. TranscriptInv /\ [ActivationCheck \/ TranscriptCheck]_checkerVars => TranscriptInv'
  BY NextTranscriptInv DEF ActivationCheck, TranscriptCheck, checkerVars
<1>3. TranscriptInv => TranscriptsAreParsed
  <2> SUFFICES ASSUME TranscriptInv PROVE TranscriptsAreParsed
    OBVIOUS
  <2>1. ASSUME verdict = "reading"
        PROVE  /\ ViableTranscript(accepted)
               /\ \A line \in TranscriptLines :
                    TranscriptOutcome(parsed, line) = "ok"
                      <=> ViableTranscript(Append(accepted, line))
               /\ Required(parsed) <=> CompleteTranscript(accepted)
    <3>1. accepted \in Seq(TranscriptLines) /\ parsed = SummaryOf(accepted)
          /\ ViableTranscript(accepted)
      BY <2>1 DEF TranscriptInv
    <3>2. ASSUME NEW line \in TranscriptLines
          PROVE  TranscriptOutcome(parsed, line) = "ok"
                   <=> ViableTranscript(Append(accepted, line))
      BY <3>1, OutcomeIsFit, FitIsViable
    <3> QED
      BY <3>1, <3>2, RequiredIsComplete
  <2> QED
    BY <2>1 DEF TranscriptInv, TranscriptsAreParsed
<1> QED
  BY <1>1, <1>2, <1>3, PTL DEF CheckersSpec
-----------------------------------------------------------------------------
(* Activation envelopes.                                                   *)

EventLines == {line \in Lines : line.kind = "event"}

LEMMA MarkerNames ==
  /\ DOMAIN Markers = 1 .. 4 /\ Len(Markers) = 4
  /\ Markers[1] = "capture-start" /\ Markers[2] = "action-issued"
  /\ Markers[3] = "output-stable" /\ Markers[4] = "capture-end"
  /\ \A e : \A j, k \in 1 .. 4 : Is(e, Markers[j]) /\ Is(e, Markers[k]) => j = k
BY DEF Markers, Is

LEMMA EventFacts ==
  ASSUME NEW e \in EventLines
  PROVE  /\ e \in Lines /\ e.kind = "event" /\ e.sequence \in Nat /\ e.time \in Nat
         /\ e.value.type \in {"malformed", "marker", "transfer"}
         /\ IsTransfer(e) => e.value.length \in Nat
<1>1. e \in [kind : {"event"}, sequence : Nat, time : Nat, value : EventValues]
  BY LinesAssumption DEF EventLines, Preamble
<1>2. e.value \in EventValues
  BY <1>1
<1>3. e.value.type \in {"malformed", "marker", "transfer"}
  BY <1>2 DEF EventValues
<1>4. IsTransfer(e) => e.value.length \in Nat
  BY <1>2 DEF EventValues, IsTransfer
<1> QED
  BY <1>1, <1>3, <1>4 DEF EventLines

\* The list with one more event.
LEMMA EventAppended ==
  ASSUME NEW es \in Seq(EventLines), NEW e \in EventLines
  PROVE  LET n == Len(es) + 1
             longer == Append(es, e)
         IN  /\ n \in Nat \ {0} /\ longer \in Seq(EventLines) /\ longer[n] = e
             /\ DOMAIN es = 1 .. (n - 1) /\ DOMAIN longer = 1 .. n /\ Len(longer) = n
             /\ \A i \in 1 .. (n - 1) :
                  /\ longer[i] = es[i] /\ es[i] \in EventLines /\ i < n /\ i \in 1 .. n
             /\ n \notin 1 .. (n - 1) /\ n \in 1 .. n
<1> DEFINE n == Len(es) + 1
           longer == Append(es, e)
<1>1. Len(es) \in Nat
  BY LenProperties
<1>2. /\ longer \in Seq(EventLines) /\ longer[n] = e
      /\ DOMAIN es = 1 .. Len(es) /\ DOMAIN longer = 1 .. Len(longer) /\ Len(longer) = n
      /\ \A i \in 1 .. Len(es) : longer[i] = es[i]
  BY AppendProperties, LenProperties
<1>3. \A i \in 1 .. Len(es) : es[i] \in EventLines
  BY ElementOfSeq
<1>4. Len(es) = n - 1 /\ n \in Nat \ {0}
  BY <1>1
<1> HIDE DEF n, longer
<1> QED
  BY <1>2, <1>3, <1>4 DEF n, longer

\* What it does to the positions of a marker,
LEMMA WhereAppended ==
  ASSUME NEW es \in Seq(EventLines), NEW e \in EventLines, NEW marker
  PROVE  LET n == Len(es) + 1
             longer == Append(es, e)
         IN  /\ Where(es, marker) \subseteq 1 .. (n - 1)
             /\ Is(e, marker) => Where(longer, marker) = Where(es, marker) \cup {n}
             /\ ~Is(e, marker) => Where(longer, marker) = Where(es, marker)
<1> DEFINE n == Len(es) + 1
           longer == Append(es, e)
<1>1. /\ n \in Nat \ {0} /\ longer[n] = e
      /\ DOMAIN es = 1 .. (n - 1) /\ DOMAIN longer = 1 .. n
      /\ \A i \in 1 .. (n - 1) : longer[i] = es[i]
  BY EventAppended
<1> HIDE DEF n, longer
<1>2. \A i : i \in Where(longer, marker)
               <=> i \in Where(es, marker) \/ (i = n /\ Is(e, marker))
  BY <1>1 DEF Where, Is
<1>3. Where(es, marker) \subseteq 1 .. (n - 1)
  BY <1>1 DEF Where
<1> QED
  BY <1>2, <1>3 DEF n, longer

\* and to the positions between two markers, when it is neither.
LEMMA BetweenAppended ==
  ASSUME NEW es \in Seq(EventLines), NEW e \in EventLines, NEW first, NEW last
  PROVE  LET n == Len(es) + 1
             longer == Append(es, e)
         IN  /\ \A i \in 1 .. (n - 1) :
                  i \in Between(longer, first, last) <=> i \in Between(es, first, last)
             /\ ~Is(e, first) /\ ~Is(e, last) =>
                  (n \in Between(longer, first, last)
                     <=> Where(es, first) # {} /\ Where(es, last) = {})
             /\ Between(longer, first, last) \subseteq 1 .. n
             /\ Between(es, first, last) \subseteq 1 .. (n - 1)
<1> DEFINE n == Len(es) + 1
           longer == Append(es, e)
<1>1. /\ n \in Nat \ {0} /\ longer[n] = e
      /\ DOMAIN es = 1 .. (n - 1) /\ DOMAIN longer = 1 .. n
      /\ \A i \in 1 .. (n - 1) : i < n /\ i \in 1 .. n /\ ~(n < i)
      /\ n \in 1 .. n /\ ~(n < n)
  BY EventAppended
<1>2. \A marker :
        /\ Where(es, marker) \subseteq 1 .. (n - 1)
        /\ \A i : i \in Where(longer, marker)
                    <=> i \in Where(es, marker) \/ (i = n /\ Is(e, marker))
  <2> TAKE marker
  <2>1. CASE Is(e, marker)
    BY WhereAppended, <2>1
  <2>2. CASE ~Is(e, marker)
    BY WhereAppended, <2>2
  <2> QED
    BY <2>1, <2>2
<1> HIDE DEF n, longer
<1>3. ASSUME NEW i \in 1 .. (n - 1)
      PROVE  i \in Between(longer, first, last) <=> i \in Between(es, first, last)
  BY <1>1, <1>2 DEF Between
<1>4. ASSUME ~Is(e, first), ~Is(e, last)
      PROVE  n \in Between(longer, first, last)
               <=> Where(es, first) # {} /\ Where(es, last) = {}
  BY <1>1, <1>2, <1>4 DEF Between
<1>5. /\ Between(longer, first, last) \subseteq 1 .. n
      /\ Between(es, first, last) \subseteq 1 .. (n - 1)
  BY <1>1 DEF Between
<1> QED
  BY <1>3, <1>4, <1>5 DEF n, longer

\* The window is open: its transfers are counted.
Open(es) == Where(es, "action-issued") # {} /\ Where(es, "output-stable") = {}

LEMMA WindowAppended ==
  ASSUME NEW es \in Seq(EventLines), NEW e \in EventLines
  PROVE  LET n == Len(es) + 1
             longer == Append(es, e)
         IN  /\ Window(es) \subseteq 1 .. (n - 1) /\ Window(longer) \subseteq 1 .. n
             /\ \A i \in 1 .. (n - 1) : i \in Window(longer) <=> i \in Window(es)
             /\ n \in Window(longer) <=> IsTransfer(e) /\ Open(es)
<1> DEFINE n == Len(es) + 1
           longer == Append(es, e)
           B == Between(es, "action-issued", "output-stable")
           C == Between(longer, "action-issued", "output-stable")
<1>1. /\ longer[n] = e /\ \A i \in 1 .. (n - 1) : longer[i] = es[i]
  BY EventAppended
<1>2. B \subseteq 1 .. (n - 1) /\ C \subseteq 1 .. n
      /\ \A i \in 1 .. (n - 1) : i \in C <=> i \in B
  BY BetweenAppended
<1>3. IsTransfer(e) => (n \in C <=> Open(es))
  BY BetweenAppended DEF IsTransfer, Is, Open
<1> HIDE DEF n, longer, B, C
<1>4. Window(es) = {i \in B : IsTransfer(es[i])} /\ Window(longer) = {i \in C : IsTransfer(longer[i])}
  BY DEF Window, B, C
<1>5. \A i \in 1 .. (n - 1) : i \in Window(longer) <=> i \in Window(es)
  BY <1>1, <1>2, <1>4
<1>6. n \in Window(longer) <=> IsTransfer(e) /\ Open(es)
  BY <1>1, <1>3, <1>4
<1>7. Window(es) \subseteq 1 .. (n - 1) /\ Window(longer) \subseteq 1 .. n
  BY <1>2, <1>4
<1> QED
  BY <1>5, <1>6, <1>7 DEF n, longer

\* The lengths of the transfers at some positions, in the form that Total()
\* takes.
LengthsAt(es, P) == [i \in DOMAIN es |-> IF i \in P THEN es[i].value.length ELSE 0]

LEMMA BytesAreTotals == ASSUME NEW es, NEW P PROVE Bytes(es, P) = Total(LengthsAt(es, P))
BY DEF Bytes, LengthsAt

LEMMA LengthsType ==
  ASSUME NEW n \in Nat, NEW es, DOMAIN es = 1 .. n, \A i \in 1 .. n : es[i] \in EventLines,
         NEW P, \A i \in P : IsTransfer(es[i])
  PROVE  /\ LengthsAt(es, P) \in [1 .. n -> Nat]
         /\ \A i \in 1 .. n : /\ i \in P => LengthsAt(es, P)[i] = es[i].value.length
                              /\ i \notin P => LengthsAt(es, P)[i] = 0
<1>1. \A i \in 1 .. n : i \in P => es[i].value.length \in Nat
  BY EventFacts
<1>2. \A i \in 1 .. n : (IF i \in P THEN es[i].value.length ELSE 0) \in Nat
  BY <1>1
<1>3. LengthsAt(es, P) = [i \in 1 .. n |-> IF i \in P THEN es[i].value.length ELSE 0]
  BY DEF LengthsAt
<1>4. LengthsAt(es, P) \in [1 .. n -> Nat]
  BY <1>2, <1>3
<1> QED
  BY <1>3, <1>4

LEMMA WindowCounts ==
  ASSUME NEW es \in Seq(EventLines), NEW e \in EventLines
  PROVE  LET longer == Append(es, e)
             counted == IsTransfer(e) /\ Open(es)
         IN  /\ Bytes(es, Window(es)) \in Nat /\ Cardinality(Window(es)) \in Nat
             /\ counted => /\ Bytes(longer, Window(longer))
                                = Bytes(es, Window(es)) + e.value.length
                           /\ Cardinality(Window(longer)) = Cardinality(Window(es)) + 1
             /\ ~counted => /\ Bytes(longer, Window(longer)) = Bytes(es, Window(es))
                            /\ Cardinality(Window(longer)) = Cardinality(Window(es))
<1> DEFINE n == Len(es) + 1
           longer == Append(es, e)
           counted == IsTransfer(e) /\ Open(es)
           V == Window(es)
           W == Window(longer)
           s == LengthsAt(es, V)
           t == LengthsAt(longer, W)
<1>1. /\ n \in Nat \ {0} /\ longer[n] = e
      /\ DOMAIN es = 1 .. (n - 1) /\ DOMAIN longer = 1 .. n
      /\ \A i \in 1 .. (n - 1) : /\ longer[i] = es[i] /\ es[i] \in EventLines
                                 /\ i < n /\ i \in 1 .. n
      /\ n \notin 1 .. (n - 1) /\ n \in 1 .. n
  BY EventAppended
<1>2. /\ V \subseteq 1 .. (n - 1) /\ W \subseteq 1 .. n
      /\ \A i \in 1 .. (n - 1) : i \in W <=> i \in V
      /\ n \in W <=> counted
  BY WindowAppended
<1>3. /\ \A i \in V : IsTransfer(es[i])
      /\ \A i \in W : IsTransfer(longer[i])
  BY DEF Window
<1> HIDE DEF n, longer, counted, V, W
<1>4. \A i \in 1 .. n : i \in 1 .. (n - 1) \/ i = n
  BY <1>1
<1>5. \A i \in 1 .. n : longer[i] \in EventLines
  BY <1>1, <1>4
<1>6. /\ s \in [1 .. (n - 1) -> Nat] /\ t \in [1 .. n -> Nat]
      /\ \A i \in 1 .. (n - 1) : t[i] = s[i]
      /\ counted => t[n] = e.value.length
      /\ ~counted => t[n] = 0
  <2>1. n - 1 \in Nat /\ n \in Nat
    BY <1>1
  <2>2. /\ s \in [1 .. (n - 1) -> Nat]
        /\ \A i \in 1 .. (n - 1) : /\ i \in V => s[i] = es[i].value.length
                                   /\ i \notin V => s[i] = 0
    BY <1>1, <1>3, <2>1, LengthsType
  <2>3. /\ t \in [1 .. n -> Nat]
        /\ \A i \in 1 .. n : /\ i \in W => t[i] = longer[i].value.length
                             /\ i \notin W => t[i] = 0
    BY <1>1, <1>3, <1>5, <2>1, LengthsType
  <2> HIDE DEF s, t
  <2>4. \A i \in 1 .. (n - 1) : t[i] = s[i]
    BY <1>1, <1>2, <2>2, <2>3
  <2>5. (counted => t[n] = e.value.length) /\ (~counted => t[n] = 0)
    BY <1>1, <1>2, <2>3
  <2> QED
    BY <2>2, <2>3, <2>4, <2>5
<1> HIDE DEF s, t
<1>7. Total(t) = Total(s) + t[n] /\ Total(s) \in Nat
  BY <1>1, <1>6, TotalExtended
<1>8. /\ counted => Total(t) = Total(s) + e.value.length
      /\ ~counted => Total(t) = Total(s)
  BY <1>6, <1>7
<1>9. Bytes(es, V) = Total(s) /\ Bytes(longer, W) = Total(t)
  BY BytesAreTotals DEF s, t
<1>10. IsFiniteSet(V) /\ Cardinality(V) \in Nat
  <2>1. IsFiniteSet(1 .. (n - 1))
    BY <1>1, Interval
  <2> QED
    BY <1>2, <2>1, FS_Subset, FS_CardinalityType
<1>11. counted => Cardinality(W) = Cardinality(V) + 1
  <2>1. counted => W = V \cup {n} /\ n \notin V
    BY <1>1, <1>2, <1>4
  <2> QED
    BY <1>10, <2>1, FS_AddElement
<1>12. ~counted => W = V
  BY <1>1, <1>2, <1>4
<1> QED
  BY <1>7, <1>8, <1>9, <1>10, <1>11, <1>12 DEF longer, counted, V, W

\* What the grammar asks of one more event, in the terms of the events so far.
NextMarker(es, e, m) ==
  /\ Is(e, Markers[m]) /\ Where(es, Markers[m]) = {}
  /\ \A k \in 1 .. (m - 1) : Where(es, Markers[k]) # {}

FitsTransfer(es, e) ==
  /\ TransferIsAllowlisted(e.value) /\ e.value.length <= MaxTransferLength
  /\ Where(es, "capture-start") # {} /\ Where(es, "capture-end") = {}

FitsEvent(es, e) ==
  /\ Len(es) < MaxEvents /\ e.sequence = Len(es)
  /\ \A i \in DOMAIN es : es[i].time <= e.time
  /\ IF IsTransfer(e) THEN FitsTransfer(es, e) ELSE \E m \in 1 .. 4 : NextMarker(es, e, m)
  /\ IsTransfer(e) /\ Open(es) => Bytes(es, Window(es)) + e.value.length <= MaxTotalBytes

\* An earlier event is as right as it was, unless it is a second time this one.
LEMMA EarlierEvents ==
  ASSUME NEW es \in Seq(EventLines), NEW e \in EventLines, NEW i \in 1 .. Len(es)
  PROVE  LET longer == Append(es, e)
         IN  /\ TransferIsRight(longer, i) <=> TransferIsRight(es, i)
             /\ \A m \in 1 .. 4 : MarkerIsRight(longer, i, m)
                                    <=> MarkerIsRight(es, i, m) /\ ~Is(e, Markers[m])
<1> DEFINE n == Len(es) + 1
           longer == Append(es, e)
<1>1. /\ n \in Nat \ {0} /\ longer[n] = e
      /\ \A j \in 1 .. (n - 1) : longer[j] = es[j]
      /\ n \notin 1 .. (n - 1) /\ i \in 1 .. (n - 1)
      /\ Len(es) \in Nat
  BY EventAppended, LenProperties
<1>2. i \in Between(longer, "capture-start", "capture-end")
        <=> i \in Between(es, "capture-start", "capture-end")
  BY <1>1, BetweenAppended
<1>3. \A m : /\ Where(es, m) \subseteq 1 .. (n - 1)
             /\ Is(e, m) => Where(longer, m) = Where(es, m) \cup {n}
             /\ ~Is(e, m) => Where(longer, m) = Where(es, m)
  BY WhereAppended
<1>4. \A j \in 1 .. (i - 1) : longer[j] = es[j]
  BY <1>1
<1> HIDE DEF n, longer
<1>5. TransferIsRight(longer, i) <=> TransferIsRight(es, i)
  BY <1>1, <1>2 DEF TransferIsRight
<1>6. ASSUME NEW m \in 1 .. 4
      PROVE  MarkerIsRight(longer, i, m) <=> MarkerIsRight(es, i, m) /\ ~Is(e, Markers[m])
  <2>1. Where(longer, Markers[m]) = {i}
          <=> Where(es, Markers[m]) = {i} /\ ~Is(e, Markers[m])
    BY <1>1, <1>3
  <2>2. (\A k \in 1 .. (m - 1) : \E j \in 1 .. (i - 1) : Is(longer[j], Markers[k]))
          <=> (\A k \in 1 .. (m - 1) : \E j \in 1 .. (i - 1) : Is(es[j], Markers[k]))
    BY <1>4
  <2> QED
    BY <2>1, <2>2 DEF MarkerIsRight
<1> QED
  BY <1>5, <1>6 DEF longer

LEMMA LastEvent ==
  ASSUME NEW es \in Seq(EventLines), NEW e \in EventLines
  PROVE  LET n == Len(es) + 1
             longer == Append(es, e)
         IN  /\ IsTransfer(e) => (TransferIsRight(longer, n) <=> FitsTransfer(es, e))
             /\ \A m \in 1 .. 4 : MarkerIsRight(longer, n, m) <=> NextMarker(es, e, m)
<1> DEFINE n == Len(es) + 1
           longer == Append(es, e)
<1>1. /\ n \in Nat \ {0} /\ longer[n] = e /\ DOMAIN es = 1 .. (n - 1)
      /\ \A j \in 1 .. (n - 1) : longer[j] = es[j]
      /\ n \notin 1 .. (n - 1)
  BY EventAppended
<1>2. IsTransfer(e) => (n \in Between(longer, "capture-start", "capture-end")
        <=> Where(es, "capture-start") # {} /\ Where(es, "capture-end") = {})
  BY BetweenAppended DEF IsTransfer, Is
<1>3. \A m : /\ Where(es, m) \subseteq 1 .. (n - 1)
             /\ Is(e, m) => Where(longer, m) = Where(es, m) \cup {n}
             /\ ~Is(e, m) => Where(longer, m) = Where(es, m)
  BY WhereAppended
<1>4. \A m : Where(es, m) # {} <=> \E j \in 1 .. (n - 1) : Is(longer[j], m)
  BY <1>1 DEF Where
<1> HIDE DEF n, longer
<1>5. IsTransfer(e) => (TransferIsRight(longer, n) <=> FitsTransfer(es, e))
  BY <1>1, <1>2 DEF TransferIsRight, FitsTransfer
<1>6. ASSUME NEW m \in 1 .. 4
      PROVE  MarkerIsRight(longer, n, m) <=> NextMarker(es, e, m)
  <2>1. Where(longer, Markers[m]) = {n} <=> Is(e, Markers[m]) /\ Where(es, Markers[m]) = {}
    BY <1>1, <1>3
  <2> QED
    BY <1>4, <2>1 DEF MarkerIsRight, NextMarker
<1> QED
  BY <1>5, <1>6 DEF n, longer

LEMMA EventFitIsViable ==
  ASSUME NEW es \in Seq(EventLines), NEW e \in EventLines, Viable(es)
  PROVE  Viable(Append(es, e)) <=> FitsEvent(es, e)
<1> DEFINE n == Len(es) + 1
           longer == Append(es, e)
           Right(l, i) == IF IsTransfer(l[i]) THEN TransferIsRight(l, i)
                          ELSE \E m \in DOMAIN Markers : MarkerIsRight(l, i, m)
<1>1. /\ n \in Nat \ {0} /\ longer[n] = e /\ Len(longer) = n
      /\ DOMAIN es = 1 .. (n - 1) /\ DOMAIN longer = 1 .. n
      /\ \A i \in 1 .. (n - 1) : /\ longer[i] = es[i] /\ es[i] \in EventLines
                                 /\ i < n /\ i \in 1 .. n
      /\ n \notin 1 .. (n - 1) /\ n \in 1 .. n /\ Len(es) = n - 1
  BY EventAppended, LenProperties
<1>2. \A i \in 1 .. n : i \in 1 .. (n - 1) \/ i = n
  BY <1>1
<1>3. /\ e.sequence \in Nat /\ e.time \in Nat
      /\ IsTransfer(e) => e.value.length \in Nat
      /\ \A i \in 1 .. (n - 1) : es[i].time \in Nat
  BY <1>1, EventFacts
<1>4. /\ Bytes(es, Window(es)) \in Nat
      /\ IsTransfer(e) /\ Open(es) =>
           Bytes(longer, Window(longer)) = Bytes(es, Window(es)) + e.value.length
      /\ ~(IsTransfer(e) /\ Open(es)) => Bytes(longer, Window(longer)) = Bytes(es, Window(es))
  BY WindowCounts
<1>5. \A i \in 1 .. (n - 1) :
        /\ TransferIsRight(longer, i) <=> TransferIsRight(es, i)
        /\ \A m \in 1 .. 4 : MarkerIsRight(longer, i, m)
                               <=> MarkerIsRight(es, i, m) /\ ~Is(e, Markers[m])
  BY <1>1, EarlierEvents
<1>6. /\ IsTransfer(e) => (TransferIsRight(longer, n) <=> FitsTransfer(es, e))
      /\ \A m \in 1 .. 4 : MarkerIsRight(longer, n, m) <=> NextMarker(es, e, m)
  BY LastEvent
<1>7. /\ Len(es) <= MaxEvents
      /\ \A i \in 1 .. (n - 1) : es[i].sequence = i - 1
      /\ \A i, j \in 1 .. (n - 1) : i < j => es[i].time <= es[j].time
      /\ \A i \in 1 .. (n - 1) : Right(es, i)
      /\ Bytes(es, Window(es)) <= MaxTotalBytes
  BY <1>1 DEF Viable
<1>8. Viable(longer)
        <=> /\ n <= MaxEvents
            /\ \A i \in 1 .. n : longer[i].sequence = i - 1
            /\ \A i, j \in 1 .. n : i < j => longer[i].time <= longer[j].time
            /\ \A i \in 1 .. n : Right(longer, i)
            /\ Bytes(longer, Window(longer)) <= MaxTotalBytes
  BY <1>1 DEF Viable
<1> HIDE DEF n, longer, Right
<1>9. n <= MaxEvents <=> Len(es) < MaxEvents
  BY <1>1, BoundsAssumption
<1>10. (\A i \in 1 .. n : longer[i].sequence = i - 1) <=> e.sequence = Len(es)
  BY <1>1, <1>2, <1>7
<1>11. (\A i, j \in 1 .. n : i < j => longer[i].time <= longer[j].time)
         <=> \A i \in DOMAIN es : es[i].time <= e.time
  <2>1. ASSUME \A i, j \in 1 .. n : i < j => longer[i].time <= longer[j].time
        PROVE  \A i \in DOMAIN es : es[i].time <= e.time
    BY <1>1, <2>1
  <2>2. ASSUME \A i \in DOMAIN es : es[i].time <= e.time,
               NEW i \in 1 .. n, NEW j \in 1 .. n, i < j
        PROVE  longer[i].time <= longer[j].time
    <3>1. i \in 1 .. (n - 1)
      BY <1>1, <2>2
    <3>2. CASE j = n
      BY <1>1, <2>2, <3>1, <3>2
    <3>3. CASE j \in 1 .. (n - 1)
      BY <1>1, <1>7, <2>2, <3>1, <3>3
    <3> QED
      BY <1>2, <3>2, <3>3
  <2> QED
    BY <2>1, <2>2
<1>12. Right(longer, n)
         <=> IF IsTransfer(e) THEN FitsTransfer(es, e) ELSE \E m \in 1 .. 4 : NextMarker(es, e, m)
  BY <1>1, <1>6, MarkerNames DEF Right
<1>13. ASSUME NEW i \in 1 .. (n - 1), Right(longer, n)
       PROVE  Right(longer, i)
  <2>1. CASE IsTransfer(es[i])
    BY <1>1, <1>5, <1>7, <2>1 DEF Right
  <2>2. CASE ~IsTransfer(es[i])
    <3>1. PICK m \in 1 .. 4 : MarkerIsRight(es, i, m)
      BY <1>7, <2>2, MarkerNames DEF Right
    <3>2. ~Is(e, Markers[m])
      <4>1. SUFFICES ASSUME Is(e, Markers[m]) PROVE FALSE
        OBVIOUS
      <4>2. ~IsTransfer(e)
        BY <4>1 DEF Is, IsTransfer
      <4>3. PICK k \in 1 .. 4 : NextMarker(es, e, k)
        BY <1>12, <1>13, <4>2
      <4>4. k = m /\ Where(es, Markers[k]) = {}
        BY <4>1, <4>3, MarkerNames DEF NextMarker
      <4> QED
        BY <3>1, <4>4 DEF MarkerIsRight
    <3>3. MarkerIsRight(longer, i, m)
      BY <1>5, <3>1, <3>2
    <3> QED
      BY <1>1, <2>2, <3>3, MarkerNames DEF Right
  <2> QED
    BY <2>1, <2>2
<1>14. (\A i \in 1 .. n : Right(longer, i)) <=> Right(longer, n)
  BY <1>1, <1>2, <1>13
<1>15. Bytes(longer, Window(longer)) <= MaxTotalBytes
         <=> (IsTransfer(e) /\ Open(es) => Bytes(es, Window(es)) + e.value.length <= MaxTotalBytes)
  <2>1. CASE IsTransfer(e) /\ Open(es)
    BY <1>4, <2>1
  <2>2. CASE ~(IsTransfer(e) /\ Open(es))
    BY <1>4, <1>7, <2>2
  <2> QED
    BY <2>1, <2>2
<1> QED
  BY <1>8, <1>9, <1>10, <1>11, <1>12, <1>14, <1>15 DEF FitsEvent, longer

\* The parser's record says what its events say: where the next marker, the
\* window and its counts, and the two indices stand.
EnvelopeType ==
  [header : BOOLEAN, preamble : SUBSET Preamble, events : Seq(EventLines),
   windowTransfers : Nat, windowBytes : Nat, actionIndex : Nat, stableIndex : Nat,
   expectedMarker : 0 .. 4, inWindow : BOOLEAN]

Seen(next, k) == next = 0 \/ k < next

Counted(env) ==
  LET es == env.events
  IN  /\ \A k \in 1 .. 4 : Where(es, Markers[k]) # {} <=> Seen(env.expectedMarker, k)
      /\ env.inWindow <=> env.expectedMarker = 3
      /\ env.windowTransfers = Cardinality(Window(es))
      /\ env.windowBytes = Bytes(es, Window(es))
      /\ \A i \in Where(es, "action-issued") : env.actionIndex = i - 1
      /\ \A i \in Where(es, "output-stable") : env.stableIndex = i - 1

EnvelopeRight(env) ==
  /\ env \in EnvelopeType /\ Viable(env.events) /\ Counted(env)
  /\ env.events # <<>> => env.preamble = Preamble
  /\ env.preamble # {} => env.header

LEMMA OpenWindow ==
  ASSUME NEW env, EnvelopeRight(env)
  PROVE  /\ env.inWindow <=> Open(env.events)
         /\ Where(env.events, "capture-start") # {} <=> env.expectedMarker # 1
         /\ Where(env.events, "capture-end") = {} <=> env.expectedMarker # 0
<1>1. env.expectedMarker \in 0 .. 4
  BY DEF EnvelopeRight, EnvelopeType
<1>2. /\ Where(env.events, "capture-start") # {} <=> Seen(env.expectedMarker, 1)
      /\ Where(env.events, "action-issued") # {} <=> Seen(env.expectedMarker, 2)
      /\ Where(env.events, "output-stable") # {} <=> Seen(env.expectedMarker, 3)
      /\ Where(env.events, "capture-end") # {} <=> Seen(env.expectedMarker, 4)
  BY MarkerNames DEF EnvelopeRight, Counted
<1>3. env.inWindow <=> env.expectedMarker = 3
  BY DEF EnvelopeRight, Counted
<1>4. /\ Seen(env.expectedMarker, 1) <=> env.expectedMarker # 1
      /\ Seen(env.expectedMarker, 2) <=> env.expectedMarker \in {0, 3, 4}
      /\ Seen(env.expectedMarker, 3) <=> env.expectedMarker \in {0, 4}
      /\ Seen(env.expectedMarker, 4) <=> env.expectedMarker = 0
  BY <1>1 DEF Seen
<1> QED
  BY <1>1, <1>2, <1>3, <1>4 DEF Open

LEMMA NextMarkerIsExpected ==
  ASSUME NEW env, EnvelopeRight(env), NEW e \in EventLines, NEW m \in 1 .. 4
  PROVE  NextMarker(env.events, e, m)
           <=> env.expectedMarker = m /\ Is(e, Markers[m])
<1> DEFINE x == env.expectedMarker
<1>1. x \in 0 .. 4 /\ \A k \in 1 .. 4 : Where(env.events, Markers[k]) # {} <=> Seen(x, k)
  BY DEF EnvelopeRight, EnvelopeType, Counted
<1> HIDE DEF x
<1>2. (~Seen(x, m) /\ \A k \in 1 .. (m - 1) : Seen(x, k)) <=> x = m
  <2>1. ASSUME ~Seen(x, m), \A k \in 1 .. (m - 1) : Seen(x, k) PROVE x = m
    BY <1>1, <2>1 DEF Seen
  <2>2. ASSUME x = m PROVE ~Seen(x, m) /\ \A k \in 1 .. (m - 1) : Seen(x, k)
    BY <2>2 DEF Seen
  <2> QED
    BY <2>1, <2>2
<1>3. \A k \in 1 .. (m - 1) : k \in 1 .. 4
  OBVIOUS
<1> QED
  BY <1>1, <1>2, <1>3 DEF NextMarker, x

LEMMA EventOutcomeIsFit ==
  ASSUME NEW env, EnvelopeRight(env), env.preamble = Preamble, NEW e \in EventLines
  PROVE  EventOutcome(env, e) = "ok" <=> FitsEvent(env.events, e)
<1> DEFINE es == env.events
           n == Len(es) + 1
<1>1. es \in Seq(EventLines) /\ Viable(es)
  BY DEF EnvelopeRight, EnvelopeType
<1>2. /\ n \in Nat \ {0} /\ DOMAIN es = 1 .. (n - 1) /\ Len(es) = n - 1
      /\ \A i \in 1 .. (n - 1) : es[i] \in EventLines
  BY <1>1, EventAppended, LenProperties
<1>3. /\ e.time \in Nat /\ e.value.type \in {"malformed", "marker", "transfer"}
      /\ IsTransfer(e) => e.value.length \in Nat
      /\ \A i \in 1 .. (n - 1) : es[i].time \in Nat
  BY <1>2, EventFacts
<1>4. /\ \A i, j \in 1 .. (n - 1) : i < j => es[i].time <= es[j].time
      /\ Bytes(es, Window(es)) <= MaxTotalBytes
  BY <1>1, <1>2 DEF Viable
<1>5. /\ env.expectedMarker \in 0 .. 4
      /\ env.windowBytes = Bytes(es, Window(es)) /\ env.windowBytes \in Nat
  BY DEF EnvelopeRight, EnvelopeType, Counted
<1>6. ~(Len(es) >= MaxEvents) <=> Len(es) < MaxEvents
  BY <1>2, BoundsAssumption
<1>7. IsNext(env, e) <=> e.sequence = Len(es) /\ \A i \in DOMAIN es : es[i].time <= e.time
  <2>1. ASSUME Len(es) > 0
        PROVE  e.time >= es[Len(es)].time <=> \A i \in 1 .. (n - 1) : es[i].time <= e.time
    <3>1. /\ n - 1 \in 1 .. (n - 1)
          /\ \A i \in 1 .. (n - 1) : i = n - 1 \/ i < n - 1
      BY <1>2, <2>1
    <3>2. \A i \in 1 .. (n - 1) : es[i].time <= es[n - 1].time
      BY <1>3, <1>4, <3>1
    <3> HIDE DEF n, es
    <3> QED
      BY <1>2, <1>3, <3>1, <3>2
  <2>2. ASSUME ~(Len(es) > 0) PROVE DOMAIN es = {}
    BY <1>2, <2>2
  <2> QED
    BY <1>2, <2>1, <2>2 DEF IsNext
<1> HIDE DEF es, n
<1>8. EventOutcome(env, e) = "ok"
        <=> /\ ~(Len(es) >= MaxEvents) /\ IsNext(env, e) /\ e.value.type # "malformed"
            /\ e.value.type = "marker" => MarkerOutcome(env, e) = "ok"
            /\ e.value.type = "transfer" => TransferOutcome(env, e) = "ok"
  BY <1>3 DEF EventOutcome, es
<1>9. CASE IsTransfer(e)
  <2>1. TransferOutcome(env, e) = "ok"
          <=> /\ env.expectedMarker \notin {0, 1} /\ ~(e.value.length > MaxTransferLength)
              /\ TransferIsAllowlisted(e.value)
              /\ ~(env.inWindow /\ env.windowBytes > MaxTotalBytes - e.value.length)
    BY DEF TransferOutcome
  <2>2. ~(e.value.length > MaxTransferLength) <=> e.value.length <= MaxTransferLength
    BY <1>3, <1>9, BoundsAssumption
  <2>3. ~(env.inWindow /\ env.windowBytes > MaxTotalBytes - e.value.length)
          <=> (Open(es) => Bytes(es, Window(es)) + e.value.length <= MaxTotalBytes)
    <3>1. env.inWindow <=> Open(es)
      BY OpenWindow DEF es
    <3>2. ~(env.windowBytes > MaxTotalBytes - e.value.length)
            <=> env.windowBytes + e.value.length <= MaxTotalBytes
      BY <1>3, <1>5, <1>9, BoundsAssumption
    <3> QED
      BY <1>5, <3>1, <3>2
  <2>4. /\ Where(es, "capture-start") # {} <=> env.expectedMarker # 1
        /\ Where(es, "capture-end") = {} <=> env.expectedMarker # 0
    BY OpenWindow DEF es
  <2>5. e.value.type = "transfer"
    BY <1>9 DEF IsTransfer
  <2> QED
    BY <1>6, <1>7, <1>8, <1>9, <2>1, <2>2, <2>3, <2>4, <2>5 DEF FitsEvent, FitsTransfer, es
<1>10. CASE e.value.type = "marker"
  <2>1. ~IsTransfer(e)
    BY <1>10 DEF IsTransfer
  <2>2. MarkerOutcome(env, e) = "ok" <=> \E m \in 1 .. 4 : NextMarker(es, e, m)
    <3>1. MarkerOutcome(env, e) = "ok"
            <=> env.expectedMarker # 0 /\ Is(e, Markers[env.expectedMarker])
      BY DEF MarkerOutcome
    <3>2. \A m \in 1 .. 4 : NextMarker(es, e, m)
                              <=> env.expectedMarker = m /\ Is(e, Markers[m])
      BY NextMarkerIsExpected DEF es
    <3> QED
      BY <1>5, <3>1, <3>2
  <2> QED
    BY <1>6, <1>7, <1>8, <1>10, <2>1, <2>2 DEF FitsEvent, es
<1>11. CASE e.value.type = "malformed"
  <2>1. ~IsTransfer(e) /\ \A m \in 1 .. 4 : ~NextMarker(es, e, m)
    BY <1>11 DEF IsTransfer, NextMarker, Is
  <2> QED
    BY <1>8, <1>11, <2>1 DEF FitsEvent, es
<1> QED
  BY <1>3, <1>9, <1>10, <1>11 DEF IsTransfer

LEMMA MarkerKeepsCount ==
  ASSUME NEW env, EnvelopeRight(env), NEW e \in EventLines, ~IsTransfer(e),
         FitsEvent(env.events, e)
  PROVE  /\ WithMarker(env, e) \in EnvelopeType /\ Counted(WithMarker(env, e))
         /\ WithMarker(env, e).header = env.header
         /\ WithMarker(env, e).preamble = env.preamble
         /\ WithMarker(env, e).events = Append(env.events, e)
<1> DEFINE es == env.events
           n == Len(es) + 1
           longer == Append(es, e)
           x == env.expectedMarker
           q == WithMarker(env, e)
<1>1. env \in EnvelopeType /\ Counted(env)
  BY DEF EnvelopeRight
<1>2. es \in Seq(EventLines) /\ x \in 0 .. 4
  BY <1>1 DEF EnvelopeType
<1>3. /\ n \in Nat \ {0} /\ longer \in Seq(EventLines) /\ Len(es) = n - 1 /\ n - 1 \in Nat
  BY <1>2, EventAppended, LenProperties
<1>4. /\ x \in 1 .. 4 /\ Is(e, Markers[x]) /\ NextMarker(es, e, x)
  <2>1. PICK m \in 1 .. 4 : NextMarker(es, e, m)
    BY DEF FitsEvent
  <2>2. x = m /\ Is(e, Markers[m])
    BY <2>1, NextMarkerIsExpected
  <2> QED
    BY <2>1, <2>2
<1>5. /\ Is(e, "action-issued") <=> x = 2
      /\ Is(e, "output-stable") <=> x = 3
      /\ \A k \in 1 .. 4 : Is(e, Markers[k]) <=> x = k
  BY <1>4, MarkerNames
<1>6. \A m : /\ Is(e, m) => Where(longer, m) = Where(es, m) \cup {n}
             /\ ~Is(e, m) => Where(longer, m) = Where(es, m)
  BY <1>2, WhereAppended
<1>7. /\ Bytes(longer, Window(longer)) = Bytes(es, Window(es))
      /\ Cardinality(Window(longer)) = Cardinality(Window(es))
  BY <1>2, WindowCounts
<1>8. /\ \A k \in 1 .. 4 : Where(es, Markers[k]) # {} <=> Seen(x, k)
      /\ env.inWindow <=> x = 3
      /\ env.windowTransfers = Cardinality(Window(es))
      /\ env.windowBytes = Bytes(es, Window(es))
      /\ \A i \in Where(es, "action-issued") : env.actionIndex = i - 1
      /\ \A i \in Where(es, "output-stable") : env.stableIndex = i - 1
  BY <1>1 DEF Counted
<1>9. MarkerAfter(x) = IF x < 4 THEN x + 1 ELSE 0
  BY MarkerNames DEF MarkerAfter
<1>10. PICK next \in 0 .. 4 : next = MarkerAfter(x)
  BY <1>4, <1>9
<1>11. PICK action \in Nat :
         action = IF Is(e, "action-issued") THEN Len(env.events) ELSE env.actionIndex
  BY <1>1, <1>3 DEF EnvelopeType
<1>12. PICK stable \in Nat :
         stable = IF Is(e, "output-stable") THEN Len(env.events) ELSE env.stableIndex
  BY <1>1, <1>3 DEF EnvelopeType
<1>13. PICK within \in BOOLEAN :
         within = (Is(e, "action-issued") \/ (env.inWindow /\ ~Is(e, "output-stable")))
  OBVIOUS
<1>14. q = [env EXCEPT !.events = longer, !.expectedMarker = next, !.actionIndex = action,
                       !.stableIndex = stable, !.inWindow = within]
  BY <1>10, <1>11, <1>12, <1>13 DEF WithMarker
<1> HIDE DEF es, n, longer, q
<1>15. q \in EnvelopeType
  BY <1>1, <1>3, <1>10, <1>11, <1>12, <1>13, <1>14 DEF EnvelopeType
<1>16. /\ q.header = env.header /\ q.preamble = env.preamble /\ q.events = longer
       /\ q.windowTransfers = env.windowTransfers /\ q.windowBytes = env.windowBytes
       /\ q.expectedMarker = next /\ q.actionIndex = action /\ q.stableIndex = stable
       /\ q.inWindow = within
  BY <1>1, <1>14 DEF EnvelopeType
<1> HIDE DEF x
<1>17. \A k \in 1 .. 4 : Where(longer, Markers[k]) # {} <=> Seen(next, k)
  <2> TAKE k \in 1 .. 4
  <2>1. Where(longer, Markers[k]) # {} <=> x = k \/ Seen(x, k)
    BY <1>5, <1>6, <1>8
  <2>2. Seen(next, k) <=> x = k \/ Seen(x, k)
    BY <1>4, <1>9, <1>10 DEF Seen
  <2> QED
    BY <2>1, <2>2
<1>18. within <=> next = 3
  <2>1. within <=> x = 2
    BY <1>5, <1>8, <1>13
  <2>2. next = 3 <=> x = 2
    BY <1>4, <1>9, <1>10
  <2> QED
    BY <2>1, <2>2
<1>19. \A i \in Where(longer, "action-issued") : action = i - 1
  <2>1. CASE x = 2
    <3>1. Where(longer, "action-issued") = {n}
      BY <1>4, <1>5, <1>6, <2>1, MarkerNames DEF NextMarker
    <3>2. action = n - 1
      BY <1>3, <1>5, <1>11, <2>1 DEF es
    <3> QED
      BY <3>1, <3>2
  <2>2. CASE x # 2
    BY <1>5, <1>6, <1>8, <1>11, <2>2
  <2> QED
    BY <2>1, <2>2
<1>20. \A i \in Where(longer, "output-stable") : stable = i - 1
  <2>1. CASE x = 3
    <3>1. Where(longer, "output-stable") = {n}
      BY <1>4, <1>5, <1>6, <2>1, MarkerNames DEF NextMarker
    <3>2. stable = n - 1
      BY <1>3, <1>5, <1>12, <2>1 DEF es
    <3> QED
      BY <3>1, <3>2
  <2>2. CASE x # 3
    BY <1>5, <1>6, <1>8, <1>12, <2>2
  <2> QED
    BY <2>1, <2>2
<1>21. Counted(q)
  BY <1>7, <1>8, <1>16, <1>17, <1>18, <1>19, <1>20 DEF Counted
<1> QED
  BY <1>15, <1>16, <1>21 DEF q, longer, es

LEMMA TransferKeepsCount ==
  ASSUME NEW env, EnvelopeRight(env), NEW e \in EventLines, IsTransfer(e)
  PROVE  /\ WithTransfer(env, e) \in EnvelopeType /\ Counted(WithTransfer(env, e))
         /\ WithTransfer(env, e).header = env.header
         /\ WithTransfer(env, e).preamble = env.preamble
         /\ WithTransfer(env, e).events = Append(env.events, e)
<1> DEFINE es == env.events
           longer == Append(es, e)
           q == WithTransfer(env, e)
<1>1. env \in EnvelopeType /\ Counted(env)
  BY DEF EnvelopeRight
<1>2. es \in Seq(EventLines)
  BY <1>1 DEF EnvelopeType
<1>3. longer \in Seq(EventLines)
  BY <1>2, EventAppended
<1>4. \A m : ~Is(e, m)
  BY DEF IsTransfer, Is
<1>5. \A m : Where(longer, m) = Where(es, m)
  BY <1>2, <1>4, WhereAppended
<1>6. env.inWindow <=> Open(es)
  BY OpenWindow
<1>7. /\ Open(es) => /\ Bytes(longer, Window(longer)) = Bytes(es, Window(es)) + e.value.length
                     /\ Cardinality(Window(longer)) = Cardinality(Window(es)) + 1
      /\ ~Open(es) => /\ Bytes(longer, Window(longer)) = Bytes(es, Window(es))
                      /\ Cardinality(Window(longer)) = Cardinality(Window(es))
  BY <1>2, WindowCounts
<1>8. e.value.length \in Nat
  BY EventFacts
<1>9. PICK transfers \in Nat : transfers = IF env.inWindow THEN env.windowTransfers + 1
                                           ELSE env.windowTransfers
  BY <1>1 DEF EnvelopeType
<1>10. PICK bytes \in Nat : bytes = IF env.inWindow THEN env.windowBytes + e.value.length
                                    ELSE env.windowBytes
  BY <1>1, <1>8 DEF EnvelopeType
<1>11. q = [env EXCEPT !.events = longer, !.windowTransfers = transfers, !.windowBytes = bytes]
  BY <1>9, <1>10 DEF WithTransfer
<1> HIDE DEF es, longer, q
<1>12. q \in EnvelopeType
  BY <1>1, <1>3, <1>9, <1>10, <1>11 DEF EnvelopeType
<1>13. /\ q.header = env.header /\ q.preamble = env.preamble /\ q.events = longer
       /\ q.windowTransfers = transfers /\ q.windowBytes = bytes
       /\ q.expectedMarker = env.expectedMarker /\ q.actionIndex = env.actionIndex
       /\ q.stableIndex = env.stableIndex /\ q.inWindow = env.inWindow
  BY <1>1, <1>11 DEF EnvelopeType
<1>14. /\ \A k \in 1 .. 4 : Where(es, Markers[k]) # {} <=> Seen(env.expectedMarker, k)
       /\ env.inWindow <=> env.expectedMarker = 3
       /\ env.windowTransfers = Cardinality(Window(es))
       /\ env.windowBytes = Bytes(es, Window(es))
       /\ \A i \in Where(es, "action-issued") : env.actionIndex = i - 1
       /\ \A i \in Where(es, "output-stable") : env.stableIndex = i - 1
  BY <1>1 DEF Counted, es
<1>15. transfers = Cardinality(Window(longer)) /\ bytes = Bytes(longer, Window(longer))
  BY <1>6, <1>7, <1>9, <1>10, <1>14
<1>16. Counted(q)
  BY <1>5, <1>13, <1>14, <1>15 DEF Counted
<1> QED
  BY <1>12, <1>13, <1>16 DEF q, longer, es

LEMMA LineKeepsRight ==
  ASSUME NEW env, EnvelopeRight(env), NEW line \in Lines, LineOutcome(env, line) = "ok"
  PROVE  EnvelopeRight(WithLine(env, line))
<1>1. line.kind \in {"header", "unknown", "overlong", "event"} \cup Preamble
  BY LinesAssumption DEF Preamble
<1>2. env \in EnvelopeType /\ Viable(env.events) /\ Counted(env)
  BY DEF EnvelopeRight
<1>3. CASE line.kind = "header"
  <2> DEFINE q == [env EXCEPT !.header = TRUE]
  <2>1. WithLine(env, line) = q
    BY <1>3 DEF WithLine, Preamble
  <2>2. /\ q \in EnvelopeType /\ q.header /\ q.preamble = env.preamble
        /\ q.events = env.events /\ q.windowTransfers = env.windowTransfers
        /\ q.windowBytes = env.windowBytes /\ q.expectedMarker = env.expectedMarker
        /\ q.actionIndex = env.actionIndex /\ q.stableIndex = env.stableIndex
        /\ q.inWindow = env.inWindow
    BY <1>2 DEF EnvelopeType
  <2> HIDE DEF q
  <2>3. Counted(q)
    BY <1>2, <2>2 DEF Counted
  <2>4. q.events # <<>> => q.preamble = Preamble
    BY <2>2 DEF EnvelopeRight
  <2> QED
    BY <1>2, <2>1, <2>2, <2>3, <2>4 DEF EnvelopeRight
<1>4. CASE line.kind \in Preamble
  <2>1. env.header /\ PreambleOutcome(env, line) = "ok"
    BY <1>4 DEF LineOutcome, Preamble
  <2>2. env.events = <<>>
    BY <2>1 DEF PreambleOutcome
  <2> DEFINE q == [env EXCEPT !.preamble = @ \cup {line.kind}]
  <2>3. WithLine(env, line) = q
    BY <1>4 DEF WithLine, Preamble
  <2>4. /\ q \in EnvelopeType /\ q.header = env.header
        /\ q.events = env.events /\ q.windowTransfers = env.windowTransfers
        /\ q.windowBytes = env.windowBytes /\ q.expectedMarker = env.expectedMarker
        /\ q.actionIndex = env.actionIndex /\ q.stableIndex = env.stableIndex
        /\ q.inWindow = env.inWindow
    BY <1>2, <1>4 DEF EnvelopeType
  <2> HIDE DEF q
  <2>5. Counted(q)
    BY <1>2, <2>4 DEF Counted
  <2> QED
    BY <1>2, <2>1, <2>2, <2>3, <2>4, <2>5 DEF EnvelopeRight
<1>5. CASE line.kind = "event"
  <2>1. env.header /\ EventOutcome(env, line) = "ok"
    BY <1>5 DEF LineOutcome, Preamble
  <2>2. env.preamble = Preamble
    BY <2>1 DEF EventOutcome
  <2>3. line \in EventLines /\ env.events \in Seq(EventLines)
    BY <1>2, <1>5 DEF EventLines, EnvelopeType
  <2>4. FitsEvent(env.events, line)
    BY <2>1, <2>2, <2>3, EventOutcomeIsFit
  <2>5. Viable(Append(env.events, line))
    BY <1>2, <2>3, <2>4, EventFitIsViable
  <2>6. CASE IsTransfer(line)
    <3> DEFINE q == WithTransfer(env, line)
    <3>1. WithLine(env, line) = q
      BY <1>5, <2>6 DEF WithLine, Preamble
    <3>2. /\ q \in EnvelopeType /\ Counted(q) /\ q.header = env.header
          /\ q.preamble = env.preamble /\ q.events = Append(env.events, line)
      BY <2>3, <2>6, TransferKeepsCount
    <3> HIDE DEF q
    <3> QED
      BY <2>1, <2>2, <2>5, <3>1, <3>2 DEF EnvelopeRight
  <2>7. CASE ~IsTransfer(line)
    <3> DEFINE q == WithMarker(env, line)
    <3>1. WithLine(env, line) = q
      BY <1>5, <2>7 DEF WithLine, Preamble
    <3>2. /\ q \in EnvelopeType /\ Counted(q) /\ q.header = env.header
          /\ q.preamble = env.preamble /\ q.events = Append(env.events, line)
      BY <2>3, <2>4, <2>7, MarkerKeepsCount
    <3> HIDE DEF q
    <3> QED
      BY <2>1, <2>2, <2>5, <3>1, <3>2 DEF EnvelopeRight
  <2> QED
    BY <2>6, <2>7
<1>6. CASE line.kind \in {"unknown", "overlong"}
  BY <1>6 DEF LineOutcome, Preamble
<1> QED
  BY <1>1, <1>3, <1>4, <1>5, <1>6

LEMMA BlankIsRight == EnvelopeRight(BlankEnvelope)
<1> DEFINE q == BlankEnvelope
<1>1. /\ q \in EnvelopeType /\ q.events = <<>> /\ q.preamble = {} /\ q.windowTransfers = 0
      /\ q.windowBytes = 0 /\ q.expectedMarker = 1 /\ q.inWindow = FALSE
  BY DEF BlankEnvelope, EnvelopeType
<1>2. \A m : Where(<<>>, m) = {}
  BY DEF Where
<1>3. Window(<<>>) = {}
  BY DEF Window, Between
<1>4. Bytes(<<>>, {}) = 0
  <2>1. LengthsAt(<<>>, {}) = <<>>
    BY DEF LengthsAt
  <2> QED
    BY <2>1, BytesAreTotals, TotalOfNothing
<1>5. Cardinality({}) = 0
  BY FS_EmptySet
<1>6. Viable(<<>>)
  <2>1. DOMAIN <<>> = {} /\ Len(<<>>) = 0
    OBVIOUS
  <2>2. 0 <= MaxEvents /\ 0 <= MaxTotalBytes
    BY BoundsAssumption
  <2>3. Len(<<>>) <= MaxEvents /\ Bytes(<<>>, Window(<<>>)) <= MaxTotalBytes
    BY <1>3, <1>4, <2>1, <2>2
  <2> QED
    BY <2>1, <2>3 DEF Viable
<1> HIDE DEF q
<1>7. \A k \in 1 .. 4 : ~Seen(1, k)
  BY DEF Seen
<1>8. Counted(q)
  <2>1. \A k \in 1 .. 4 : Where(q.events, Markers[k]) # {} <=> Seen(q.expectedMarker, k)
    BY <1>1, <1>2, <1>7
  <2>2. q.inWindow <=> q.expectedMarker = 3
    BY <1>1
  <2>3. /\ q.windowTransfers = Cardinality(Window(q.events))
        /\ q.windowBytes = Bytes(q.events, Window(q.events))
    BY <1>1, <1>3, <1>4, <1>5
  <2>4. \A m : Where(q.events, m) = {}
    BY <1>1, <1>2
  <2> QED
    BY <2>1, <2>2, <2>3, <2>4 DEF Counted
<1> QED
  BY <1>1, <1>6, <1>8 DEF EnvelopeRight, q

LEMMA MarkersAreRight ==
  ASSUME NEW es \in Seq(EventLines), Viable(es), NEW i \in 1 .. Len(es), NEW m \in 1 .. 4,
         Is(es[i], Markers[m])
  PROVE  /\ Where(es, Markers[m]) = {i}
         /\ \A k \in 1 .. (m - 1) :
              \E j \in 1 .. (i - 1) : j \in 1 .. Len(es) /\ Is(es[j], Markers[k])
<1>1. ~IsTransfer(es[i]) /\ DOMAIN es = 1 .. Len(es) /\ Len(es) \in Nat
  BY LenProperties DEF Is, IsTransfer
<1>2. PICK k \in 1 .. 4 : MarkerIsRight(es, i, k)
  BY <1>1, MarkerNames DEF Viable
<1>3. Is(es[i], Markers[k])
  BY <1>2 DEF MarkerIsRight, Where
<1>4. k = m
  BY <1>3, MarkerNames
<1>5. \A j \in 1 .. (i - 1) : j \in 1 .. Len(es)
  BY <1>1
<1> QED
  BY <1>2, <1>4, <1>5 DEF MarkerIsRight

\* Once the last marker has come there are four events or more, and the first
\* and the last of them are the outer markers.
LEMMA EndsOfEnvelope ==
  ASSUME NEW es \in Seq(EventLines), Viable(es), Where(es, "capture-end") # {}
  PROVE  /\ Len(es) >= 4 /\ Is(es[1], "capture-start") /\ Is(es[Len(es)], "capture-end")
         /\ \A m \in 1 .. 4 : Where(es, Markers[m]) # {}
<1> DEFINE len == Len(es)
<1>1. len \in Nat /\ DOMAIN es = 1 .. len
  BY LenProperties
<1>2. \A i \in 1 .. len : \A m \in 1 .. 4 : Is(es[i], Markers[m]) =>
        /\ Where(es, Markers[m]) = {i}
        /\ \A k \in 1 .. (m - 1) :
             \E j \in 1 .. (i - 1) : j \in 1 .. len /\ Is(es[j], Markers[k])
  BY MarkersAreRight
<1>3. /\ \A i \in 1 .. len : IsTransfer(es[i]) => TransferIsRight(es, i)
      /\ \A i \in 1 .. len : ~IsTransfer(es[i]) => \E m \in 1 .. 4 : MarkerIsRight(es, i, m)
  BY <1>1, MarkerNames DEF Viable
<1>4. \A i, m : i \in Where(es, m) <=> i \in 1 .. len /\ Is(es[i], m)
  BY <1>1 DEF Where
<1> HIDE DEF len
<1>5. PICK p4 \in 1 .. len : Is(es[p4], Markers[4])
  BY <1>4, MarkerNames
<1>6. PICK p3 \in 1 .. (p4 - 1) : p3 \in 1 .. len /\ Is(es[p3], Markers[3])
  BY <1>2, <1>5
<1>7. PICK p2 \in 1 .. (p3 - 1) : p2 \in 1 .. len /\ Is(es[p2], Markers[2])
  BY <1>2, <1>6
<1>8. PICK p1 \in 1 .. (p2 - 1) : p1 \in 1 .. len /\ Is(es[p1], Markers[1])
  BY <1>2, <1>7
<1>9. /\ 4 <= p4 /\ p4 <= len /\ 1 \in 1 .. len /\ len \in 1 .. len
  BY <1>1, <1>5, <1>6, <1>7, <1>8
<1>10. \A m \in 1 .. 4 : Where(es, Markers[m]) # {}
  <2>1. /\ p1 \in Where(es, Markers[1]) /\ p2 \in Where(es, Markers[2])
        /\ p3 \in Where(es, Markers[3]) /\ p4 \in Where(es, Markers[4])
    BY <1>4, <1>5, <1>6, <1>7, <1>8
  <2> QED
    BY <2>1
<1>11. Is(es[1], "capture-start")
  <2>1. CASE IsTransfer(es[1])
    <3>1. 1 \in Between(es, "capture-start", "capture-end")
      BY <1>3, <1>9, <2>1 DEF TransferIsRight
    <3>2. PICK a \in Where(es, "capture-start") : a < 1
      BY <3>1 DEF Between
    <3> QED
      BY <1>4, <3>2
  <2>2. CASE ~IsTransfer(es[1])
    <3>1. PICK m \in 1 .. 4 : MarkerIsRight(es, 1, m)
      BY <1>3, <1>9, <2>2
    <3>2. m = 1
      BY <3>1 DEF MarkerIsRight
    <3>3. 1 \in Where(es, Markers[1])
      BY <3>1, <3>2 DEF MarkerIsRight
    <3> QED
      BY <1>4, <3>3, MarkerNames
  <2> QED
    BY <2>1, <2>2
<1>12. Is(es[len], "capture-end")
  <2>1. CASE IsTransfer(es[len])
    <3>1. len \in Between(es, "capture-start", "capture-end")
      BY <1>3, <1>9, <2>1 DEF TransferIsRight
    <3>2. p4 \in Where(es, "capture-end")
      BY <1>4, <1>5, MarkerNames
    <3>3. len < p4
      BY <3>1, <3>2 DEF Between
    <3> QED
      BY <1>1, <1>9, <3>3
  <2>2. CASE ~IsTransfer(es[len])
    <3>1. PICK m \in 1 .. 4 : MarkerIsRight(es, len, m)
      BY <1>3, <1>9, <2>2
    <3>2. Where(es, Markers[m]) = {len}
      BY <3>1 DEF MarkerIsRight
    <3>3. m = 4
      <4>1. SUFFICES ASSUME m # 4 PROVE FALSE
        OBVIOUS
      <4>2. m \in 1 .. (4 - 1)
        BY <4>1
      <4>3. PICK j \in 1 .. (p4 - 1) : j \in 1 .. len /\ Is(es[j], Markers[m])
        BY <1>2, <1>5, <4>2
      <4>4. j = len
        BY <1>4, <3>2, <4>3
      <4> QED
        BY <1>1, <1>9, <4>3, <4>4
    <3> QED
      BY <1>4, <3>2, <3>3, MarkerNames
  <2> QED
    BY <2>1, <2>2
<1> QED
  BY <1>1, <1>9, <1>10, <1>11, <1>12 DEF len

LEMMA EndOutcomeIsComplete ==
  ASSUME NEW env, EnvelopeRight(env), env.preamble = Preamble
  PROVE  EndOutcome(env) = "ok" <=> Complete(env.events)
<1> DEFINE es == env.events
<1>1. /\ env \in EnvelopeType /\ Viable(es) /\ Counted(env) /\ env.header
  BY DEF EnvelopeRight, Preamble
<1>2. es \in Seq(EventLines) /\ env.expectedMarker \in 0 .. 4
  BY <1>1 DEF EnvelopeType
<1>3. Where(es, "capture-end") = {} <=> env.expectedMarker # 0
  BY OpenWindow
<1>4. env.windowTransfers # 0 <=> Window(es) # {}
  <2>1. IsFiniteSet(Window(es))
    <3>1. IsFiniteSet(1 .. Len(es)) /\ DOMAIN es = 1 .. Len(es)
      BY <1>2, Interval, LenProperties
    <3>2. Window(es) \subseteq 1 .. Len(es)
      BY <3>1 DEF Window, Between
    <3> QED
      BY <3>1, <3>2, FS_Subset
  <2>2. env.windowTransfers = Cardinality(Window(es))
    BY <1>1 DEF Counted
  <2> QED
    BY <2>1, <2>2, FS_EmptySet
<1>5. EndOutcome(env) = "ok"
        <=> /\ env.expectedMarker = 0 /\ Len(es) >= 4 /\ Is(es[1], "capture-start")
            /\ Is(es[Len(es)], "capture-end") /\ env.windowTransfers # 0
  BY <1>1 DEF EndOutcome
<1> HIDE DEF es
<1>6. Where(es, "capture-end") # {}
        => /\ Len(es) >= 4 /\ Is(es[1], "capture-start") /\ Is(es[Len(es)], "capture-end")
           /\ \A m \in 1 .. 4 : Where(es, Markers[m]) # {}
  BY <1>1, <1>2, EndsOfEnvelope
<1> QED
  BY <1>1, <1>3, <1>4, <1>5, <1>6, MarkerNames DEF Complete, es

EnvelopeInv ==
  /\ EnvelopeRight(envelope)
  /\ phase \in {"accepted", "replaying", "replayed"} \cup Failures => Complete(envelope.events)

LEMMA InitEnvelopeInv == Init => EnvelopeInv
BY BlankIsRight DEF Init, EnvelopeInv, Failures

LEMMA NextEnvelopeInv == EnvelopeInv /\ [Next]_vars => EnvelopeInv'
<1> SUFFICES ASSUME EnvelopeInv, [Next]_vars PROVE EnvelopeInv'
  OBVIOUS
<1>1. ASSUME NEW refusal \in Refusals, Refuse(refusal)
      PROVE  EnvelopeInv'
  <2>1. phase' \notin {"accepted", "replaying", "replayed"} \cup Failures
        /\ envelope' = BlankEnvelope
    BY <1>1 DEF Refuse, Refusals, Failures
  <2> QED
    BY <2>1, BlankIsRight DEF EnvelopeInv
<1>2. ASSUME NEW line \in Lines, ReadLine(line)
      PROVE  EnvelopeInv'
  <2>1. CASE LineOutcome(envelope, line) = "ok"
    <3>1. phase' = "reading" /\ envelope' = WithLine(envelope, line)
      BY <1>2, <2>1 DEF ReadLine
    <3>2. EnvelopeRight(envelope')
      BY <2>1, <3>1, LineKeepsRight DEF EnvelopeInv
    <3> QED
      BY <3>1, <3>2 DEF EnvelopeInv, Failures
  <2>2. CASE LineOutcome(envelope, line) # "ok"
    <3>1. LineOutcome(envelope, line) \in {"format-error", "bounds-error"}
      <4>1. \A env, e : MarkerOutcome(env, e) \in {"ok", "format-error", "bounds-error"}
        BY DEF MarkerOutcome
      <4>2. \A env, e : TransferOutcome(env, e) \in {"ok", "format-error", "bounds-error"}
        BY DEF TransferOutcome
      <4>3. \A env, e : EventOutcome(env, e) \in {"ok", "format-error", "bounds-error"}
        BY <4>1, <4>2 DEF EventOutcome
      <4>4. \A env, l : PreambleOutcome(env, l) \in {"ok", "format-error", "bounds-error"}
        BY DEF PreambleOutcome
      <4> QED
        BY <2>2, <4>3, <4>4 DEF LineOutcome
    <3>2. Refuse(LineOutcome(envelope, line))
      BY <1>2, <2>2 DEF ReadLine
    <3> QED
      BY <1>1, <3>1, <3>2 DEF Refusals
  <2> QED
    BY <2>1, <2>2
<1>3. CASE EndOfText
  <2>1. CASE EndOutcome(envelope) = "ok"
    <3>1. phase' = "accepted" /\ envelope' = envelope
      BY <1>3, <2>1 DEF EndOfText
    <3>2. envelope.preamble = Preamble
      BY <2>1 DEF EndOutcome
    <3>3. Complete(envelope.events)
      BY <2>1, <3>2, EndOutcomeIsComplete DEF EnvelopeInv
    <3> QED
      BY <3>1, <3>3 DEF EnvelopeInv
  <2>2. CASE EndOutcome(envelope) # "ok"
    <3>1. Refuse("format-error")
      BY <1>3, <2>2 DEF EndOfText, EndOutcome
    <3> QED
      BY <1>1, <3>1 DEF Refusals
  <2> QED
    BY <2>1, <2>2
<1>4. CASE ReadFails
  BY <1>1, <1>4 DEF ReadFails, Refusals
<1>5. ASSUME envelope' = envelope, phase \in {"accepted", "replaying"}
      PROVE  EnvelopeInv'
  BY <1>5 DEF EnvelopeInv
<1>6. CASE BeginReplay
  BY <1>5, <1>6 DEF BeginReplay
<1>7. CASE ReplayStep
  BY <1>5, <1>7 DEF ReplayStep, EnterTransfer, ReplayChunk, EndReplay, AtTransfer, Fail
<1>8. CASE UNCHANGED vars
  BY <1>8 DEF vars, EnvelopeInv
<1> QED
  BY <1>2, <1>3, <1>4, <1>6, <1>7, <1>8 DEF Next

\* The parser reads on exactly while the events so far can begin an envelope,
\* and at the end of the text accepts exactly the complete ones: for all limits,
\* and envelopes of any length.
THEOREM EnvelopesAlwaysParsed == CheckersSpec => []ParsesTheGrammar
<1>1. CheckersInit => EnvelopeInv
  BY InitEnvelopeInv DEF CheckersInit
<1>2. EnvelopeInv /\ [ActivationCheck \/ TranscriptCheck]_checkerVars => EnvelopeInv'
  BY NextEnvelopeInv DEF ActivationCheck, TranscriptCheck, checkerVars, vars
<1>3. EnvelopeInv => ParsesTheGrammar
  <2> SUFFICES ASSUME EnvelopeInv PROVE ParsesTheGrammar
    OBVIOUS
  <2>1. EnvelopeRight(envelope)
    BY DEF EnvelopeInv
  <2>2. envelope.events \in Seq(EventLines) /\ Viable(envelope.events)
    BY <2>1 DEF EnvelopeRight, EnvelopeType
  <2>3. ASSUME envelope.preamble = Preamble, NEW line \in Lines, line.kind = "event"
        PROVE  LineOutcome(envelope, line) = "ok"
                 <=> Viable(Append(envelope.events, line))
    <3>1. line \in EventLines /\ envelope.header
      BY <2>1, <2>3 DEF EventLines, EnvelopeRight, Preamble
    <3>2. LineOutcome(envelope, line) = EventOutcome(envelope, line)
      BY <2>3, <3>1 DEF LineOutcome, Preamble
    <3> QED
      BY <2>1, <2>2, <2>3, <3>1, <3>2, EventOutcomeIsFit, EventFitIsViable
  <2> QED
    BY <2>1, <2>2, <2>3, EndOutcomeIsComplete DEF ParsesTheGrammar
<1> QED
  BY <1>1, <1>2, <1>3, PTL DEF CheckersSpec
-----------------------------------------------------------------------------
(* The replay.                                                             *)

\* The chunks that some bytes are cut into, one chunk after the other.
ChunksOf(rest) == (rest + MaxChunk - 1) \div MaxChunk

LEMMA NoChunks == ChunksOf(0) = 0
BY MaxChunkAssumption, Z3 DEF ChunksOf

LEMMA LastChunk == ASSUME NEW rest \in Nat, 0 < rest, rest <= MaxChunk PROVE ChunksOf(rest) = 1
BY MaxChunkAssumption, Z3 DEF ChunksOf

LEMMA FullChunk ==
  ASSUME NEW rest \in Nat, rest > MaxChunk
  PROVE  ChunksOf(rest) = ChunksOf(rest - MaxChunk) + 1
BY MaxChunkAssumption, Z3 DEF ChunksOf

LEMMA ChunksType == ASSUME NEW rest \in Nat PROVE ChunksOf(rest) \in Nat
<1>1. rest + MaxChunk - 1 \in Nat
  BY MaxChunkAssumption
<1>2. \A a, k \in Nat : k # 0 => a \div k \in Nat
  BY Z3
<1> QED
  BY <1>1, <1>2, MaxChunkAssumption DEF ChunksOf

\* The sum of two sequences of numbers, term by term.
LEMMA TotalsAdd ==
  ASSUME NEW n \in Nat, NEW s \in [1 .. n -> Nat], NEW t \in [1 .. n -> Nat],
         NEW u \in [1 .. n -> Nat], \A k \in 1 .. n : u[k] = s[k] + t[k]
  PROVE  Total(u) = Total(s) + Total(t)
<1>1. /\ s \in Seq(Nat) /\ Len(s) = n /\ t \in Seq(Nat) /\ Len(t) = n
      /\ u \in Seq(Nat) /\ Len(u) = n
  BY NumbersAreASequence
<1>2. PICK f : IsSums(s, n, f) /\ Total(s) = f[n]
  BY <1>1, TotalIsSum
<1>3. PICK g : IsSums(t, n, g) /\ Total(t) = g[n]
  BY <1>1, TotalIsSum
<1>4. PICK h : IsSums(u, n, h) /\ Total(u) = h[n]
  BY <1>1, TotalIsSum
<1> DEFINE Right(k) == f[k] \in Nat /\ g[k] \in Nat /\ h[k] = f[k] + g[k]
           T == {k \in 0 .. n : ~Right(k)}
<1>5. SUFFICES ASSUME T # {} PROVE FALSE
  <2>1. n \in 0 .. n
    OBVIOUS
  <2>2. Right(n)
    BY <1>5, <2>1
  <2> QED
    BY <1>2, <1>3, <1>4, <2>2
<1>6. PICK m \in T : \A k \in T : m <= k
  <2> T \in SUBSET Nat
    OBVIOUS
  <2> HIDE DEF T
  <2> QED
    BY <1>5, Least
<1>7. /\ \A k \in 0 .. n : f[k] = IF k = 0 THEN 0 ELSE f[k - 1] + s[k]
      /\ \A k \in 0 .. n : g[k] = IF k = 0 THEN 0 ELSE g[k - 1] + t[k]
      /\ \A k \in 0 .. n : h[k] = IF k = 0 THEN 0 ELSE h[k - 1] + u[k]
  BY <1>2, <1>3, <1>4 DEF IsSums
<1>8. CASE m = 0
  <2>1. f[0] = 0 /\ g[0] = 0 /\ h[0] = 0
    BY <1>7
  <2> QED
    BY <1>6, <1>8, <2>1
<1>9. CASE m # 0
  <2>1. m \in 1 .. n /\ m - 1 \in 0 .. n /\ ~(m <= m - 1)
    BY <1>6, <1>9
  <2>2. Right(m - 1)
    BY <1>6, <2>1
  <2>3. /\ f[m] = f[m - 1] + s[m] /\ g[m] = g[m - 1] + t[m] /\ h[m] = h[m - 1] + u[m]
    <3>1. m \in 0 .. n
      BY <2>1
    <3> QED
      BY <1>7, <1>9, <3>1
  <2>4. PICK x \in Nat, y \in Nat : x = s[m] /\ y = t[m] /\ u[m] = x + y
    BY <2>1
  <2>5. PICK a \in Nat, b \in Nat : a = f[m - 1] /\ b = g[m - 1] /\ h[m - 1] = a + b
    BY <2>2
  <2>6. f[m] = a + x /\ g[m] = b + y /\ h[m] = (a + b) + (x + y)
    BY <2>3, <2>4, <2>5, Zenon
  <2>7. a + x \in Nat /\ b + y \in Nat /\ (a + b) + (x + y) = (a + x) + (b + y)
    OBVIOUS
  <2>8. Right(m)
    BY <2>6, <2>7, Zenon
  <2> QED
    BY <1>6, <2>8
<1> QED
  BY <1>8, <1>9

LEMMA TotalOfZeros ==
  ASSUME NEW n \in Nat, NEW s \in [1 .. n -> Nat], \A k \in 1 .. n : s[k] = 0
  PROVE  Total(s) = 0
<1>1. \A k \in 1 .. n : s[k] = s[k] + s[k]
  OBVIOUS
<1>2. Total(s) = Total(s) + Total(s)
  BY <1>1, TotalsAdd
<1>3. Total(s) \in Nat
  BY TotalType
<1> QED
  BY <1>2, <1>3

\* Sums over some positions of a list of events.
ChunksAt(es, P) == [i \in DOMAIN es |-> IF i \in P THEN ChunksOf(es[i].value.length) ELSE 0]

LEMMA ChunksAreTotals == ASSUME NEW es, NEW P PROVE Chunks(es, P) = Total(ChunksAt(es, P))
BY DEF Chunks, ChunksAt, ChunksOf

LEMMA ChunksAtType ==
  ASSUME NEW n \in Nat, NEW es, DOMAIN es = 1 .. n, \A i \in 1 .. n : es[i] \in EventLines,
         NEW P, \A i \in P : IsTransfer(es[i])
  PROVE  /\ ChunksAt(es, P) \in [1 .. n -> Nat]
         /\ \A i \in 1 .. n : /\ i \in P => ChunksAt(es, P)[i] = ChunksOf(es[i].value.length)
                              /\ i \notin P => ChunksAt(es, P)[i] = 0
<1>1. \A i \in 1 .. n : i \in P => ChunksOf(es[i].value.length) \in Nat
  BY EventFacts, ChunksType
<1>2. \A i \in 1 .. n : (IF i \in P THEN ChunksOf(es[i].value.length) ELSE 0) \in Nat
  BY <1>1
<1>3. ChunksAt(es, P) = [i \in 1 .. n |-> IF i \in P THEN ChunksOf(es[i].value.length) ELSE 0]
  BY DEF ChunksAt
<1>4. ChunksAt(es, P) \in [1 .. n -> Nat]
  BY <1>2, <1>3
<1> QED
  BY <1>3, <1>4

LEMMA NoPositions ==
  ASSUME NEW es \in Seq(EventLines)
  PROVE  Bytes(es, {}) = 0 /\ Chunks(es, {}) = 0
<1> DEFINE n == Len(es)
<1>1. n \in Nat /\ DOMAIN es = 1 .. n /\ \A i \in 1 .. n : es[i] \in EventLines
  BY LenProperties, ElementOfSeq
<1> HIDE DEF n
<1>2. LengthsAt(es, {}) \in [1 .. n -> Nat] /\ \A i \in 1 .. n : LengthsAt(es, {})[i] = 0
  BY <1>1, LengthsType
<1>3. ChunksAt(es, {}) \in [1 .. n -> Nat] /\ \A i \in 1 .. n : ChunksAt(es, {})[i] = 0
  BY <1>1, ChunksAtType
<1> QED
  BY <1>1, <1>2, <1>3, TotalOfZeros, BytesAreTotals, ChunksAreTotals

LEMMA OneMorePosition ==
  ASSUME NEW es \in Seq(EventLines), NEW P \in SUBSET DOMAIN es,
         NEW i \in DOMAIN es, i \notin P, \A j \in P \cup {i} : IsTransfer(es[j])
  PROVE  /\ Bytes(es, P) \in Nat /\ Chunks(es, P) \in Nat
         /\ Bytes(es, P \cup {i}) = Bytes(es, P) + es[i].value.length
         /\ Chunks(es, P \cup {i}) = Chunks(es, P) + ChunksOf(es[i].value.length)
<1> DEFINE n == Len(es)
           Q == P \cup {i}
<1>1. n \in Nat /\ DOMAIN es = 1 .. n /\ \A j \in 1 .. n : es[j] \in EventLines
  BY LenProperties, ElementOfSeq
<1>2. i \in 1 .. n /\ i \in Q /\ \A j \in 1 .. n : j # i => (j \in Q <=> j \in P)
  BY <1>1
<1>3. (\A j \in P : IsTransfer(es[j])) /\ \A j \in Q : IsTransfer(es[j])
  OBVIOUS
<1> HIDE DEF n, Q
<1>4. Bytes(es, P) \in Nat /\ Bytes(es, Q) = Bytes(es, P) + es[i].value.length
  <2> DEFINE s == LengthsAt(es, P)
             t == LengthsAt(es, Q)
  <2>1. /\ s \in [1 .. n -> Nat]
        /\ \A j \in 1 .. n : /\ j \in P => s[j] = es[j].value.length
                             /\ j \notin P => s[j] = 0
    BY <1>1, <1>3, LengthsType
  <2>2. /\ t \in [1 .. n -> Nat]
        /\ \A j \in 1 .. n : /\ j \in Q => t[j] = es[j].value.length
                             /\ j \notin Q => t[j] = 0
    BY <1>1, <1>3, LengthsType
  <2> HIDE DEF s, t
  <2>3. \A j \in 1 .. n : j # i => t[j] = s[j]
    BY <1>2, <2>1, <2>2
  <2>4. Total(t) + s[i] = Total(s) + t[i] /\ Total(s) \in Nat /\ Total(t) \in Nat
    BY <1>1, <1>2, <2>1, <2>2, <2>3, TotalChanged, TotalType
  <2>5. s[i] = 0 /\ t[i] = es[i].value.length
    BY <1>2, <2>1, <2>2
  <2>6. Total(t) = Total(s) + es[i].value.length
    BY <2>4, <2>5
  <2> QED
    BY <2>4, <2>6, BytesAreTotals DEF s, t
<1>5. Chunks(es, P) \in Nat /\ Chunks(es, Q) = Chunks(es, P) + ChunksOf(es[i].value.length)
  <2> DEFINE s == ChunksAt(es, P)
             t == ChunksAt(es, Q)
  <2>1. /\ s \in [1 .. n -> Nat]
        /\ \A j \in 1 .. n : /\ j \in P => s[j] = ChunksOf(es[j].value.length)
                             /\ j \notin P => s[j] = 0
    BY <1>1, <1>3, ChunksAtType
  <2>2. /\ t \in [1 .. n -> Nat]
        /\ \A j \in 1 .. n : /\ j \in Q => t[j] = ChunksOf(es[j].value.length)
                             /\ j \notin Q => t[j] = 0
    BY <1>1, <1>3, ChunksAtType
  <2> HIDE DEF s, t
  <2>3. \A j \in 1 .. n : j # i => t[j] = s[j]
    BY <1>2, <2>1, <2>2
  <2>4. Total(t) + s[i] = Total(s) + t[i] /\ Total(s) \in Nat /\ Total(t) \in Nat
    BY <1>1, <1>2, <2>1, <2>2, <2>3, TotalChanged, TotalType
  <2>5. s[i] = 0 /\ t[i] = ChunksOf(es[i].value.length)
    BY <1>2, <2>1, <2>2
  <2>6. Total(t) = Total(s) + ChunksOf(es[i].value.length)
    BY <2>4, <2>5
  <2> QED
    BY <2>4, <2>6, ChunksAreTotals DEF s, t
<1> QED
  BY <1>4, <1>5 DEF Q

LEMMA SplitPositions ==
  ASSUME NEW es \in Seq(EventLines), NEW P \in SUBSET DOMAIN es, NEW Q \in SUBSET P,
         \A j \in P : IsTransfer(es[j])
  PROVE  /\ Bytes(es, P) = Bytes(es, Q) + Bytes(es, P \ Q)
         /\ Bytes(es, Q) \in Nat /\ Bytes(es, P \ Q) \in Nat
<1> DEFINE n == Len(es)
           R == P \ Q
           s == LengthsAt(es, Q)
           t == LengthsAt(es, R)
           u == LengthsAt(es, P)
<1>1. n \in Nat /\ DOMAIN es = 1 .. n /\ \A j \in 1 .. n : es[j] \in EventLines
  BY LenProperties, ElementOfSeq
<1>2. (\A j \in Q : IsTransfer(es[j])) /\ (\A j \in R : IsTransfer(es[j]))
  OBVIOUS
<1>3. \A j : j \in R <=> j \in P /\ j \notin Q
  OBVIOUS
<1> HIDE DEF n, R
<1>4. /\ s \in [1 .. n -> Nat]
      /\ \A j \in 1 .. n : /\ j \in Q => s[j] = es[j].value.length
                           /\ j \notin Q => s[j] = 0
  BY <1>1, <1>2, LengthsType
<1>5. /\ t \in [1 .. n -> Nat]
      /\ \A j \in 1 .. n : /\ j \in R => t[j] = es[j].value.length
                           /\ j \notin R => t[j] = 0
  BY <1>1, <1>2, LengthsType
<1>6. /\ u \in [1 .. n -> Nat]
      /\ \A j \in 1 .. n : /\ j \in P => u[j] = es[j].value.length
                           /\ j \notin P => u[j] = 0
  BY <1>1, LengthsType
<1> HIDE DEF s, t, u
<1>7. \A j \in 1 .. n : u[j] = s[j] + t[j]
  BY <1>3, <1>4, <1>5, <1>6
<1>8. Total(u) = Total(s) + Total(t)
  <2>1. s \in [1 .. n -> Nat] /\ t \in [1 .. n -> Nat] /\ u \in [1 .. n -> Nat]
    BY <1>4, <1>5, <1>6
  <2> QED
    BY <1>1, <1>7, <2>1, TotalsAdd
<1>9. Total(s) \in Nat /\ Total(t) \in Nat
  BY <1>1, <1>4, <1>5, TotalType
<1> QED
  BY <1>8, <1>9, BytesAreTotals DEF s, t, u, R

\* The window of a complete envelope is everything between its two indices.
LEMMA WindowIsBetween ==
  ASSUME NEW env, EnvelopeRight(env), Complete(env.events)
  PROVE  LET a == env.actionIndex
             z == env.stableIndex
         IN  /\ a \in Nat /\ z \in Nat /\ a < z /\ z < Len(env.events)
             /\ Len(env.events) \in Nat
             /\ \A i : i \in Window(env.events) <=> i \in Nat /\ a + 1 < i /\ i <= z
<1> DEFINE es == env.events
           a == env.actionIndex
           z == env.stableIndex
           len == Len(es)
<1>1. /\ env \in EnvelopeType /\ Viable(es) /\ Counted(env)
      /\ \A m \in 1 .. 4 : Where(es, Markers[m]) # {}
  BY MarkerNames DEF EnvelopeRight, Complete
<1>2. es \in Seq(EventLines) /\ a \in Nat /\ z \in Nat
  BY <1>1 DEF EnvelopeType
<1>3. len \in Nat /\ DOMAIN es = 1 .. len
  BY <1>2, LenProperties
<1>4. \A i \in 1 .. len : \A m \in 1 .. 4 : Is(es[i], Markers[m]) =>
        /\ Where(es, Markers[m]) = {i}
        /\ \A k \in 1 .. (m - 1) :
             \E j \in 1 .. (i - 1) : j \in 1 .. len /\ Is(es[j], Markers[k])
  BY <1>1, <1>2, MarkersAreRight
<1>5. \A i, m : i \in Where(es, m) <=> i \in 1 .. len /\ Is(es[i], m)
  BY <1>3 DEF Where
<1>6. /\ \A i \in Where(es, Markers[2]) : a = i - 1
      /\ \A i \in Where(es, Markers[3]) : z = i - 1
  BY <1>1, MarkerNames DEF Counted
<1>7. \A i \in 1 .. len : ~IsTransfer(es[i]) => \E m \in 1 .. 4 : MarkerIsRight(es, i, m)
  BY <1>1, <1>3, MarkerNames DEF Viable
<1>8. Window(es) = {i \in Between(es, Markers[2], Markers[3]) : IsTransfer(es[i])}
  BY MarkerNames DEF Window
<1> HIDE DEF es, a, z, len
<1>9. PICK p2 \in 1 .. len : Is(es[p2], Markers[2])
  BY <1>1, <1>5
<1>10. PICK p3 \in 1 .. len : Is(es[p3], Markers[3])
  BY <1>1, <1>5
<1>11. PICK p4 \in 1 .. len : Is(es[p4], Markers[4])
  BY <1>1, <1>5
<1>12. /\ Where(es, Markers[2]) = {p2} /\ Where(es, Markers[3]) = {p3}
       /\ Where(es, Markers[4]) = {p4}
  BY <1>4, <1>9, <1>10, <1>11
<1>13. p2 = a + 1 /\ p3 = z + 1
  BY <1>2, <1>3, <1>6, <1>12
<1>14. p2 < p3 /\ p3 < p4
  <2>1. PICK j \in 1 .. (p3 - 1) : j \in 1 .. len /\ Is(es[j], Markers[2])
    BY <1>4, <1>10
  <2>2. PICK k \in 1 .. (p4 - 1) : k \in 1 .. len /\ Is(es[k], Markers[3])
    BY <1>4, <1>11
  <2>3. j = p2 /\ k = p3
    BY <1>5, <1>12, <2>1, <2>2
  <2> QED
    BY <1>3, <2>1, <2>2, <2>3
<1>15. \A i : i \in Between(es, Markers[2], Markers[3]) <=> i \in 1 .. len /\ p2 < i /\ i < p3
  BY <1>3, <1>12 DEF Between
<1>16. ASSUME NEW i \in 1 .. len, p2 < i, i < p3
       PROVE  IsTransfer(es[i])
  <2>1. SUFFICES ASSUME ~IsTransfer(es[i]) PROVE FALSE
    OBVIOUS
  <2>2. PICK m \in 1 .. 4 : MarkerIsRight(es, i, m)
    BY <1>7, <2>1
  <2>3. Where(es, Markers[m]) = {i}
    BY <2>2 DEF MarkerIsRight
  <2>4. m # 2 /\ m # 3
    BY <1>3, <1>12, <1>16, <2>3
  <2>5. CASE m = 1
    <3>1. PICK j \in 1 .. (p2 - 1) : j \in 1 .. len /\ Is(es[j], Markers[1])
      BY <1>4, <1>9
    <3>2. j = i
      BY <1>5, <2>3, <2>5, <3>1
    <3> QED
      BY <1>3, <1>16, <3>1, <3>2
  <2>6. CASE m = 4
    <3>1. i = p4
      BY <1>12, <2>3, <2>6
    <3> QED
      BY <1>3, <1>14, <1>16, <3>1
  <2> QED
    BY <2>4, <2>5, <2>6
<1>17. \A i : i \in Window(es) <=> i \in 1 .. len /\ p2 < i /\ i < p3
  BY <1>8, <1>15, <1>16
<1>18. \A i : i \in Window(es) <=> i \in Nat /\ a + 1 < i /\ i <= z
  BY <1>2, <1>3, <1>13, <1>17
<1>19. a < z /\ z < len
  BY <1>2, <1>3, <1>13, <1>14
<1> QED
  BY <1>2, <1>3, <1>18, <1>19 DEF es, a, z, len

\* What the report counts of the transfers at some positions.
Bulk(es, E) == {i \in E : es[i].value.transfer = "bulk"}

Empty(es, E) == {i \in Bulk(es, E) : es[i].value.length = 0}

Towards(es, E, d) == {i \in Bulk(es, E) : es[i].value.direction = d}

LEMMA OneMoreTransfer ==
  ASSUME NEW es \in Seq(EventLines), NEW E \in SUBSET Window(es),
         NEW i \in Window(es), i \notin E
  PROVE  LET v == es[i].value
             F == E \cup {i}
             n(S) == Cardinality(S)
         IN  /\ n(Bulk(es, E)) \in Nat /\ n(Empty(es, E)) \in Nat
             /\ n(E \ Bulk(es, E)) \in Nat /\ Chunks(es, Bulk(es, E)) \in Nat
             /\ \A d : Bytes(es, Towards(es, E, d)) \in Nat
             /\ v.transfer # "bulk" =>
                  /\ Bulk(es, F) = Bulk(es, E) /\ Empty(es, F) = Empty(es, E)
                  /\ \A d : Towards(es, F, d) = Towards(es, E, d)
                  /\ n(F \ Bulk(es, F)) = n(E \ Bulk(es, E)) + 1
             /\ v.transfer = "bulk" =>
                  /\ n(F \ Bulk(es, F)) = n(E \ Bulk(es, E))
                  /\ n(Bulk(es, F)) = n(Bulk(es, E)) + 1
                  /\ v.length = 0 => n(Empty(es, F)) = n(Empty(es, E)) + 1
                  /\ v.length # 0 => n(Empty(es, F)) = n(Empty(es, E))
                  /\ Chunks(es, Bulk(es, F)) = Chunks(es, Bulk(es, E)) + ChunksOf(v.length)
                  /\ \A d : /\ v.direction = d => Bytes(es, Towards(es, F, d))
                                                    = Bytes(es, Towards(es, E, d)) + v.length
                            /\ v.direction # d => Bytes(es, Towards(es, F, d))
                                                    = Bytes(es, Towards(es, E, d))
<1> DEFINE v == es[i].value
           F == E \cup {i}
<1>1. /\ E \in SUBSET DOMAIN es /\ i \in DOMAIN es /\ IsFiniteSet(E)
      /\ \A j \in E \cup {i} : IsTransfer(es[j])
  <2>1. IsFiniteSet(1 .. Len(es)) /\ DOMAIN es = 1 .. Len(es)
    BY Interval, LenProperties
  <2>2. Window(es) \subseteq DOMAIN es /\ \A j \in Window(es) : IsTransfer(es[j])
    BY DEF Window, Between
  <2>3. E \in SUBSET DOMAIN es
    BY <2>2
  <2> QED
    BY <2>1, <2>2, <2>3, FS_Subset
<1> DEFINE Rest(S) == S \ Bulk(es, S)
<1>2. /\ Bulk(es, E) \subseteq E /\ Empty(es, E) \subseteq E /\ Rest(E) \subseteq E
      /\ \A d : Towards(es, E, d) \subseteq E
  BY DEF Bulk, Empty, Towards
<1>3. /\ IsFiniteSet(Bulk(es, E)) /\ IsFiniteSet(Empty(es, E)) /\ IsFiniteSet(Rest(E))
      /\ Cardinality(Bulk(es, E)) \in Nat /\ Cardinality(Empty(es, E)) \in Nat
      /\ Cardinality(Rest(E)) \in Nat
  BY <1>1, <1>2, FS_Subset, FS_CardinalityType
<1>4. \A P \in SUBSET E : /\ P \in SUBSET DOMAIN es /\ i \notin P
                          /\ \A j \in P \cup {i} : IsTransfer(es[j])
  BY <1>1
<1>5. \A P \in SUBSET E :
        /\ Bytes(es, P) \in Nat /\ Chunks(es, P) \in Nat
        /\ Bytes(es, P \cup {i}) = Bytes(es, P) + v.length
        /\ Chunks(es, P \cup {i}) = Chunks(es, P) + ChunksOf(v.length)
  BY <1>1, <1>4, OneMorePosition
<1>6. \A P \in SUBSET E : IsFiniteSet(P) => Cardinality(P \cup {i}) = Cardinality(P) + 1
  BY FS_AddElement
<1>7. /\ Chunks(es, Bulk(es, E)) \in Nat
      /\ \A d : Bytes(es, Towards(es, E, d)) \in Nat
  BY <1>2, <1>5
<1>8. ASSUME v.transfer # "bulk"
      PROVE  /\ Bulk(es, F) = Bulk(es, E) /\ Empty(es, F) = Empty(es, E)
             /\ \A d : Towards(es, F, d) = Towards(es, E, d)
             /\ Cardinality(Rest(F)) = Cardinality(Rest(E)) + 1
  <2>1. Bulk(es, F) = Bulk(es, E)
    BY <1>8 DEF Bulk
  <2>2. Rest(F) = Rest(E) \cup {i}
    BY <1>2, <2>1
  <2> HIDE DEF Rest
  <2> QED
    BY <1>2, <1>3, <1>6, <2>1, <2>2 DEF Empty, Towards
<1>9. ASSUME v.transfer = "bulk"
      PROVE  /\ Cardinality(Rest(F)) = Cardinality(Rest(E))
             /\ Cardinality(Bulk(es, F)) = Cardinality(Bulk(es, E)) + 1
             /\ v.length = 0 => Cardinality(Empty(es, F)) = Cardinality(Empty(es, E)) + 1
             /\ v.length # 0 => Cardinality(Empty(es, F)) = Cardinality(Empty(es, E))
             /\ Chunks(es, Bulk(es, F)) = Chunks(es, Bulk(es, E)) + ChunksOf(v.length)
             /\ \A d : /\ v.direction = d => Bytes(es, Towards(es, F, d))
                                               = Bytes(es, Towards(es, E, d)) + v.length
                       /\ v.direction # d => Bytes(es, Towards(es, F, d))
                                               = Bytes(es, Towards(es, E, d))
  <2>1. Bulk(es, F) = Bulk(es, E) \cup {i}
    BY <1>9 DEF Bulk
  <2>2. Rest(F) = Rest(E)
    BY <1>2, <2>1
  <2> HIDE DEF Rest
  <2>3. /\ v.length = 0 => Empty(es, F) = Empty(es, E) \cup {i}
        /\ v.length # 0 => Empty(es, F) = Empty(es, E)
    BY <2>1 DEF Empty
  <2>4. \A d : /\ v.direction = d => Towards(es, F, d) = Towards(es, E, d) \cup {i}
               /\ v.direction # d => Towards(es, F, d) = Towards(es, E, d)
    BY <2>1 DEF Towards
  <2> HIDE DEF v, F
  <2>5. /\ Cardinality(Bulk(es, F)) = Cardinality(Bulk(es, E)) + 1
        /\ v.length = 0 => Cardinality(Empty(es, F)) = Cardinality(Empty(es, E)) + 1
        /\ v.length # 0 => Cardinality(Empty(es, F)) = Cardinality(Empty(es, E))
    BY <1>2, <1>3, <1>6, <2>1, <2>3
  <2>6. Chunks(es, Bulk(es, F)) = Chunks(es, Bulk(es, E)) + ChunksOf(v.length)
    BY <1>2, <1>5, <2>1
  <2>7. \A d : v.direction = d => Bytes(es, Towards(es, F, d))
                                    = Bytes(es, Towards(es, E, d)) + v.length
    BY <1>2, <1>5, <2>4
  <2>8. \A d : v.direction # d => Bytes(es, Towards(es, F, d)) = Bytes(es, Towards(es, E, d))
    BY <2>4
  <2> QED
    BY <2>2, <2>5, <2>6, <2>7, <2>8
<1> HIDE DEF v, F
<1>10. v = es[i].value /\ F = E \cup {i}
  BY DEF v, F
<1> QED
  BY <1>3, <1>7, <1>8, <1>9, <1>10

\* A report of the transfers at some positions, of which the last one has some
\* bytes to go in its direction.
ReportType == [bulk : Nat, control : Nat, zero : Nat, packets : Nat, out : Nat, in : Nat]

Ahead(rest, d, direction) == IF d = direction THEN rest ELSE 0

Reports(es, E, r, rest, d) ==
  /\ r.bulk = Cardinality(Bulk(es, E)) /\ r.zero = Cardinality(Empty(es, E))
  /\ r.control = Cardinality(E \ Bulk(es, E))
  /\ r.packets + ChunksOf(rest) = Chunks(es, Bulk(es, E))
  /\ r.out + Ahead(rest, d, "out") = Bytes(es, Towards(es, E, "out"))
  /\ r.in + Ahead(rest, d, "in") = Bytes(es, Towards(es, E, "in"))

LEMMA NothingReported ==
  ASSUME NEW es \in Seq(EventLines)
  PROVE  \A d : Reports(es, {}, NoReport, 0, d)
<1>1. /\ Bulk(es, {}) = {} /\ Empty(es, {}) = {} /\ {} \ Bulk(es, {}) = {}
      /\ \A d : Towards(es, {}, d) = {}
  BY DEF Bulk, Empty, Towards
<1>2. Cardinality({}) = 0
  BY FS_EmptySet
<1>3. \A d, direction : Ahead(0, d, direction) = 0
  BY DEF Ahead
<1>4. /\ NoReport.bulk = 0 /\ NoReport.zero = 0 /\ NoReport.control = 0
      /\ NoReport.packets = 0 /\ NoReport.out = 0 /\ NoReport.in = 0
  BY DEF NoReport
<1>5. 0 + 0 = 0
  OBVIOUS
<1> QED
  BY <1>1, <1>2, <1>3, <1>4, <1>5, NoPositions, NoChunks, Zenon DEF Reports

LEMMA TransferReported ==
  ASSUME NEW es \in Seq(EventLines), NEW E \in SUBSET Window(es),
         NEW i \in Window(es), i \notin E, NEW r \in ReportType,
         \A d : Reports(es, E, r, 0, d)
  PROVE  LET v == es[i].value
             F == E \cup {i}
         IN  /\ v.transfer # "bulk" =>
                  \A d : Reports(es, F, [r EXCEPT !.control = @ + 1], 0, d)
             /\ v.transfer = "bulk" /\ v.length = 0 =>
                  \A d : Reports(es, F, [r EXCEPT !.bulk = @ + 1, !.zero = @ + 1], 0, d)
             /\ v.transfer = "bulk" /\ v.length # 0 =>
                  Reports(es, F, [r EXCEPT !.bulk = @ + 1], v.length, v.direction)
<1> DEFINE v == es[i].value
           F == E \cup {i}
<1>1. /\ r.bulk = Cardinality(Bulk(es, E)) /\ r.zero = Cardinality(Empty(es, E))
      /\ r.control = Cardinality(E \ Bulk(es, E))
      /\ r.packets + 0 = Chunks(es, Bulk(es, E))
      /\ r.out + 0 = Bytes(es, Towards(es, E, "out"))
      /\ r.in + 0 = Bytes(es, Towards(es, E, "in"))
  BY NoChunks DEF Reports, Ahead
<1>2. /\ r.bulk \in Nat /\ r.zero \in Nat /\ r.control \in Nat
      /\ r.packets \in Nat /\ r.out \in Nat /\ r.in \in Nat
  BY DEF ReportType
<1>3. /\ r.packets = Chunks(es, Bulk(es, E))
      /\ r.out = Bytes(es, Towards(es, E, "out")) /\ r.in = Bytes(es, Towards(es, E, "in"))
  BY <1>1, <1>2
<1>4. \A d, direction : Ahead(0, d, direction) = 0
  BY DEF Ahead
<1>5. v.length \in Nat
  <2>1. i \in DOMAIN es /\ IsTransfer(es[i])
    BY DEF Window, Between
  <2>2. es[i] \in EventLines
    BY <2>1, ElementOfSeq, LenProperties
  <2> QED
    BY <2>1, <2>2, EventFacts
<1> HIDE DEF v, F
<1>6. ASSUME v.transfer # "bulk", NEW d
      PROVE  Reports(es, F, [r EXCEPT !.control = @ + 1], 0, d)
  <2> DEFINE q == [r EXCEPT !.control = @ + 1]
  <2>1. /\ Bulk(es, F) = Bulk(es, E) /\ Empty(es, F) = Empty(es, E)
        /\ Towards(es, F, "out") = Towards(es, E, "out")
        /\ Towards(es, F, "in") = Towards(es, E, "in")
        /\ Cardinality(F \ Bulk(es, F)) = Cardinality(E \ Bulk(es, E)) + 1
    BY <1>6, OneMoreTransfer DEF v, F
  <2>2. /\ q.bulk = r.bulk /\ q.zero = r.zero /\ q.control = r.control + 1
        /\ q.packets = r.packets /\ q.out = r.out /\ q.in = r.in
    BY DEF ReportType
  <2> HIDE DEF q
  <2>3. /\ q.bulk = Cardinality(Bulk(es, F)) /\ q.zero = Cardinality(Empty(es, F))
        /\ q.control = Cardinality(F \ Bulk(es, F))
    BY <1>1, <2>1, <2>2
  <2>4. /\ q.packets + 0 = Chunks(es, Bulk(es, F))
        /\ q.out + 0 = Bytes(es, Towards(es, F, "out"))
        /\ q.in + 0 = Bytes(es, Towards(es, F, "in"))
    BY <1>1, <2>1, <2>2
  <2>5. Reports(es, F, q, 0, d)
    BY <1>4, <2>3, <2>4, NoChunks DEF Reports
  <2> QED
    BY <2>5 DEF q
<1>7. ASSUME v.transfer = "bulk"
      PROVE  /\ Cardinality(F \ Bulk(es, F)) = r.control
             /\ Cardinality(Bulk(es, F)) = r.bulk + 1
             /\ v.length = 0 => Cardinality(Empty(es, F)) = r.zero + 1
             /\ v.length # 0 => Cardinality(Empty(es, F)) = r.zero
             /\ Chunks(es, Bulk(es, F)) = r.packets + ChunksOf(v.length)
             /\ Bytes(es, Towards(es, F, "out")) = r.out + Ahead(v.length, v.direction, "out")
             /\ Bytes(es, Towards(es, F, "in")) = r.in + Ahead(v.length, v.direction, "in")
  <2>1. /\ Cardinality(F \ Bulk(es, F)) = Cardinality(E \ Bulk(es, E))
        /\ Cardinality(Bulk(es, F)) = Cardinality(Bulk(es, E)) + 1
        /\ v.length = 0 => Cardinality(Empty(es, F)) = Cardinality(Empty(es, E)) + 1
        /\ v.length # 0 => Cardinality(Empty(es, F)) = Cardinality(Empty(es, E))
        /\ Chunks(es, Bulk(es, F)) = Chunks(es, Bulk(es, E)) + ChunksOf(v.length)
    BY <1>7, OneMoreTransfer DEF v, F
  <2>2. \A d : /\ v.direction = d => Bytes(es, Towards(es, F, d))
                                       = Bytes(es, Towards(es, E, d)) + v.length
               /\ v.direction # d => Bytes(es, Towards(es, F, d))
                                       = Bytes(es, Towards(es, E, d))
    BY <1>7, OneMoreTransfer DEF v, F
  <2>3. Bytes(es, Towards(es, F, "out")) = r.out + Ahead(v.length, v.direction, "out")
    <3>1. CASE v.direction = "out"
      BY <1>3, <2>2, <3>1 DEF Ahead
    <3>2. CASE v.direction # "out"
      BY <1>1, <2>2, <3>2 DEF Ahead
    <3> QED
      BY <3>1, <3>2
  <2>4. Bytes(es, Towards(es, F, "in")) = r.in + Ahead(v.length, v.direction, "in")
    <3>1. CASE v.direction = "in"
      BY <1>3, <2>2, <3>1 DEF Ahead
    <3>2. CASE v.direction # "in"
      BY <1>1, <2>2, <3>2 DEF Ahead
    <3> QED
      BY <3>1, <3>2
  <2> QED
    BY <1>1, <1>3, <2>1, <2>3, <2>4
<1>8. ASSUME v.transfer = "bulk", v.length = 0, NEW d
      PROVE  Reports(es, F, [r EXCEPT !.bulk = @ + 1, !.zero = @ + 1], 0, d)
  <2> DEFINE q == [r EXCEPT !.bulk = @ + 1, !.zero = @ + 1]
  <2>1. /\ q.bulk = r.bulk + 1 /\ q.zero = r.zero + 1 /\ q.control = r.control
        /\ q.packets = r.packets /\ q.out = r.out /\ q.in = r.in
    BY DEF ReportType
  <2> HIDE DEF q
  <2>2. \A direction : Ahead(v.length, v.direction, direction) = 0
    BY <1>8 DEF Ahead
  <2>3. Reports(es, F, q, 0, d)
    BY <1>4, <1>7, <1>8, <2>1, <2>2 DEF Reports
  <2> QED
    BY <2>3 DEF q
<1>9. ASSUME v.transfer = "bulk", v.length # 0
      PROVE  Reports(es, F, [r EXCEPT !.bulk = @ + 1], v.length, v.direction)
  <2> DEFINE q == [r EXCEPT !.bulk = @ + 1]
  <2>1. /\ q.bulk = r.bulk + 1 /\ q.zero = r.zero /\ q.control = r.control
        /\ q.packets = r.packets /\ q.out = r.out /\ q.in = r.in
    BY DEF ReportType
  <2> HIDE DEF q
  <2>2. Reports(es, F, q, v.length, v.direction)
    BY <1>7, <1>9, <2>1 DEF Reports
  <2> QED
    BY <2>2 DEF q
<1> QED
  BY <1>6, <1>8, <1>9 DEF v, F

\* The next chunk of what is left, and the report with it.
ChunkFrom(rest) == IF rest < MaxChunk THEN rest ELSE MaxChunk

WithChunk(r, d, chunk) ==
  IF d = "out" THEN [r EXCEPT !.packets = @ + 1, !.out = @ + chunk]
  ELSE [r EXCEPT !.packets = @ + 1, !.in = @ + chunk]

LEMMA ChunkReported ==
  ASSUME NEW es, NEW E, NEW r \in ReportType, NEW rest \in Nat, rest > 0, NEW d \in {"out", "in"},
         Reports(es, E, r, rest, d)
  PROVE  LET chunk == ChunkFrom(rest)
             q == WithChunk(r, d, chunk)
         IN  /\ rest - chunk \in Nat /\ q \in ReportType
             /\ Reports(es, E, q, rest - chunk, d)
             /\ rest - chunk = 0 => \A any : Reports(es, E, q, 0, any)
<1> DEFINE chunk == ChunkFrom(rest)
           q == WithChunk(r, d, chunk)
           left == rest - chunk
<1>1. /\ chunk \in Nat /\ left \in Nat /\ left + chunk = rest
  BY MaxChunkAssumption DEF ChunkFrom
<1>2. ChunksOf(rest) = ChunksOf(left) + 1 /\ ChunksOf(left) \in Nat
  <2>1. CASE rest <= MaxChunk
    <3>1. left = 0 /\ ChunksOf(rest) = 1
      BY <2>1, MaxChunkAssumption, LastChunk DEF ChunkFrom
    <3> QED
      BY <3>1, NoChunks
  <2>2. CASE rest > MaxChunk
    <3>1. left = rest - MaxChunk
      BY <2>2, MaxChunkAssumption DEF ChunkFrom
    <3> QED
      BY <1>1, <2>2, <3>1, FullChunk, ChunksType
  <2> QED
    BY <2>1, <2>2, MaxChunkAssumption
<1>3. /\ r.bulk \in Nat /\ r.zero \in Nat /\ r.control \in Nat
      /\ r.packets \in Nat /\ r.out \in Nat /\ r.in \in Nat
  BY DEF ReportType
<1> HIDE DEF chunk, left
<1>4. /\ q \in ReportType /\ q.bulk = r.bulk /\ q.zero = r.zero /\ q.control = r.control
      /\ q.packets = r.packets + 1
      /\ q.out = IF d = "out" THEN r.out + chunk ELSE r.out
      /\ q.in = IF d = "in" THEN r.in + chunk ELSE r.in
  <2>1. PICK packets \in Nat : packets = r.packets + 1
    BY <1>3
  <2>2. CASE d = "out"
    <3>1. PICK out \in Nat : out = r.out + chunk
      BY <1>1, <1>3
    <3>2. q = [r EXCEPT !.packets = packets, !.out = out]
      BY <2>1, <2>2, <3>1 DEF WithChunk
    <3> HIDE DEF q
    <3> QED
      BY <2>1, <2>2, <3>1, <3>2 DEF ReportType
  <2>3. CASE d = "in"
    <3>1. PICK in \in Nat : in = r.in + chunk
      BY <1>1, <1>3
    <3>2. q = [r EXCEPT !.packets = packets, !.in = in]
      BY <2>1, <2>3, <3>1 DEF WithChunk
    <3> HIDE DEF q
    <3> QED
      BY <2>1, <2>3, <3>1, <3>2 DEF ReportType
  <2> QED
    BY <2>2, <2>3
<1> HIDE DEF q
<1>5. q.packets + ChunksOf(left) = r.packets + ChunksOf(rest)
  BY <1>2, <1>3, <1>4
<1>6. q.out + Ahead(left, d, "out") = r.out + Ahead(rest, d, "out")
  BY <1>1, <1>3, <1>4 DEF Ahead
<1>7. q.in + Ahead(left, d, "in") = r.in + Ahead(rest, d, "in")
  BY <1>1, <1>3, <1>4 DEF Ahead
<1>8. Reports(es, E, q, left, d)
  BY <1>4, <1>5, <1>6, <1>7 DEF Reports
<1>9. left = 0 => \A any : Reports(es, E, q, 0, any)
  BY <1>8 DEF Reports, Ahead
<1> QED
  BY <1>1, <1>4, <1>8, <1>9 DEF q, chunk, left

\* The transfers of the window up to some position, and those that the replay
\* has entered: the one it is at is among them once part of it has to go.
UpTo(env, k) == {i \in Window(env.events) : i <= k}

LEMMA NextInWindow ==
  ASSUME NEW env, EnvelopeRight(env), Complete(env.events),
         NEW k \in Nat, env.actionIndex + 1 <= k, k < env.stableIndex
  PROVE  /\ k + 1 \in Window(env.events) /\ k + 1 \notin UpTo(env, k)
         /\ UpTo(env, k + 1) = UpTo(env, k) \cup {k + 1}
         /\ env.events \in Seq(EventLines)
         /\ env.events[k + 1].value.length \in Nat
         /\ env.events[k + 1].value.type = "transfer"
         /\ TransferIsAllowlisted(env.events[k + 1].value)
         /\ \/ env.events[k + 1].value.transfer = "control"
            \/ /\ env.events[k + 1].value.transfer = "bulk"
               /\ env.events[k + 1].value.direction \in {"out", "in"}
<1> DEFINE es == env.events
           a == env.actionIndex
           z == env.stableIndex
<1>1. /\ a \in Nat /\ z \in Nat
      /\ \A i : i \in Window(es) <=> i \in Nat /\ a + 1 < i /\ i <= z
  BY WindowIsBetween
<1>2. es \in Seq(EventLines) /\ Viable(es)
  BY DEF EnvelopeRight, EnvelopeType
<1> HIDE DEF es, a, z
<1>3. k + 1 \in Window(es)
  BY <1>1 DEF a, z
<1>4. k + 1 \notin UpTo(env, k)
  BY DEF UpTo
<1>5. UpTo(env, k + 1) = UpTo(env, k) \cup {k + 1}
  <2>1. \A i : i \in Nat => (i <= k + 1 <=> i <= k \/ i = k + 1)
    OBVIOUS
  <2>2. \A i \in Window(es) : i \in Nat
    BY <1>1
  <2> QED
    BY <1>3, <2>1, <2>2 DEF UpTo, es
<1>6. /\ k + 1 \in DOMAIN es /\ IsTransfer(es[k + 1])
  BY <1>3 DEF Window, Between
<1>7. es[k + 1] \in EventLines
  BY <1>2, <1>6, ElementOfSeq, LenProperties
<1>8. TransferIsAllowlisted(es[k + 1].value)
  BY <1>2, <1>6 DEF Viable, TransferIsRight
<1>9. es[k + 1].value.length \in Nat
  BY <1>6, <1>7, EventFacts
<1> QED
  BY <1>2, <1>3, <1>4, <1>5, <1>6, <1>8, <1>9 DEF TransferIsAllowlisted, IsTransfer, es

\* While the replay goes on its report is right for the transfers it has been
\* through, and for the part of one it is in.
Replaying ==
  /\ index \in Nat /\ remaining \in Nat /\ report \in ReportType
  /\ envelope.actionIndex + 1 <= index /\ index <= envelope.stableIndex
  /\ remaining = 0 =>
       \A d : Reports(envelope.events, UpTo(envelope, index), report, 0, d)
  /\ remaining > 0 =>
       /\ index < envelope.stableIndex /\ Value.direction \in {"out", "in"}
       /\ Reports(envelope.events, UpTo(envelope, index + 1), report, remaining,
                  Value.direction)

ReplayInv ==
  /\ EnvelopeInv
  /\ phase \in {"reading", "accepted"} => remaining = 0 /\ report = NoReport
  /\ phase \in {"replaying", "replayed"} => Replaying
  /\ phase = "replayed" => remaining = 0 /\ index = envelope.stableIndex

LEMMA InitReplayInv == Init => ReplayInv
BY InitEnvelopeInv DEF Init, ReplayInv

LEMMA ReadKeepsReplayInv ==
  ASSUME ReplayInv, (\E line \in Lines : ReadLine(line)) \/ EndOfText \/ ReadFails
  PROVE  ReplayInv'
<1>1. EnvelopeInv'
  BY NextEnvelopeInv DEF ReplayInv, Next
<1>2. phase = "reading" /\ remaining = 0 /\ report = NoReport
  BY DEF ReadLine, EndOfText, ReadFails, ReplayInv
<1>3. UNCHANGED replayVars
  BY DEF ReadLine, EndOfText, ReadFails
<1>4. phase' \notin {"replaying", "replayed"}
  <2>1. \A env, e : MarkerOutcome(env, e) \notin {"replaying", "replayed"}
    BY DEF MarkerOutcome
  <2>2. \A env, e : TransferOutcome(env, e) \notin {"replaying", "replayed"}
    BY DEF TransferOutcome
  <2>3. \A env, e : EventOutcome(env, e) \notin {"replaying", "replayed"}
    BY <2>1, <2>2 DEF EventOutcome
  <2>4. \A env, l : LineOutcome(env, l) \notin {"replaying", "replayed"}
    BY <2>3 DEF LineOutcome, PreambleOutcome
  <2>5. \A env : EndOutcome(env) \notin {"replaying", "replayed"}
    BY DEF EndOutcome
  <2> QED
    BY <1>2, <2>4, <2>5 DEF ReadLine, EndOfText, ReadFails, Refuse
<1> QED
  BY <1>1, <1>2, <1>3, <1>4 DEF ReplayInv, replayVars

LEMMA BeginKeepsReplayInv == ASSUME ReplayInv, BeginReplay PROVE ReplayInv'
<1>1. EnvelopeInv'
  BY NextEnvelopeInv DEF ReplayInv, Next
<1>2. /\ phase = "accepted" /\ remaining = 0 /\ report = NoReport
      /\ EnvelopeRight(envelope) /\ Complete(envelope.events)
  BY DEF BeginReplay, ReplayInv, EnvelopeInv
<1>3. envelope' = envelope /\ remaining' = 0 /\ report' = NoReport
  BY <1>2 DEF BeginReplay, replayVars
<1>4. phase' \notin {"reading", "accepted", "replayed"}
  BY <1>2 DEF BeginReplay
<1>5. ASSUME phase' = "replaying"
      PROVE  Replaying'
  <2>1. index' = envelope.actionIndex + 1
    BY <1>5 DEF BeginReplay
  <2> DEFINE a == envelope.actionIndex
             es == envelope.events
  <2>2. /\ a \in Nat /\ envelope.stableIndex \in Nat /\ a < envelope.stableIndex
        /\ \A i : i \in Window(es) => i \in Nat /\ a + 1 < i
    BY <1>2, WindowIsBetween
  <2>3. UpTo(envelope, a + 1) = {}
    BY <2>2 DEF UpTo
  <2>4. es \in Seq(EventLines)
    BY <1>2 DEF EnvelopeRight, EnvelopeType
  <2>5. \A d : Reports(es, UpTo(envelope, a + 1), NoReport, 0, d)
    BY <2>3, <2>4, NothingReported
  <2>6. NoReport \in ReportType
    BY DEF NoReport, ReportType
  <2>7. index' \in Nat /\ envelope.actionIndex + 1 <= index' /\ index' <= envelope.stableIndex
    BY <2>1, <2>2
  <2> QED
    BY <1>3, <2>1, <2>5, <2>6, <2>7 DEF Replaying
<1> QED
  BY <1>1, <1>4, <1>5 DEF ReplayInv

LEMMA EnterKeepsReplayInv == ASSUME ReplayInv, EnterTransfer PROVE ReplayInv'
<1>1. EnvelopeInv'
  BY NextEnvelopeInv DEF ReplayInv, Next, ReplayStep
<1>2. /\ phase = "replaying" /\ remaining = 0 /\ index < envelope.stableIndex
      /\ EnvelopeRight(envelope) /\ Complete(envelope.events) /\ Replaying
  BY DEF EnterTransfer, AtTransfer, ReplayInv, EnvelopeInv
<1>3. envelope' = envelope
  BY DEF EnterTransfer, Fail
<1> DEFINE es == envelope.events
           i == index + 1
           E == UpTo(envelope, index)
<1>4. /\ index \in Nat /\ i \in Nat /\ report \in ReportType /\ index <= i
      /\ envelope.actionIndex + 1 <= index /\ \A d : Reports(es, E, report, 0, d)
  BY <1>2 DEF Replaying
<1>5. /\ i \in Window(es) /\ i \notin E /\ UpTo(envelope, i) = E \cup {i}
      /\ es \in Seq(EventLines) /\ Value.length \in Nat
      /\ \/ Value.transfer = "control"
         \/ Value.transfer = "bulk" /\ Value.direction \in {"out", "in"}
  BY <1>2, <1>4, NextInWindow DEF Value
<1>6. E \in SUBSET Window(es) /\ Value = es[i].value
  BY DEF UpTo, Value
<1>7. envelope.actionIndex \in Nat /\ envelope.stableIndex \in Nat
  BY <1>2, WindowIsBetween
<1>8. envelope.actionIndex + 1 <= i /\ i <= envelope.stableIndex
  BY <1>2, <1>4, <1>7
<1> HIDE DEF es, i, E
<1>9. CASE phase' # "replaying"
  <2>1. phase' = "invariant-error"
    BY <1>2, <1>9 DEF EnterTransfer, Fail
  <2> QED
    BY <1>1, <2>1 DEF ReplayInv
<1>10. CASE phase' = "replaying"
  <2>1. ~(\/ Value.type # "transfer"
          \/ Value.transfer = "bulk" /\ ~TransferIsAllowlisted(Value))
    BY <1>10 DEF EnterTransfer, Fail
  <2>2. CASE Value.transfer = "control"
    <3> DEFINE q == [report EXCEPT !.control = @ + 1]
    <3>1. report' = q /\ index' = i /\ remaining' = 0
      BY <1>2, <2>1, <2>2 DEF EnterTransfer, i
    <3>2. \A d : Reports(es, E \cup {i}, q, 0, d)
      BY <1>4, <1>5, <1>6, <2>2, TransferReported
    <3>3. q \in ReportType
      BY <1>4 DEF ReportType
    <3>4. \A d : Reports(envelope'.events, UpTo(envelope', index'), report', 0, d)
      BY <1>3, <1>5, <3>1, <3>2 DEF es
    <3>5. remaining' \in Nat /\ ~(remaining' > 0)
      BY <3>1
    <3>6. Replaying'
      BY <1>3, <1>4, <1>8, <3>1, <3>3, <3>4, <3>5 DEF Replaying
    <3> QED
      BY <1>1, <1>10, <3>6 DEF ReplayInv
  <2>3. CASE Value.transfer = "bulk" /\ Value.length = 0
    <3> DEFINE q == [report EXCEPT !.bulk = @ + 1, !.zero = @ + 1]
    <3>1. report' = q /\ index' = i /\ remaining' = 0
      BY <1>2, <2>1, <2>3 DEF EnterTransfer, i
    <3>2. \A d : Reports(es, E \cup {i}, q, 0, d)
      BY <1>4, <1>5, <1>6, <2>3, TransferReported
    <3>3. q \in ReportType
      <4>1. PICK m \in Nat, n \in Nat : m = report.bulk + 1 /\ n = report.zero + 1
        BY <1>4 DEF ReportType
      <4>2. q = [report EXCEPT !.bulk = m, !.zero = n]
        BY <4>1
      <4> HIDE DEF q
      <4> QED
        BY <1>4, <4>2 DEF ReportType
    <3>4. \A d : Reports(envelope'.events, UpTo(envelope', index'), report', 0, d)
      BY <1>3, <1>5, <3>1, <3>2 DEF es
    <3>5. remaining' \in Nat /\ ~(remaining' > 0)
      BY <3>1
    <3>6. Replaying'
      BY <1>3, <1>4, <1>8, <3>1, <3>3, <3>4, <3>5 DEF Replaying
    <3> QED
      BY <1>1, <1>10, <3>6 DEF ReplayInv
  <2>4. CASE Value.transfer = "bulk" /\ Value.length # 0
    <3> DEFINE q == [report EXCEPT !.bulk = @ + 1]
    <3>1. report' = q /\ index' = index /\ remaining' = Value.length
      BY <1>2, <2>1, <2>4 DEF EnterTransfer
    <3>2. Reports(es, E \cup {i}, q, Value.length, Value.direction)
      BY <1>4, <1>5, <1>6, <2>4, TransferReported
    <3>3. q \in ReportType
      BY <1>4 DEF ReportType
    <3>4. Value' = Value /\ Value.direction \in {"out", "in"}
      BY <1>3, <1>5, <2>4, <3>1 DEF Value
    <3>5. UpTo(envelope', index' + 1) = E \cup {i}
      BY <1>3, <1>5, <3>1 DEF i
    <3>6. Value.length \in Nat /\ Value.length # 0 /\ index' <= envelope.stableIndex
      BY <1>2, <1>4, <1>5, <1>7, <2>4, <3>1
    <3>7. Reports(envelope'.events, UpTo(envelope', index' + 1), report', remaining',
                  Value'.direction)
      BY <1>3, <3>1, <3>2, <3>4, <3>5 DEF es
    <3>8. Replaying'
      BY <1>2, <1>3, <1>4, <3>1, <3>3, <3>4, <3>6, <3>7 DEF Replaying
    <3> QED
      BY <1>1, <1>10, <3>8 DEF ReplayInv
  <2> QED
    BY <1>5, <2>2, <2>3, <2>4
<1> QED
  BY <1>9, <1>10

LEMMA ChunkKeepsReplayInv == ASSUME ReplayInv, ReplayChunk PROVE ReplayInv'
<1>1. EnvelopeInv'
  BY NextEnvelopeInv DEF ReplayInv, Next, ReplayStep
<1>2. /\ phase = "replaying" /\ remaining > 0 /\ Replaying
      /\ EnvelopeRight(envelope) /\ Complete(envelope.events)
  BY DEF ReplayChunk, ReplayInv, EnvelopeInv
<1>3. envelope' = envelope
  BY DEF ReplayChunk, Fail
<1> DEFINE es == envelope.events
           E == UpTo(envelope, index + 1)
           d == Value.direction
           q == IF d = "out" THEN [report EXCEPT !.packets = @ + 1, !.out = @ + Chunk]
                ELSE [report EXCEPT !.packets = @ + 1, !.in = @ + Chunk]
           left == remaining - Chunk
<1>4. /\ index \in Nat /\ remaining \in Nat /\ report \in ReportType
      /\ envelope.actionIndex + 1 <= index /\ index < envelope.stableIndex
      /\ d \in {"out", "in"} /\ Reports(es, E, report, remaining, d)
  BY <1>2 DEF Replaying
<1>5. /\ left \in Nat /\ q \in ReportType /\ Reports(es, E, q, left, d)
      /\ left = 0 => \A any : Reports(es, E, q, 0, any)
  <2>1. Chunk = ChunkFrom(remaining) /\ q = WithChunk(report, d, Chunk)
    BY DEF Chunk, ChunkFrom, WithChunk
  <2> HIDE DEF q, es, E, d
  <2> QED
    BY <1>2, <1>4, <2>1, ChunkReported
<1>6. envelope.actionIndex \in Nat /\ envelope.stableIndex \in Nat
  BY <1>2, WindowIsBetween
<1>7. CASE phase' # "replaying"
  <2>1. phase' \in {"transport-error", "invariant-error"}
    BY <1>2, <1>7 DEF ReplayChunk, Fail
  <2> QED
    BY <1>1, <2>1 DEF ReplayInv
<1>8. CASE phase' = "replaying"
  <2>1. /\ report' = q /\ remaining' = left
        /\ index' = IF left = 0 THEN index + 1 ELSE index
    <3>1. /\ ~(Then(FirstCall, SecondCall) # "ok")
          /\ ~(Front(Pushed(Ring, Chunk)) # Chunk)
      BY <1>8 DEF ReplayChunk, Fail
    <3>2. remaining' = left /\ index' = IF remaining' = 0 THEN index + 1 ELSE index
      BY <3>1 DEF ReplayChunk
    <3>3. report' = q
      BY <3>1 DEF ReplayChunk
    <3> QED
      BY <3>2, <3>3
  <2> HIDE DEF es, E, q, left
  <2>2. CASE left = 0
    <3>1. index' = index + 1 /\ remaining' = 0
      BY <2>1, <2>2
    <3>2. \A any : Reports(envelope'.events, UpTo(envelope', index'), report', 0, any)
      BY <1>3, <1>5, <2>1, <2>2, <3>1 DEF es, E
    <3>3. remaining' \in Nat /\ ~(remaining' > 0)
      BY <3>1
    <3>4. index' \in Nat /\ envelope.actionIndex + 1 <= index' /\ index' <= envelope.stableIndex
      BY <1>4, <1>6, <3>1
    <3>5. Replaying'
      BY <1>3, <1>5, <2>1, <3>2, <3>3, <3>4 DEF Replaying
    <3> QED
      BY <1>1, <1>8, <3>5 DEF ReplayInv
  <2>3. CASE left # 0
    <3>1. index' = index /\ remaining' = left /\ remaining' \in Nat /\ remaining' # 0
      BY <1>5, <2>1, <2>3
    <3>2. Value' = Value
      BY <1>3, <3>1 DEF Value
    <3>3. Reports(envelope'.events, UpTo(envelope', index' + 1), report', remaining',
                  Value'.direction)
      BY <1>3, <1>5, <2>1, <3>1, <3>2 DEF es, E
    <3>4. index' \in Nat /\ envelope.actionIndex + 1 <= index' /\ index' <= envelope.stableIndex
      BY <1>4, <1>6, <3>1
    <3>5. Replaying'
      BY <1>3, <1>4, <1>5, <2>1, <3>1, <3>2, <3>3, <3>4 DEF Replaying
    <3> QED
      BY <1>1, <1>8, <3>5 DEF ReplayInv
  <2> QED
    BY <2>2, <2>3
<1> QED
  BY <1>7, <1>8

LEMMA EndKeepsReplayInv == ASSUME ReplayInv, EndReplay PROVE ReplayInv'
<1>1. EnvelopeInv'
  BY NextEnvelopeInv DEF ReplayInv, Next, ReplayStep
<1>2. /\ phase = "replaying" /\ remaining = 0 /\ index >= envelope.stableIndex /\ Replaying
      /\ EnvelopeRight(envelope) /\ Complete(envelope.events)
  BY DEF EndReplay, ReplayInv, EnvelopeInv
<1>3. phase' = "replayed" /\ UNCHANGED <<envelope, index, remaining, report>>
  BY DEF EndReplay
<1>4. envelope.stableIndex \in Nat
  BY <1>2, WindowIsBetween
<1>5. index = envelope.stableIndex
  BY <1>2, <1>4 DEF Replaying
<1>6. Replaying'
  BY <1>2, <1>3 DEF Replaying, Value
<1> QED
  BY <1>1, <1>2, <1>3, <1>5, <1>6 DEF ReplayInv

LEMMA NextReplayInv == ReplayInv /\ [Next]_vars => ReplayInv'
<1> SUFFICES ASSUME ReplayInv, [Next]_vars PROVE ReplayInv'
  OBVIOUS
<1>1. CASE UNCHANGED vars
  <2>1. EnvelopeInv'
    BY NextEnvelopeInv DEF ReplayInv
  <2> QED
    BY <1>1, <2>1 DEF vars, ReplayInv, Replaying, Value
<1> QED
  BY <1>1, ReadKeepsReplayInv, BeginKeepsReplayInv, EnterKeepsReplayInv,
     ChunkKeepsReplayInv, EndKeepsReplayInv DEF Next, ReplayStep

LEMMA ReplayedReport == ReplayInv => ReportMatchesWindow
<1> SUFFICES ASSUME ReplayInv, phase = "replayed"
             PROVE  ReportMatchesWindow
  BY DEF ReportMatchesWindow
<1> DEFINE es == envelope.events
           window == Window(es)
           bulk == Bulk(es, window)
           none == window \ bulk
           out == Towards(es, window, "out")
           in == Towards(es, window, "in")
<1>1. /\ EnvelopeRight(envelope) /\ Complete(es) /\ Replaying
      /\ remaining = 0 /\ index = envelope.stableIndex
  BY DEF ReplayInv, EnvelopeInv
<1>2. /\ envelope.stableIndex \in Nat
      /\ \A i \in window : i <= envelope.stableIndex
  BY <1>1, WindowIsBetween
<1>3. UpTo(envelope, index) = window
  BY <1>1, <1>2 DEF UpTo
<1>4. report \in ReportType /\ Reports(es, window, report, 0, "none")
  BY <1>1, <1>3 DEF Replaying
<1>5. /\ report.bulk \in Nat /\ report.zero \in Nat /\ report.control \in Nat
      /\ report.packets \in Nat /\ report.out \in Nat /\ report.in \in Nat
  BY <1>4 DEF ReportType
<1>6. /\ report.bulk = Cardinality(bulk) /\ report.zero = Cardinality(Empty(es, window))
      /\ report.control = Cardinality(none)
      /\ report.packets = Chunks(es, bulk)
      /\ report.out = Bytes(es, out) /\ report.in = Bytes(es, in)
  <2>1. /\ report.packets + 0 = Chunks(es, bulk)
        /\ report.out + 0 = Bytes(es, out) /\ report.in + 0 = Bytes(es, in)
    BY <1>4, NoChunks DEF Reports, Ahead
  <2>2. /\ report.bulk = Cardinality(bulk) /\ report.zero = Cardinality(Empty(es, window))
        /\ report.control = Cardinality(none)
    BY <1>4 DEF Reports
  <2> QED
    BY <1>5, <2>1, <2>2
<1>7. report = [bulk |-> Cardinality(bulk), zero |-> Cardinality(Empty(es, window)),
                control |-> Cardinality(none), packets |-> Chunks(es, bulk),
                out |-> Bytes(es, out), in |-> Bytes(es, in)]
  BY <1>4, <1>6 DEF ReportType
<1>8. /\ es \in Seq(EventLines) /\ Viable(es)
      /\ envelope.windowTransfers = Cardinality(window)
      /\ envelope.windowBytes = Bytes(es, window)
  BY <1>1 DEF EnvelopeRight, EnvelopeType, Counted
<1>9. /\ window \in SUBSET DOMAIN es /\ \A i \in window : IsTransfer(es[i])
      /\ \A i \in window : TransferIsAllowlisted(es[i].value)
      /\ IsFiniteSet(window)
  <2>1. window \in SUBSET DOMAIN es /\ \A i \in window : IsTransfer(es[i])
    BY DEF Window, Between
  <2>2. IsFiniteSet(1 .. Len(es)) /\ DOMAIN es = 1 .. Len(es)
    BY <1>8, Interval, LenProperties
  <2>3. IsFiniteSet(window)
    BY <2>1, <2>2, FS_Subset
  <2>4. \A i \in window : TransferIsAllowlisted(es[i].value)
    BY <1>8, <2>1 DEF Viable, TransferIsRight
  <2> QED
    BY <2>1, <2>3, <2>4
<1>10. /\ bulk \in SUBSET window /\ out \in SUBSET bulk /\ bulk \ out = in
       /\ \A i \in bulk : IsTransfer(es[i])
  <2>1. bulk \in SUBSET window /\ out \in SUBSET bulk /\ in \in SUBSET bulk
    BY DEF Bulk, Towards
  <2>2. \A i \in bulk : es[i].value.direction \in {"out", "in"}
    BY <1>9 DEF Bulk, TransferIsAllowlisted
  <2>3. bulk \ out = in
    BY <2>2 DEF Towards
  <2> QED
    BY <1>9, <2>1, <2>3
<1> HIDE DEF es, window, bulk, none, out, in
<1>11. Cardinality(window) = Cardinality(bulk) + Cardinality(none)
  <2>1. IsFiniteSet(bulk) /\ IsFiniteSet(none) /\ bulk \cap none = {}
    BY <1>9, <1>10, FS_Subset DEF none
  <2>2. window = bulk \cup none
    BY <1>10 DEF none
  <2>3. /\ Cardinality(bulk) \in Nat /\ Cardinality(none) \in Nat
        /\ Cardinality(bulk \cap none) = 0
    BY <2>1, FS_CardinalityType, FS_EmptySet
  <2>4. Cardinality(window)
          = Cardinality(bulk) + Cardinality(none) - Cardinality(bulk \cap none)
    BY <2>1, <2>2, FS_Union
  <2> QED
    BY <2>3, <2>4
<1>12. Bytes(es, window) = (Bytes(es, out) + Bytes(es, in)) + Bytes(es, none)
  <2>1. Bytes(es, window) = Bytes(es, bulk) + Bytes(es, none)
    BY <1>8, <1>9, <1>10, SplitPositions DEF none
  <2>2. bulk \in SUBSET DOMAIN es
    BY <1>9, <1>10
  <2>3. Bytes(es, bulk) = Bytes(es, out) + Bytes(es, in)
    BY <1>8, <1>10, <2>2, SplitPositions
  <2> QED
    BY <2>1, <2>3
<1>13. /\ envelope.windowTransfers = report.bulk + report.control
       /\ envelope.windowBytes = Bytes(es, out) + Bytes(es, in) + Bytes(es, none)
  BY <1>6, <1>8, <1>11, <1>12
<1> QED
  BY <1>7, <1>13 DEF ReportMatchesWindow, Bulk, Empty, Towards, es, window, bulk, none, out, in

\* What a replay that has come to its end reports is what the events say of the
\* window, by count, by direction and by chunk: for all limits and chunk sizes,
\* and envelopes of any length.
THEOREM ReportAlwaysMatchesWindow == CheckersSpec => []ReportMatchesWindow
<1>1. CheckersInit => ReplayInv
  BY InitReplayInv DEF CheckersInit
<1>2. ReplayInv /\ [ActivationCheck \/ TranscriptCheck]_checkerVars => ReplayInv'
  BY NextReplayInv DEF ActivationCheck, TranscriptCheck, checkerVars, vars
<1> QED
  BY <1>1, <1>2, ReplayedReport, PTL DEF CheckersSpec

\* The replay's transport: connected, and between two chunks its rings are
\* empty; it is open while the replay goes on.
Idle(f) == /\ f \in Fakes /\ f.connected
           /\ f.hostToDock.count = 0 /\ f.dockToHost.count = 0

NoFailure ==
  /\ ReplayInv
  /\ phase \in {"reading", "accepted"} => Idle(fake)
  /\ phase = "replaying" => Idle(fake) /\ fake.open
  /\ phase \notin Failures

\* A chunk goes through an empty ring.
LEMMA ThroughEmptyRing ==
  ASSUME NEW q \in Queues, q.count = 0, NEW len \in 1 .. MaxChunk
  PROVE  /\ PushResult(q, len) = "ok" /\ PopResult(Pushed(q, len), MaxChunk) = "ok"
         /\ Front(Pushed(q, len)) = len
         /\ Popped(Pushed(q, len)) \in Queues /\ Popped(Pushed(q, len)).count = 0
<1> DEFINE p == Pushed(q, len)
<1>1. PushResult(q, len) = "ok"
  BY MaxChunkAssumption, CapacityAssumption DEF PushResult
<1>2. p \in Queues /\ p.count = 1 /\ Contents(p) = Append(Contents(q), len)
  BY PushedFacts, CapacityAssumption
<1>3. Contents(q) = <<>>
  BY ContentsFacts, EmptySeq
<1>4. /\ Popped(p) \in Queues /\ Popped(p).count = 0 /\ Head(Contents(p)) = Front(p)
  <2> HIDE DEF p
  <2> QED
    BY <1>2, PoppedFacts
<1>5. Front(p) = len
  <2>1. Head(Append(<<>>, len)) = len
    OBVIOUS
  <2> QED
    BY <1>2, <1>3, <1>4, <2>1
<1> HIDE DEF p
<1>6. PopResult(p, MaxChunk) = "ok"
  BY <1>2, <1>5, MaxChunkAssumption DEF PopResult
<1> QED
  BY <1>1, <1>4, <1>5, <1>6 DEF p

LEMMA OpenedIdle == ASSUME NEW f, Idle(f) PROVE Idle(Opened(f)) /\ Opened(f).open
<1>1. CASE f.open
  BY <1>1 DEF Opened, Idle
<1>2. CASE ~f.open
  <2> DEFINE g == [f EXCEPT !.open = TRUE, !.openCount = @ + 1]
  <2>1. /\ g \in Fakes /\ g.open /\ g.connected = f.connected
        /\ g.hostToDock = f.hostToDock /\ g.dockToHost = f.dockToHost
    <3>1. PICK n \in Nat : n = f.openCount + 1
      BY DEF Idle, Fakes
    <3>2. g = [f EXCEPT !.open = TRUE, !.openCount = n]
      BY <3>1
    <3> HIDE DEF g
    <3> QED
      BY <3>2 DEF Idle, Fakes
  <2>2. Opened(f) = Advanced(g)
    BY <1>2 DEF Opened, Idle
  <2> HIDE DEF g
  <2>3. /\ Advanced(g) \in Fakes /\ Advanced(g).connected = g.connected
        /\ Advanced(g).open = g.open /\ Advanced(g).hostToDock = g.hostToDock
        /\ Advanced(g).dockToHost = g.dockToHost
    BY <2>1, AdvancedFacts
  <2> QED
    BY <2>1, <2>2, <2>3 DEF Idle
<1> QED
  BY <1>1, <1>2

LEMMA InitNoFailure == Init => NoFailure
<1> SUFFICES ASSUME Init PROVE NoFailure
  OBVIOUS
<1>1. ReplayInv
  BY InitReplayInv
<1>2. Idle(fake)
  <2>1. 1 \in 1 .. EpochMax
    BY EpochAssumption
  <2>2. Sound(Fresh(1))
    BY <2>1, FreshSound
  <2>3. /\ Fresh(1).connected /\ Fresh(1).hostToDock = EmptyQueue
        /\ Fresh(1).dockToHost = EmptyQueue /\ EmptyQueue.count = 0
    BY DEF Fresh, EmptyQueue
  <2> QED
    BY <2>2, <2>3 DEF Init, Idle, Sound
<1> QED
  BY <1>1, <1>2 DEF Init, NoFailure, Failures

LEMMA ReadFailsNothing ==
  ASSUME NoFailure, (\E line \in Lines : ReadLine(line)) \/ EndOfText \/ ReadFails
  PROVE  NoFailure'
<1>1. ReplayInv'
  BY NextReplayInv DEF NoFailure, Next
<1>2. phase = "reading" /\ Idle(fake) /\ fake' = fake
  BY DEF ReadLine, EndOfText, ReadFails, NoFailure, replayVars
<1>3. phase' \notin Failures /\ phase' # "replaying"
  <2> DEFINE Wrong == {"replaying"} \cup Failures
  <2>1. \A env, e : MarkerOutcome(env, e) \notin Wrong
    BY DEF MarkerOutcome, Failures
  <2>2. \A env, e : TransferOutcome(env, e) \notin Wrong
    BY DEF TransferOutcome, Failures
  <2>3. \A env, e : EventOutcome(env, e) \notin Wrong
    BY <2>1, <2>2 DEF EventOutcome, Failures
  <2>4. \A env, l : LineOutcome(env, l) \notin Wrong
    BY <2>3 DEF LineOutcome, PreambleOutcome, Failures
  <2>5. \A env : EndOutcome(env) \notin Wrong
    BY DEF EndOutcome, Failures
  <2> QED
    BY <1>2, <2>4, <2>5 DEF ReadLine, EndOfText, ReadFails, Refuse, Failures
<1> QED
  BY <1>1, <1>2, <1>3 DEF NoFailure

LEMMA BeginFailsNothing == ASSUME NoFailure, BeginReplay PROVE NoFailure'
<1>1. ReplayInv'
  BY NextReplayInv DEF NoFailure, Next
<1>2. phase = "accepted" /\ Idle(fake) /\ EnvelopeRight(envelope) /\ Complete(envelope.events)
  BY DEF BeginReplay, NoFailure, ReplayInv, EnvelopeInv
<1>3. /\ ~(envelope.actionIndex >= envelope.stableIndex)
      /\ ~(envelope.stableIndex >= Len(envelope.events))
  BY <1>2, WindowIsBetween
<1>4. OpenResult(fake) = "ok"
  BY <1>2 DEF OpenResult, Idle
<1>5. phase' = "replaying" /\ fake' = Opened(fake)
  BY <1>3, <1>4 DEF BeginReplay
<1>6. Idle(fake') /\ fake'.open
  BY <1>2, <1>5, OpenedIdle
<1> QED
  BY <1>1, <1>5, <1>6 DEF NoFailure, Failures

LEMMA EnterFailsNothing == ASSUME NoFailure, EnterTransfer PROVE NoFailure'
<1>1. ReplayInv'
  BY NextReplayInv DEF NoFailure, Next, ReplayStep
<1>2. /\ phase = "replaying" /\ Idle(fake) /\ fake.open /\ index < envelope.stableIndex
      /\ EnvelopeRight(envelope) /\ Complete(envelope.events)
      /\ index \in Nat /\ envelope.actionIndex + 1 <= index
  BY DEF EnterTransfer, AtTransfer, NoFailure, ReplayInv, EnvelopeInv, Replaying
<1>3. Value.type = "transfer" /\ TransferIsAllowlisted(Value)
  BY <1>2, NextInWindow DEF Value
<1>4. UNCHANGED <<phase, envelope, fake>>
  BY <1>3 DEF EnterTransfer
<1> QED
  BY <1>1, <1>2, <1>4 DEF NoFailure, Failures

LEMMA ChunkFailsNothing == ASSUME NoFailure, ReplayChunk PROVE NoFailure'
<1>1. ReplayInv'
  BY NextReplayInv DEF NoFailure, Next, ReplayStep
<1>2. /\ phase = "replaying" /\ Idle(fake) /\ fake.open
      /\ remaining \in Nat /\ remaining > 0 /\ Value.direction \in {"out", "in"}
  BY DEF ReplayChunk, NoFailure, ReplayInv, Replaying
<1>3. Chunk \in 1 .. MaxChunk /\ MaxChunk # 0
  BY <1>2, MaxChunkAssumption DEF Chunk
<1>4. /\ fake \in Fakes /\ fake.connected /\ IsOpen(fake)
      /\ Ring \in Queues /\ Ring.count = 0
  BY <1>2 DEF Idle, Fakes, Ring, IsOpen
<1> DEFINE ring == Popped(Pushed(Ring, Chunk))
<1>5. /\ PushResult(Ring, Chunk) = "ok" /\ PopResult(Pushed(Ring, Chunk), MaxChunk) = "ok"
      /\ Front(Pushed(Ring, Chunk)) = Chunk /\ ring \in Queues /\ ring.count = 0
  BY <1>3, <1>4, ThroughEmptyRing
<1>6. /\ LinkResult(fake, "0x02", "0x02", Chunk) = "ok"
      /\ LinkResult(fake, "0x84", "0x84", MaxChunk) = "ok"
      /\ Plugged(fake) = "ok"
  <2>1. Chunk # 0
    BY <1>3
  <2> QED
    BY <1>3, <1>4, <2>1 DEF LinkResult, Plugged, IsOpen
<1>7. FirstCall = "ok" /\ SecondCall = "ok"
  BY <1>5, <1>6 DEF FirstCall, SecondCall, Then
<1>8. ~(Then(FirstCall, SecondCall) # "ok") /\ ~(Front(Pushed(Ring, Chunk)) # Chunk)
  BY <1>5, <1>7 DEF Then
<1>9. /\ phase' = phase
      /\ fake' = IF Value.direction = "out" THEN [fake EXCEPT !.hostToDock = ring]
                 ELSE [fake EXCEPT !.dockToHost = ring]
  BY <1>8 DEF ReplayChunk
<1> HIDE DEF ring
<1>10. Idle(fake') /\ fake'.open
  <2>1. CASE Value.direction = "out"
    BY <1>2, <1>5, <1>9, <2>1 DEF Idle, Fakes
  <2>2. CASE Value.direction # "out"
    BY <1>2, <1>5, <1>9, <2>2 DEF Idle, Fakes
  <2> QED
    BY <2>1, <2>2
<1> QED
  BY <1>1, <1>2, <1>9, <1>10 DEF NoFailure, Failures

LEMMA NextNoFailure == NoFailure /\ [Next]_vars => NoFailure'
<1> SUFFICES ASSUME NoFailure, [Next]_vars PROVE NoFailure'
  OBVIOUS
<1>1. CASE EndReplay
  <2>1. ReplayInv'
    BY <1>1, NextReplayInv DEF NoFailure, Next, ReplayStep
  <2> QED
    BY <1>1, <2>1 DEF EndReplay, NoFailure, Failures
<1>2. CASE UNCHANGED vars
  <2>1. ReplayInv'
    BY NextReplayInv DEF NoFailure
  <2> QED
    BY <1>2, <2>1 DEF vars, NoFailure
<1> QED
  BY <1>1, <1>2, ReadFailsNothing, BeginFailsNothing, EnterFailsNothing,
     ChunkFailsNothing DEF Next, ReplayStep

\* A replay of an envelope that the parser accepted never fails: its indices are
\* those of a window, what lies between them is allowed, no chunk is refused by
\* a full or an empty ring and what goes in comes out.  The safety of
\* ReplaySucceeds, for all limits, chunk sizes and ring capacities.
THEOREM ReplayNeverFails == CheckersSpec => [](phase \notin Failures)
<1>1. CheckersInit => NoFailure
  BY InitNoFailure DEF CheckersInit
<1>2. NoFailure /\ [ActivationCheck \/ TranscriptCheck]_checkerVars => NoFailure'
  BY NextNoFailure DEF ActivationCheck, TranscriptCheck, checkerVars, vars
<1>3. NoFailure => phase \notin Failures
  BY DEF NoFailure
<1> QED
  BY <1>1, <1>2, <1>3, PTL DEF CheckersSpec
-----------------------------------------------------------------------------
(* The importer: types.                                                    *)

PipeEndpoints == {"0x00", "0x02", "0x84"}

Shown == [time : Nat, endpoint : {"0x02", "0x84"}, length : Lengths]

PipeRecords == [pipe : Pipes, endpoint : PipeEndpoints]

DeviceRecords ==
  [target : BOOLEAN, from : 0 .. Never, newest : 0 .. MaxClock,
   pipes : SUBSET PipeRecords, transfers : Seq(Shown)]

TrialRecords ==
  [handle : Handles, start : 0 .. Never, end : 0 .. Never, transfers : Seq(Shown)]

Lifetimes ==
  [handle : Handles, from : 0 .. Never, to : 0 .. MaxClock, transfers : Seq(Shown)]

CaptureType ==
  /\ clock \in 0 .. MaxClock /\ handles \subseteq Handles
  /\ DOMAIN devices \subseteq Handles /\ devices \in [DOMAIN devices -> DeviceRecords]
  /\ pipeMap \in [DOMAIN pipeMap -> [handle : handles, endpoint : PipeEndpoints]]
  /\ trials \in [handles -> TrialRecords]
  /\ \A h \in handles : trials[h].handle = h
  /\ past \subseteq Lifetimes

-----------------------------------------------------------------------------
(* The importer: whose transfers a trial has.                              *)

\* What has become of a handle that the first loop has found.  No device has
\* had it so far;
NotYet(h) ==
  /\ h \notin DOMAIN devices
  /\ trials[h].start = Never /\ trials[h].end = Never /\ trials[h].transfers = <<>>
  /\ \A p \in DOMAIN pipeMap : pipeMap[p].handle # h
  /\ \A d \in past : d.handle # h

\* or its first device is there, and pipe_map leads to it from its pipes and
\* from no others;
Living(h) ==
  /\ h \in DOMAIN devices
  /\ trials[h].start = devices[h].from /\ trials[h].end = Never
  /\ devices[h].target => trials[h].transfers = devices[h].transfers
  /\ trials[h].start # Never =>
       /\ trials[h].start <= devices[h].newest
       /\ \A i \in DOMAIN devices[h].transfers :
            trials[h].start <= devices[h].transfers[i].time
  /\ \A q \in devices[h].pipes :
       /\ q.pipe \in DOMAIN pipeMap
       /\ pipeMap[q.pipe] = [handle |-> h, endpoint |-> q.endpoint]
  /\ \A p \in DOMAIN pipeMap :
       pipeMap[p].handle = h => \E q \in devices[h].pipes : q.pipe = p
  /\ \A d \in past : d.handle # h

\* or it is gone, and whatever pipe_map still attributes to it is later;
TransfersOf(d, t) ==
  /\ Len(d.transfers) <= Len(t.transfers)
  /\ \A i \in 1 .. Len(d.transfers) :
       /\ t.transfers[i] = d.transfers[i]
       /\ t.start # Never => t.start <= d.transfers[i].time
  /\ \A i \in 1 .. Len(t.transfers) :
       i > Len(d.transfers) => d.to <= t.transfers[i].time

Over(h) ==
  /\ h \notin DOMAIN devices
  /\ trials[h].end \in 0 .. clock
  /\ \A d \in past : d.handle = h =>
       /\ d.from = trials[h].start /\ d.to = trials[h].end
       /\ TransfersOf(d, trials[h])
  /\ \A g \in DOMAIN devices : \A q \in devices[g].pipes :
       q.pipe \in DOMAIN pipeMap /\ pipeMap[q.pipe].handle = h
         => trials[h].end <= devices[g].newest

\* or another device has it now, and the trial can no longer end well.
Again(h) ==
  /\ h \in DOMAIN devices
  /\ trials[h].start # Never /\ trials[h].end <= trials[h].start

Distinct ==
  /\ \A g, h \in DOMAIN devices : \A p \in devices[g].pipes, q \in devices[h].pipes :
       p.pipe = q.pipe => g = h /\ p = q
  /\ \A d, e \in past : d.handle = e.handle => d = e

Identified ==
  /\ \A h \in DOMAIN devices : devices[h].target => h \in handles
  /\ \A h \in DOMAIN devices : devices[h].newest <= clock
  /\ \A d \in past : d.handle \in handles

Attributed ==
  \A h \in handles : NotYet(h) \/ Living(h) \/ Over(h) \/ Again(h)

Capturing == CaptureType /\ Distinct /\ Identified /\ Attributed

LEMMA WithFacts ==
  ASSUME NEW f, NEW x, NEW y
  PROVE  /\ DOMAIN With(f, x, y) = DOMAIN f \cup {x} /\ With(f, x, y)[x] = y
         /\ \A z \in DOMAIN f : z # x => With(f, x, y)[z] = f[z]
BY DEF With

LEMMA NoTransfers == <<>> \in Seq(Shown) /\ DOMAIN <<>> = {} /\ Len(<<>>) = 0
OBVIOUS

LEMMA DeviceType ==
  ASSUME NEW target \in BOOLEAN, NEW from \in 0 .. Never
  PROVE  Device(target, from) \in DeviceRecords
BY NoTransfers, TimesAssumption DEF Device, DeviceRecords

LEMMA InitCapturing == ImportInit => Capturing
<1> SUFFICES ASSUME ImportInit PROVE Capturing
  OBVIOUS
<1>1. /\ clock = 0 /\ past = {} /\ pipeMap = <<>> /\ trials = [h \in handles |-> Blank(h)]
      /\ handles \in SUBSET Handles
  BY DEF ImportInit
<1>2. MaxClock \in Nat /\ Never = MaxClock + 1 /\ Never \in 0 .. Never
  BY TimesAssumption DEF Never
<1>3. \/ devices = <<>>
      \/ \E h \in Handles, t \in BOOLEAN :
           (t => h \in handles) /\ devices = With(<<>>, h, Device(t, Never))
  BY DEF ImportInit
<1>4. \A h \in handles : Blank(h) \in TrialRecords /\ Blank(h).handle = h
  BY <1>1, <1>2, NoTransfers DEF Blank, TrialRecords
<1>5. CASE devices = <<>>
  <2>1. DOMAIN devices = {} /\ DOMAIN pipeMap = {}
    BY <1>1, <1>5
  <2>2. CaptureType
    <3>1. devices \in [DOMAIN devices -> DeviceRecords]
      BY <1>5, <2>1
    <3>2. pipeMap \in [DOMAIN pipeMap -> [handle : handles, endpoint : PipeEndpoints]]
      BY <1>1, <2>1
    <3> QED
      BY <1>1, <1>2, <1>4, <2>1, <3>1, <3>2 DEF CaptureType
  <2>3. \A h \in handles : NotYet(h)
    BY <1>1, <2>1 DEF NotYet, Blank
  <2> QED
    BY <1>1, <2>1, <2>2, <2>3 DEF Capturing, Distinct, Identified, Attributed
<1>6. ASSUME NEW h \in Handles, NEW t \in BOOLEAN, t => h \in handles,
             devices = With(<<>>, h, Device(t, Never))
      PROVE  Capturing
  <2>1. /\ DOMAIN devices = {h} /\ DOMAIN pipeMap = {}
        /\ devices[h] = Device(t, Never)
    <3>1. DOMAIN <<>> = {}
      BY NoTransfers
    <3>2. DOMAIN With(<<>>, h, Device(t, Never)) = DOMAIN <<>> \cup {h}
          /\ With(<<>>, h, Device(t, Never))[h] = Device(t, Never)
      BY DEF With
    <3> QED
      BY <1>1, <1>6, <3>1, <3>2
  <2>2. /\ devices[h] \in DeviceRecords /\ devices[h].pipes = {} /\ devices[h].newest = 0
        /\ devices[h].target = t /\ devices[h].from = Never /\ devices[h].transfers = <<>>
    BY <1>2, <2>1, DeviceType DEF Device
  <2>3. CaptureType
    <3>1. devices \in [DOMAIN devices -> DeviceRecords]
      BY <1>6, <2>1, <2>2 DEF With
    <3>2. pipeMap \in [DOMAIN pipeMap -> [handle : handles, endpoint : PipeEndpoints]]
      BY <1>1, <2>1
    <3> QED
      BY <1>1, <1>2, <1>4, <1>6, <2>1, <3>1, <3>2 DEF CaptureType
  <2>4. \A g \in handles : NotYet(g) \/ Living(g)
    BY <1>1, <2>1, <2>2 DEF NotYet, Living, Blank
  <2> QED
    BY <1>1, <1>6, <2>1, <2>2, <2>3, <2>4 DEF Capturing, Distinct, Identified, Attributed
<1> QED
  BY <1>3, <1>5, <1>6

Created(h, pipe, endpoint) ==
  /\ handles' = handles
  /\ pipeMap' \in [DOMAIN pipeMap' -> [handle : handles, endpoint : PipeEndpoints]]
  /\ trials' \in [handles -> TrialRecords]
  /\ \A g \in handles :
       /\ trials'[g].handle = g /\ trials'[g].end = trials[g].end
       /\ trials'[g].transfers = trials[g].transfers
       /\ ~(g = h /\ endpoint = "0x00") => trials'[g].start = trials[g].start
  /\ h \in handles /\ endpoint = "0x00"
       => trials[h].start = Never /\ trials'[h].start = clock'
  /\ h \in handles =>
       /\ DOMAIN pipeMap' = DOMAIN pipeMap \cup {pipe}
       /\ pipeMap'[pipe] = [handle |-> h, endpoint |-> endpoint]
       /\ \A p \in DOMAIN pipeMap : p # pipe => pipeMap'[p] = pipeMap[p]
  /\ h \notin handles => pipeMap' = pipeMap

LEMMA OnCreateFacts ==
  ASSUME CaptureType, stage = "capturing", stage' = "capturing", clock' \in 0 .. MaxClock,
         NEW h \in Handles, NEW pipe \in Pipes, NEW endpoint \in PipeEndpoints,
         OnCreate(h, pipe, endpoint)
  PROVE  Created(h, pipe, endpoint)
<1>1. CASE h \notin handles
  BY <1>1 DEF OnCreate, importer, CaptureType, Created
<1>2. CASE h \in handles
  <2>1. ~(endpoint = "0x00" /\ trials[h].start # Never)
    BY <1>2 DEF OnCreate, RefuseExport
  <2>2. /\ pipeMap' = With(pipeMap, pipe, [handle |-> h, endpoint |-> endpoint])
        /\ trials' = IF endpoint = "0x00"
                     THEN [trials EXCEPT ![h].start = clock'] ELSE trials
        /\ handles' = handles
    BY <1>2, <2>1 DEF OnCreate
  <2>3. /\ DOMAIN pipeMap' = DOMAIN pipeMap \cup {pipe}
        /\ pipeMap'[pipe] = [handle |-> h, endpoint |-> endpoint]
        /\ \A p \in DOMAIN pipeMap : p # pipe => pipeMap'[p] = pipeMap[p]
    BY <2>2 DEF With
  <2>4. pipeMap' \in [DOMAIN pipeMap' -> [handle : handles, endpoint : PipeEndpoints]]
    <3>1. pipeMap' = [p \in DOMAIN pipeMap' |-> pipeMap'[p]]
      BY <2>2 DEF With
    <3>2. \A p \in DOMAIN pipeMap' : pipeMap'[p] \in [handle : handles, endpoint : PipeEndpoints]
      BY <1>2, <2>3 DEF CaptureType
    <3> QED
      BY <3>1, <3>2
  <2>5. clock' \in 0 .. Never
    BY TimesAssumption DEF Never
  <2>6. /\ trials' \in [handles -> TrialRecords]
        /\ \A g \in handles :
              /\ trials'[g].handle = g /\ trials'[g].end = trials[g].end
              /\ trials'[g].transfers = trials[g].transfers
              /\ ~(g = h /\ endpoint = "0x00") => trials'[g].start = trials[g].start
        /\ endpoint = "0x00" => trials'[h].start = clock'
    <3>1. CASE endpoint = "0x00"
      <4>1. PICK t : t = [trials[h] EXCEPT !.start = clock']
        OBVIOUS
      <4>2. trials' = [trials EXCEPT ![h] = t]
        BY <2>2, <3>1, <4>1
      <4>3. trials[h] \in TrialRecords
        BY <1>2 DEF CaptureType
      <4>4. /\ t \in TrialRecords /\ t.start = clock' /\ t.handle = trials[h].handle
            /\ t.end = trials[h].end /\ t.transfers = trials[h].transfers
        BY <2>5, <4>1, <4>3 DEF TrialRecords
      <4> QED
        BY <1>2, <3>1, <4>2, <4>4 DEF CaptureType
    <3>2. CASE endpoint # "0x00"
      BY <2>2, <3>2 DEF CaptureType
    <3> QED
      BY <3>1, <3>2
  <2> QED
    BY <1>2, <2>1, <2>2, <2>3, <2>4, <2>6 DEF Created
<1> QED
  BY <1>1, <1>2

\* The creation of an endpoint, with its device or in the life of one.
PipeAdded(h, pipe, endpoint) ==
  /\ stage = "capturing" /\ stage' = "capturing"
  /\ h \in Handles /\ pipe \in Pipes \ TakenPipes /\ endpoint \in PipeEndpoints
  /\ clock' \in 0 .. MaxClock /\ clock <= clock' /\ past' = past
  /\ OnCreate(h, pipe, endpoint)
  /\ DOMAIN devices' = DOMAIN devices \cup {h}
  /\ devices' \in [DOMAIN devices' -> DeviceRecords]
  /\ \A g \in DOMAIN devices : g # h => devices'[g] = devices[g]
  /\ devices'[h].newest = clock'
  /\ [pipe |-> pipe, endpoint |-> endpoint] \in devices'[h].pipes
  /\ \A q \in devices'[h].pipes :
       \/ q = [pipe |-> pipe, endpoint |-> endpoint]
       \/ h \in DOMAIN devices /\ q \in devices[h].pipes
  /\ h \in DOMAIN devices => devices[h].pipes \subseteq devices'[h].pipes
  /\ devices'[h].target => h \in handles

LEMMA TakenFacts ==
  ASSUME NEW pipe, pipe \notin TakenPipes, NEW g \in DOMAIN devices, NEW q \in devices[g].pipes
  PROVE  q.pipe # pipe
BY DEF TakenPipes

LEMMA PipeAddedCreates ==
  ASSUME CaptureType, NEW h, NEW pipe, NEW endpoint, PipeAdded(h, pipe, endpoint)
  PROVE  Created(h, pipe, endpoint)
BY OnCreateFacts DEF PipeAdded

LEMMA PipeAddedKeepsRest ==
  ASSUME Capturing, NEW h, NEW pipe, NEW endpoint, PipeAdded(h, pipe, endpoint)
  PROVE  CaptureType' /\ Distinct' /\ Identified'
<1>1. CaptureType /\ Distinct /\ Identified
  BY DEF Capturing
<1>0. Created(h, pipe, endpoint)
  BY <1>1, PipeAddedCreates
<1>2. CaptureType'
  <2>1. DOMAIN devices' \subseteq Handles
    BY <1>1 DEF PipeAdded, CaptureType
  <2> QED
    BY <1>0, <1>1, <2>1 DEF PipeAdded, Created, CaptureType
<1>3. Distinct'
  <2>1. ASSUME NEW g \in DOMAIN devices', NEW k \in DOMAIN devices',
               NEW p \in devices'[g].pipes, NEW q \in devices'[k].pipes, p.pipe = q.pipe
        PROVE  g = k /\ p = q
    <3> DEFINE new == [pipe |-> pipe, endpoint |-> endpoint]
    <3>1. /\ (g = h /\ p = new) \/ (g \in DOMAIN devices /\ p \in devices[g].pipes)
          /\ (k = h /\ q = new) \/ (k \in DOMAIN devices /\ q \in devices[k].pipes)
      BY DEF PipeAdded
    <3>2. new.pipe = pipe
      OBVIOUS
    <3> HIDE DEF new
    <3>3. pipe \notin TakenPipes
      BY DEF PipeAdded
    <3>4. CASE g \in DOMAIN devices /\ p \in devices[g].pipes
                 /\ k \in DOMAIN devices /\ q \in devices[k].pipes
      BY <1>1, <2>1, <3>4 DEF Distinct
    <3> QED
      BY <2>1, <3>1, <3>2, <3>3, <3>4, TakenFacts
  <2> QED
    BY <1>1, <2>1 DEF Distinct, PipeAdded
<1>4. Identified'
  <2>1. handles' = handles
    BY <1>0, <1>1 DEF PipeAdded, Created
  <2>2. ASSUME NEW g \in DOMAIN devices'
        PROVE  (devices'[g].target => g \in handles) /\ devices'[g].newest <= clock'
    <3>1. CASE g = h
      BY <1>1, <3>1, TimesAssumption DEF PipeAdded
    <3>2. CASE g # h
      <4>1. g \in DOMAIN devices /\ devices'[g] = devices[g]
        BY <3>2 DEF PipeAdded
      <4>2. devices[g].newest <= clock /\ devices[g].newest \in Int /\ clock \in Int
        BY <1>1, <4>1 DEF Identified, CaptureType, DeviceRecords
      <4> QED
        BY <1>1, <4>1, <4>2, TimesAssumption DEF PipeAdded, Identified
    <3> QED
      BY <3>1, <3>2
  <2> QED
    BY <1>1, <2>1, <2>2 DEF Identified, PipeAdded
<1> QED
  BY <1>2, <1>3, <1>4

LEMMA PipeAddedKeepsOthers ==
  ASSUME Capturing, NEW h, NEW pipe, NEW endpoint, PipeAdded(h, pipe, endpoint),
         NEW g \in handles, g # h
  PROVE  (NotYet(g) \/ Living(g) \/ Over(g) \/ Again(g))'
<1>1. CaptureType /\ Distinct /\ Identified
  BY DEF Capturing
<1>0. Created(h, pipe, endpoint)
  BY <1>1, PipeAddedCreates
<1>2. /\ trials'[g].start = trials[g].start /\ trials'[g].end = trials[g].end
      /\ trials'[g].transfers = trials[g].transfers /\ past' = past
      /\ g \in DOMAIN devices' <=> g \in DOMAIN devices
      /\ g \in DOMAIN devices => devices'[g] = devices[g]
  BY <1>0, <1>1 DEF PipeAdded, Created
<1>3. \A p : p \in DOMAIN pipeMap' /\ pipeMap'[p].handle = g
               <=> p \in DOMAIN pipeMap /\ pipeMap[p].handle = g /\ ~(h \in handles /\ p = pipe)
  BY <1>0, <1>1 DEF PipeAdded, Created
<1>4. \A p : p \in DOMAIN pipeMap /\ p # pipe => p \in DOMAIN pipeMap' /\ pipeMap'[p] = pipeMap[p]
  BY <1>0, <1>1 DEF PipeAdded, Created
<1>5. CASE NotYet(g)
  BY <1>2, <1>3, <1>5 DEF NotYet
<1>6. CASE Living(g)
  <2>1. \A q \in devices[g].pipes : q.pipe # pipe
    BY <1>6, TakenFacts DEF Living, PipeAdded
  <2>2. \A q \in devices'[g].pipes :
          /\ q.pipe \in DOMAIN pipeMap'
          /\ pipeMap'[q.pipe] = [handle |-> g, endpoint |-> q.endpoint]
    BY <1>2, <1>4, <1>6, <2>1 DEF Living
  <2>3. \A p \in DOMAIN pipeMap' :
          pipeMap'[p].handle = g => \E q \in devices'[g].pipes : q.pipe = p
    BY <1>2, <1>3, <1>6 DEF Living
  <2> QED
    BY <1>2, <1>6, <2>2, <2>3 DEF Living
<1>7. CASE Over(g)
  <2>1. /\ clock \in Int /\ clock' \in Int /\ clock <= clock' /\ trials[g].end \in Int
        /\ 0 <= trials[g].end /\ trials[g].end <= clock
    BY <1>1, <1>7, TimesAssumption DEF PipeAdded, CaptureType, Over
  <2>2. trials'[g].end \in 0 .. clock'
    BY <1>2, <2>1
  <2>3. \A d \in past' : d.handle = g =>
          /\ d.from = trials'[g].start /\ d.to = trials'[g].end
          /\ TransfersOf(d, trials'[g])
    BY <1>2, <1>7 DEF Over, TransfersOf
  <2>4. ASSUME NEW k \in DOMAIN devices', NEW q \in devices'[k].pipes,
               q.pipe \in DOMAIN pipeMap', pipeMap'[q.pipe].handle = g
        PROVE  trials'[g].end <= devices'[k].newest
    <3>1. CASE k = h
      BY <1>2, <2>1, <3>1 DEF PipeAdded
    <3>2. CASE k # h
      <4>1. k \in DOMAIN devices /\ devices'[k] = devices[k]
        BY <3>2 DEF PipeAdded
      <4>2. q.pipe \in DOMAIN pipeMap /\ pipeMap[q.pipe].handle = g
        BY <1>3, <2>4
      <4> QED
        BY <1>2, <1>7, <4>1, <4>2 DEF Over
    <3> QED
      BY <3>1, <3>2
  <2> QED
    BY <1>2, <1>7, <2>2, <2>3, <2>4 DEF Over
<1>8. CASE Again(g)
  BY <1>2, <1>8 DEF Again
<1> QED
  BY <1>5, <1>6, <1>7, <1>8 DEF Capturing, Attributed

LEMMA TickFacts ==
  ASSUME CaptureType, Tick
  PROVE  /\ clock' \in 0 .. MaxClock /\ clock <= clock' /\ clock' \in 0 .. Never
         /\ clock' # Never /\ clock' \in Nat /\ clock \in Nat
BY TimesAssumption DEF CaptureType, Tick, Never

LEMMA WithPipeFacts ==
  ASSUME NEW d \in DeviceRecords, NEW pipe \in Pipes, NEW endpoint \in PipeEndpoints,
         clock' \in 0 .. MaxClock
  PROVE  LET new == [pipe |-> pipe, endpoint |-> endpoint]
             w == WithPipe(d, pipe, endpoint)
         IN  /\ w \in DeviceRecords /\ w.newest = clock' /\ w.pipes = d.pipes \cup {new}
             /\ w.target = d.target /\ w.from = d.from /\ w.transfers = d.transfers
<1> DEFINE new == [pipe |-> pipe, endpoint |-> endpoint]
<1>1. new \in PipeRecords
  BY DEF PipeRecords
<1> HIDE DEF new
<1>2. WithPipe(d, pipe, endpoint) = [d EXCEPT !.pipes = @ \cup {new}, !.newest = clock']
  BY DEF WithPipe, new
<1>3. PICK P : P = d.pipes \cup {new}
  OBVIOUS
<1>4. P \in SUBSET PipeRecords
  BY <1>1, <1>3 DEF DeviceRecords
<1>5. WithPipe(d, pipe, endpoint) = [d EXCEPT !.pipes = P, !.newest = clock']
  BY <1>2, <1>3
<1> QED
  BY <1>3, <1>4, <1>5 DEF DeviceRecords, new

LEMMA ArriveKeeps ==
  ASSUME Capturing, NEW h \in Handles, NEW target \in BOOLEAN, NEW pipe \in Pipes,
         Arrive(h, target, pipe), stage' = "capturing"
  PROVE  Capturing'
<1> DEFINE device == WithPipe(Device(target, clock'), pipe, "0x00")
           new == [pipe |-> pipe, endpoint |-> "0x00"]
<1>1. CaptureType /\ Distinct /\ Identified
  BY DEF Capturing
<1>2. /\ stage = "capturing" /\ h \notin DOMAIN devices /\ pipe \notin TakenPipes
      /\ target => h \in handles
      /\ devices' = With(devices, h, device) /\ past' = past
      /\ OnCreate(h, pipe, "0x00") /\ Tick
  BY DEF Arrive
<1>3. /\ clock' \in 0 .. MaxClock /\ clock <= clock' /\ clock' \in 0 .. Never
      /\ clock' # Never /\ clock' \in Nat /\ clock \in Nat
  BY <1>1, <1>2, TickFacts
<1>4. /\ device \in DeviceRecords /\ device.newest = clock' /\ device.pipes = {new}
      /\ device.target = target /\ device.from = clock' /\ device.transfers = <<>>
  <2>1. "0x00" \in PipeEndpoints /\ Device(target, clock') \in DeviceRecords
    BY <1>3, DeviceType DEF PipeEndpoints
  <2>2. /\ Device(target, clock').pipes = {} /\ Device(target, clock').target = target
        /\ Device(target, clock').from = clock' /\ Device(target, clock').transfers = <<>>
    BY DEF Device
  <2> QED
    BY <1>3, <2>1, <2>2, WithPipeFacts
<1>5. /\ new.pipe = pipe /\ new.endpoint = "0x00" /\ "0x00" \in PipeEndpoints
  BY DEF PipeEndpoints
<1> HIDE DEF device
<1>6. /\ DOMAIN devices' = DOMAIN devices \cup {h} /\ devices'[h] = device
      /\ \A g \in DOMAIN devices : g # h => devices'[g] = devices[g]
      /\ devices' \in [DOMAIN devices' -> DeviceRecords]
  <2>1. /\ DOMAIN devices' = DOMAIN devices \cup {h} /\ devices'[h] = device
        /\ \A g \in DOMAIN devices : g # h => devices'[g] = devices[g]
        /\ devices' = [g \in DOMAIN devices' |-> devices'[g]]
    BY <1>2 DEF With
  <2> QED
    BY <1>1, <1>4, <2>1 DEF CaptureType
<1>7. PipeAdded(h, pipe, "0x00")
  BY <1>2, <1>3, <1>4, <1>5, <1>6 DEF PipeAdded
<1>8. CaptureType' /\ Distinct' /\ Identified'
  BY <1>7, PipeAddedKeepsRest
<1>9. Created(h, pipe, "0x00")
  BY <1>1, <1>7, PipeAddedCreates
<1>10. ASSUME h \in handles PROVE Living(h)' \/ Again(h)'
  <2>1. trials[h].start = Never /\ trials'[h].start = clock'
    BY <1>9, <1>10 DEF Created
  <2>2. CASE NotYet(h)
    <3>1. /\ trials'[h].end = Never /\ trials'[h].transfers = <<>>
          /\ \A d \in past' : d.handle # h
      BY <1>2, <1>9, <1>10, <2>2 DEF NotYet, Created
    <3>2. pipe \in DOMAIN pipeMap' /\ pipeMap'[pipe] = [handle |-> h, endpoint |-> "0x00"]
      BY <1>9, <1>10 DEF Created
    <3>3. \A p \in DOMAIN pipeMap' : pipeMap'[p].handle = h => p = pipe
      BY <1>9, <1>10, <2>2 DEF Created, NotYet
    <3>4. /\ h \in DOMAIN devices' /\ devices'[h].from = clock' /\ devices'[h].newest = clock'
          /\ devices'[h].transfers = <<>> /\ devices'[h].pipes = {new}
      BY <1>4, <1>6
    <3>5. \A q \in devices'[h].pipes :
            /\ q.pipe \in DOMAIN pipeMap'
            /\ pipeMap'[q.pipe] = [handle |-> h, endpoint |-> q.endpoint]
      BY <1>5, <3>2, <3>4
    <3>6. \A p \in DOMAIN pipeMap' :
            pipeMap'[p].handle = h => \E q \in devices'[h].pipes : q.pipe = p
      BY <1>5, <3>3, <3>4
    <3>7. clock' <= devices'[h].newest /\ DOMAIN devices'[h].transfers = {}
      BY <1>3, <3>4, NoTransfers
    <3> QED
      BY <2>1, <3>1, <3>4, <3>5, <3>6, <3>7 DEF Living
  <2>3. CASE Over(h)
    <3>1. trials'[h].end <= trials'[h].start
      BY <1>3, <1>9, <1>10, <2>1, <2>3 DEF Created, Over
    <3> QED
      BY <1>3, <1>6, <2>1, <3>1 DEF Again
  <2>4. ~Living(h) /\ ~Again(h)
    BY <1>2 DEF Living, Again
  <2> QED
    BY <1>10, <2>2, <2>3, <2>4 DEF Capturing, Attributed
<1>11. Attributed'
  <2>1. handles' = handles
    BY <1>9 DEF Created
  <2>2. ASSUME NEW g \in handles PROVE (NotYet(g) \/ Living(g) \/ Over(g) \/ Again(g))'
    BY <1>7, <1>10, PipeAddedKeepsOthers
  <2> QED
    BY <2>1, <2>2 DEF Attributed
<1> QED
  BY <1>8, <1>11 DEF Capturing

LEMMA ConfigureKeeps ==
  ASSUME Capturing, NEW h \in DOMAIN devices, NEW pipe \in Pipes,
         NEW endpoint \in {"0x02", "0x84"}, Configure(h, pipe, endpoint), stage' = "capturing"
  PROVE  Capturing'
<1> DEFINE device == WithPipe(devices[h], pipe, endpoint)
           new == [pipe |-> pipe, endpoint |-> endpoint]
<1>1. CaptureType /\ Distinct /\ Identified
  BY DEF Capturing
<1>2. /\ stage = "capturing" /\ pipe \notin TakenPipes
      /\ devices' = [devices EXCEPT ![h] = device] /\ past' = past /\ clock' = clock
      /\ OnCreate(h, pipe, endpoint)
  BY DEF Configure
<1>3. /\ clock' \in 0 .. MaxClock /\ clock <= clock' /\ clock \in Nat
      /\ h \in Handles /\ devices[h] \in DeviceRecords
      /\ endpoint \in PipeEndpoints /\ endpoint # "0x00"
  BY <1>1, <1>2, TimesAssumption DEF CaptureType, PipeEndpoints
<1>4. /\ device \in DeviceRecords /\ device.newest = clock'
      /\ device.pipes = devices[h].pipes \cup {new}
      /\ device.target = devices[h].target /\ device.from = devices[h].from
      /\ device.transfers = devices[h].transfers
  BY <1>3, WithPipeFacts
<1>5. new.pipe = pipe /\ new.endpoint = endpoint
  OBVIOUS
<1> HIDE DEF device
<1>6. /\ DOMAIN devices' = DOMAIN devices \cup {h} /\ devices'[h] = device
      /\ \A g \in DOMAIN devices : g # h => devices'[g] = devices[g]
      /\ devices' \in [DOMAIN devices' -> DeviceRecords]
  BY <1>1, <1>2, <1>4 DEF CaptureType
<1>7. PipeAdded(h, pipe, endpoint)
  <2>1. devices'[h].target => h \in handles
    BY <1>1, <1>4, <1>6 DEF Identified
  <2> QED
    BY <1>2, <1>3, <1>4, <1>5, <1>6, <2>1 DEF PipeAdded
<1>8. CaptureType' /\ Distinct' /\ Identified'
  BY <1>7, PipeAddedKeepsRest
<1>9. Created(h, pipe, endpoint)
  BY <1>1, <1>7, PipeAddedCreates
<1>10. ASSUME h \in handles PROVE Living(h)' \/ Again(h)'
  <2>1. /\ trials'[h].start = trials[h].start /\ trials'[h].end = trials[h].end
        /\ trials'[h].transfers = trials[h].transfers
    BY <1>3, <1>9, <1>10 DEF Created
  <2>2. CASE Living(h)
    <3>1. /\ h \in DOMAIN devices' /\ devices'[h].from = devices[h].from
          /\ devices'[h].newest = clock' /\ devices'[h].target = devices[h].target
          /\ devices'[h].transfers = devices[h].transfers
          /\ devices'[h].pipes = devices[h].pipes \cup {new}
      BY <1>4, <1>6
    <3>2. trials[h].start # Never => trials[h].start <= devices'[h].newest
      <4>1. /\ devices[h].newest \in Int /\ devices[h].newest <= clock
            /\ trials[h].start \in Int
        BY <1>1, <1>3, <1>10 DEF DeviceRecords, Identified, CaptureType, TrialRecords
      <4> QED
        BY <1>2, <1>3, <2>2, <3>1, <4>1 DEF Living
    <3>3. \A q \in devices[h].pipes : q.pipe # pipe
      BY <1>2, TakenFacts
    <3>4. \A q \in devices'[h].pipes :
            /\ q.pipe \in DOMAIN pipeMap'
            /\ pipeMap'[q.pipe] = [handle |-> h, endpoint |-> q.endpoint]
      <4>1. \A q \in devices[h].pipes :
              /\ q.pipe \in DOMAIN pipeMap'
              /\ pipeMap'[q.pipe] = [handle |-> h, endpoint |-> q.endpoint]
        BY <1>9, <1>10, <2>2, <3>3 DEF Living, Created
      <4>2. pipe \in DOMAIN pipeMap' /\ pipeMap'[pipe] = [handle |-> h, endpoint |-> endpoint]
        BY <1>9, <1>10 DEF Created
      <4> QED
        BY <1>5, <3>1, <4>1, <4>2
    <3>5. ASSUME NEW p \in DOMAIN pipeMap', pipeMap'[p].handle = h
          PROVE  \E q \in devices'[h].pipes : q.pipe = p
      <4>1. CASE p = pipe
        BY <1>5, <3>1, <4>1
      <4>2. CASE p # pipe
        <5>1. p \in DOMAIN pipeMap /\ pipeMap[p].handle = h
          BY <1>9, <1>10, <3>5, <4>2 DEF Created
        <5>2. PICK q \in devices[h].pipes : q.pipe = p
          BY <2>2, <5>1 DEF Living
        <5> QED
          BY <3>1, <5>2
      <4> QED
        BY <4>1, <4>2
    <3>6. (\A d \in past' : d.handle # h) /\ trials'[h].start = devices'[h].from
      BY <1>2, <2>1, <2>2, <3>1 DEF Living
    <3> QED
      BY <2>1, <2>2, <3>1, <3>2, <3>4, <3>5, <3>6 DEF Living
  <2>3. CASE Again(h)
    BY <1>6, <2>1, <2>3 DEF Again
  <2> QED
    BY <1>10, <2>2, <2>3 DEF Capturing, Attributed, NotYet, Over
<1>11. Attributed'
  <2>1. handles' = handles
    BY <1>9 DEF Created
  <2>2. ASSUME NEW g \in handles PROVE (NotYet(g) \/ Living(g) \/ Over(g) \/ Again(g))'
    BY <1>7, <1>10, PipeAddedKeepsOthers
  <2> QED
    BY <2>1, <2>2 DEF Attributed
<1> QED
  BY <1>8, <1>11 DEF Capturing

\* Devices and trials with one more transfer, each with its condition.
WithOneMore(fs, gs, key, x, more) ==
  /\ DOMAIN gs = DOMAIN fs
  /\ \A k \in DOMAIN fs :
       gs[k].transfers = IF k = key /\ more THEN Append(fs[k].transfers, x)
                         ELSE fs[k].transfers

OneMore(fs, key, x) == [fs EXCEPT ![key].transfers = Append(@, x)]

SameDevice(d, e) == /\ d.target = e.target /\ d.from = e.from
                    /\ d.newest = e.newest /\ d.pipes = e.pipes

LEMMA OneMoreOnDevice ==
  ASSUME CaptureType, NEW h \in DOMAIN devices, NEW x \in Shown, NEW ds,
         ds = OneMore(devices, h, x)
  PROVE  /\ ds \in [DOMAIN devices -> DeviceRecords] /\ WithOneMore(devices, ds, h, x, TRUE)
         /\ \A g \in DOMAIN devices : SameDevice(ds[g], devices[g])
<1>1. devices \in [DOMAIN devices -> DeviceRecords] /\ devices[h] \in DeviceRecords
  BY DEF CaptureType
<1>2. PICK s : s = Append(devices[h].transfers, x)
  OBVIOUS
<1>3. s \in Seq(Shown)
  BY <1>1, <1>2, AppendProperties DEF DeviceRecords
<1>4. PICK d : d = [devices[h] EXCEPT !.transfers = s]
  OBVIOUS
<1>5. /\ d \in DeviceRecords /\ d.transfers = s
      /\ d.target = devices[h].target /\ d.from = devices[h].from
      /\ d.newest = devices[h].newest /\ d.pipes = devices[h].pipes
  BY <1>1, <1>3, <1>4 DEF DeviceRecords
<1>6. ds = [devices EXCEPT ![h] = d]
  BY <1>2, <1>4 DEF OneMore
<1> QED
  BY <1>1, <1>2, <1>5, <1>6 DEF WithOneMore, SameDevice

LEMMA OneMoreOnTrial ==
  ASSUME CaptureType, NEW h \in handles, NEW x \in Shown, NEW ts,
         ts = OneMore(trials, h, x)
  PROVE  /\ ts \in [handles -> TrialRecords] /\ WithOneMore(trials, ts, h, x, TRUE)
         /\ \A g \in handles :
              /\ ts[g].handle = trials[g].handle
              /\ ts[g].start = trials[g].start /\ ts[g].end = trials[g].end
<1>1. trials \in [handles -> TrialRecords] /\ trials[h] \in TrialRecords
  BY DEF CaptureType
<1>2. PICK s : s = Append(trials[h].transfers, x)
  OBVIOUS
<1>3. s \in Seq(Shown)
  BY <1>1, <1>2, AppendProperties DEF TrialRecords
<1>4. PICK t : t = [trials[h] EXCEPT !.transfers = s]
  OBVIOUS
<1>5. /\ t \in TrialRecords /\ t.transfers = s /\ t.handle = trials[h].handle
      /\ t.start = trials[h].start /\ t.end = trials[h].end
  BY <1>1, <1>3, <1>4 DEF TrialRecords
<1>6. ts = [trials EXCEPT ![h] = t]
  BY <1>2, <1>4 DEF OneMore
<1> QED
  BY <1>1, <1>2, <1>5, <1>6 DEF WithOneMore

\* A completion: of a device's own transfer, and what the importer makes of it.
Completes(h, p, success, length, time) ==
  LET mapped == p.pipe \in DOMAIN pipeMap /\ pipeMap[p.pipe].endpoint \in {"0x02", "0x84"}
  IN  /\ time \in Nat /\ devices[h].newest <= time
      /\ DOMAIN devices' = DOMAIN devices /\ devices' \in [DOMAIN devices -> DeviceRecords]
      /\ \A g \in DOMAIN devices :
           /\ devices'[g].target = devices[g].target /\ devices'[g].from = devices[g].from
           /\ devices'[g].newest = devices[g].newest /\ devices'[g].pipes = devices[g].pipes
      /\ WithOneMore(devices, devices', h,
                     [time |-> time, endpoint |-> p.endpoint, length |-> length],
                     devices[h].target /\ success /\ p.endpoint # "0x00")
      /\ handles' = handles /\ pipeMap' = pipeMap /\ past' = past
      /\ trials' \in [handles -> TrialRecords]
      /\ \A g \in handles :
           /\ trials'[g].handle = trials[g].handle
           /\ trials'[g].start = trials[g].start /\ trials'[g].end = trials[g].end
      /\ WithOneMore(trials, trials', pipeMap[p.pipe].handle,
                     [time |-> time, endpoint |-> pipeMap[p.pipe].endpoint,
                      length |-> length], mapped /\ success)

LEMMA CompletionFacts ==
  ASSUME CaptureType, NEW h \in DOMAIN devices, NEW p \in devices[h].pipes,
         NEW success \in BOOLEAN, NEW length \in Lengths, NEW late \in 0 .. Lateness,
         CompleteTransfer(h, p, success, length, late)
  PROVE  /\ Completes(h, p, success, length, clock' - late) /\ stage' = stage
         /\ clock' \in 0 .. MaxClock /\ clock <= clock' /\ clock \in Nat
<1> DEFINE time == clock' - late
           x == [time |-> time, endpoint |-> p.endpoint, length |-> length]
           own == devices[h].target /\ success /\ p.endpoint # "0x00"
           y == [time |-> time, endpoint |-> pipeMap[p.pipe].endpoint, length |-> length]
           mapped == p.pipe \in DOMAIN pipeMap /\ pipeMap[p.pipe].endpoint \in {"0x02", "0x84"}
<1>1. /\ Tick /\ time >= devices[h].newest /\ past' = past
      /\ devices' = IF own THEN [devices EXCEPT ![h].transfers = Append(@, x)] ELSE devices
      /\ OnCompletion(p.pipe, success, x)
  BY DEF CompleteTransfer
<1>2. /\ clock' \in 0 .. MaxClock /\ clock <= clock' /\ clock' \in Nat /\ clock \in Nat
  BY <1>1, TickFacts
<1>3. devices[h] \in DeviceRecords /\ p \in PipeRecords
  BY DEF CaptureType, DeviceRecords
<1>4. late \in Nat
  BY TimesAssumption
<1>5. time \in Nat /\ devices[h].newest <= time
  <2>1. devices[h].newest \in Nat
    BY <1>3, TimesAssumption DEF DeviceRecords
  <2> QED
    BY <1>1, <1>2, <1>4, <2>1
<1>6. x \in [time : Nat, endpoint : PipeEndpoints, length : Lengths]
  BY <1>3, <1>5 DEF PipeRecords
<1>7. own => x \in Shown
  BY <1>6 DEF Shown, PipeEndpoints
<1>8. mapped => y \in Shown /\ pipeMap[p.pipe].handle \in handles
  BY <1>5 DEF Shown, CaptureType
<1>9. /\ DOMAIN devices' = DOMAIN devices /\ devices' \in [DOMAIN devices -> DeviceRecords]
      /\ \A g \in DOMAIN devices :
           /\ devices'[g].target = devices[g].target /\ devices'[g].from = devices[g].from
           /\ devices'[g].newest = devices[g].newest /\ devices'[g].pipes = devices[g].pipes
      /\ WithOneMore(devices, devices', h, x, own)
  <2>1. CASE own
    <3>1. devices' = OneMore(devices, h, x) /\ x \in Shown
      BY <1>1, <1>7, <2>1 DEF OneMore
    <3> HIDE DEF x, own
    <3>2. PICK ds : ds = devices'
      OBVIOUS
    <3>3. /\ ds \in [DOMAIN devices -> DeviceRecords]
          /\ WithOneMore(devices, ds, h, x, TRUE)
          /\ \A g \in DOMAIN devices : SameDevice(ds[g], devices[g])
      BY <3>1, <3>2, OneMoreOnDevice
    <3> QED
      BY <2>1, <3>2, <3>3 DEF WithOneMore, SameDevice
  <2>2. CASE ~own
    <3>1. devices' = devices
      BY <1>1, <2>2
    <3> QED
      BY <2>2, <3>1 DEF WithOneMore, CaptureType
  <2> QED
    BY <2>1, <2>2
<1>10. /\ handles' = handles /\ pipeMap' = pipeMap /\ stage' = stage
       /\ trials' = IF mapped /\ success
                    THEN [trials EXCEPT ![pipeMap[p.pipe].handle].transfers = Append(@, y)]
                    ELSE trials
  BY <1>1 DEF OnCompletion, importer
<1>11. /\ trials' \in [handles -> TrialRecords]
       /\ \A g \in handles :
            /\ trials'[g].handle = trials[g].handle
            /\ trials'[g].start = trials[g].start /\ trials'[g].end = trials[g].end
       /\ WithOneMore(trials, trials', pipeMap[p.pipe].handle, y, mapped /\ success)
  <2>1. CASE mapped /\ success
    <3> DEFINE owner == pipeMap[p.pipe].handle
    <3>1. /\ trials' = OneMore(trials, owner, y) /\ y \in Shown
          /\ owner \in handles
      BY <1>8, <1>10, <2>1 DEF OneMore
    <3> HIDE DEF y, mapped, owner
    <3>2. /\ trials' \in [handles -> TrialRecords]
          /\ WithOneMore(trials, trials', owner, y, TRUE)
          /\ \A g \in handles :
               /\ trials'[g].handle = trials[g].handle
               /\ trials'[g].start = trials[g].start /\ trials'[g].end = trials[g].end
      BY <3>1, OneMoreOnTrial
    <3> QED
      BY <2>1, <3>2 DEF WithOneMore, owner
  <2>2. CASE ~(mapped /\ success)
    <3>1. trials' = trials
      BY <1>10, <2>2
    <3> QED
      BY <2>2, <3>1 DEF WithOneMore, CaptureType
  <2> QED
    BY <2>1, <2>2
<1> QED
  BY <1>1, <1>2, <1>5, <1>9, <1>10, <1>11 DEF Completes

LEMMA CompleteKeeps ==
  ASSUME Capturing, stage = "capturing", NEW h \in DOMAIN devices, NEW p \in devices[h].pipes,
         NEW success \in BOOLEAN, NEW length \in Lengths, NEW late \in 0 .. Lateness,
         CompleteTransfer(h, p, success, length, late)
  PROVE  Capturing'
<1> DEFINE time == clock' - late
           x == [time |-> time, endpoint |-> p.endpoint, length |-> length]
           own == devices[h].target /\ success /\ p.endpoint # "0x00"
           owner == pipeMap[p.pipe].handle
           y == [time |-> time, endpoint |-> pipeMap[p.pipe].endpoint, length |-> length]
           hit == /\ p.pipe \in DOMAIN pipeMap
                  /\ pipeMap[p.pipe].endpoint \in {"0x02", "0x84"} /\ success
<1>1. CaptureType /\ Distinct /\ Identified
  BY DEF Capturing
<1>2. /\ Completes(h, p, success, length, time)
      /\ clock' \in 0 .. MaxClock /\ clock <= clock' /\ clock \in Nat
  BY <1>1, CompletionFacts
<1>3. /\ time \in Nat /\ devices[h].newest <= time
      /\ DOMAIN devices' = DOMAIN devices /\ devices' \in [DOMAIN devices -> DeviceRecords]
      /\ handles' = handles /\ pipeMap' = pipeMap /\ past' = past
      /\ trials' \in [handles -> TrialRecords]
  BY <1>2 DEF Completes
<1>4. \A g \in DOMAIN devices :
        /\ devices'[g].target = devices[g].target /\ devices'[g].from = devices[g].from
        /\ devices'[g].newest = devices[g].newest /\ devices'[g].pipes = devices[g].pipes
  BY <1>2 DEF Completes
<1>5. \A g \in handles :
        /\ trials'[g].handle = trials[g].handle
        /\ trials'[g].start = trials[g].start /\ trials'[g].end = trials[g].end
  BY <1>2 DEF Completes
<1>6. /\ WithOneMore(devices, devices', h, x, own)
      /\ WithOneMore(trials, trials', owner, y, hit)
  BY <1>2 DEF Completes
<1>7. x.time = time /\ y.time = time /\ x.length = y.length /\ x.endpoint = p.endpoint
      /\ y.endpoint = pipeMap[p.pipe].endpoint
  OBVIOUS
<1>8. pipeMap[p.pipe].endpoint = p.endpoint => x = y
  OBVIOUS
<1>9. devices[h] \in DeviceRecords /\ p \in PipeRecords /\ p.endpoint \in PipeEndpoints
  BY <1>1 DEF CaptureType, DeviceRecords, PipeRecords
<1>10. \A g \in DOMAIN devices :
         devices'[g].transfers = IF g = h /\ own THEN Append(devices[g].transfers, x)
                                 ELSE devices[g].transfers
  BY <1>6 DEF WithOneMore
<1>11. \A g \in handles :
         trials'[g].transfers = IF g = owner /\ hit THEN Append(trials[g].transfers, y)
                                ELSE trials[g].transfers
  BY <1>1, <1>6 DEF WithOneMore, CaptureType
<1>12. hit => y \in Shown
  BY <1>3 DEF Shown
<1>13. own => x \in Shown
  BY <1>3, <1>9 DEF Shown, PipeEndpoints
<1>14. hit => p.pipe \in DOMAIN pipeMap
  OBVIOUS
<1>15. p.pipe \in DOMAIN pipeMap /\ pipeMap[p.pipe].endpoint = p.endpoint
          /\ devices[h].target => (own <=> hit)
  BY <1>9 DEF PipeEndpoints
<1> HIDE DEF time, x, own, owner, y, hit
<1>16. CaptureType' /\ Distinct' /\ Identified'
  <2>1. CaptureType'
    BY <1>1, <1>2, <1>3, <1>5 DEF CaptureType
  <2>2. Distinct'
    BY <1>1, <1>3, <1>4 DEF Distinct
  <2>3. Identified'
    <3>1. \A g \in DOMAIN devices : devices[g].newest \in Int /\ devices[g].newest <= clock
      BY <1>1 DEF CaptureType, DeviceRecords, Identified
    <3>2. \A g \in DOMAIN devices' : devices'[g].newest <= clock'
      BY <1>2, <1>3, <1>4, <3>1, TimesAssumption
    <3> QED
      BY <1>1, <1>3, <1>4, <3>2 DEF Identified
  <2> QED
    BY <2>1, <2>2, <2>3
<1>17. ASSUME NEW g \in handles PROVE (NotYet(g) \/ Living(g) \/ Over(g) \/ Again(g))'
  <2>1. /\ trials'[g].start = trials[g].start /\ trials'[g].end = trials[g].end
        /\ g \in DOMAIN devices' <=> g \in DOMAIN devices
    BY <1>3, <1>5
  <2>2. trials'[g].transfers = IF g = owner /\ hit THEN Append(trials[g].transfers, y)
                               ELSE trials[g].transfers
    BY <1>11
  <2>3. trials[g].transfers \in Seq(Shown) /\ trials[g].start \in Int /\ trials[g].end \in Int
    BY <1>1 DEF CaptureType, TrialRecords
  <2>4. CASE NotYet(g)
    <3>1. ~(g = owner /\ hit)
      BY <1>14, <2>4 DEF NotYet, owner
    <3> QED
      BY <1>3, <2>1, <2>2, <2>4, <3>1 DEF NotYet
  <2>5. CASE Living(g)
    <3>1. g \in DOMAIN devices /\ devices[g].transfers \in Seq(Shown)
          /\ devices[g].newest \in Int
      BY <1>1, <2>5 DEF Living, CaptureType, DeviceRecords
    <3>2. g = owner /\ hit => g = h
      <4> HAVE g = owner /\ hit
      <4>1. PICK q \in devices[g].pipes : q.pipe = p.pipe
        BY <1>14, <2>5 DEF Living, owner
      <4> QED
        BY <1>1, <3>1, <4>1 DEF Distinct
    <3>3. g = h => /\ p.pipe \in DOMAIN pipeMap /\ pipeMap[p.pipe].endpoint = p.endpoint
                   /\ g = owner
      <4> HAVE g = h
      <4>1. p.pipe \in DOMAIN pipeMap /\ pipeMap[p.pipe] = [handle |-> g, endpoint |-> p.endpoint]
        BY <2>5 DEF Living
      <4>2. pipeMap[p.pipe].handle = g /\ pipeMap[p.pipe].endpoint = p.endpoint
        BY <4>1
      <4> QED
        BY <4>1, <4>2 DEF owner
    <3>4. devices[g].target => trials'[g].transfers = devices'[g].transfers
      <4>1. CASE g = h
        BY <1>8, <1>10, <1>15, <2>2, <2>5, <3>1, <3>3, <4>1 DEF Living
      <4>2. CASE g # h
        BY <1>10, <2>2, <2>5, <3>1, <3>2, <4>2 DEF Living
      <4> QED
        BY <4>1, <4>2
    <3>5. ASSUME trials[g].start # Never
          PROVE  /\ trials[g].start <= devices'[g].newest
                 /\ \A i \in DOMAIN devices'[g].transfers :
                      trials[g].start <= devices'[g].transfers[i].time
      <4>1. /\ trials[g].start <= devices[g].newest
            /\ \A i \in DOMAIN devices[g].transfers :
                 trials[g].start <= devices[g].transfers[i].time
        BY <2>5, <3>5 DEF Living
      <4>2. CASE g = h /\ own
        <5>1. devices'[g].transfers = Append(devices[g].transfers, x) /\ x \in Shown
          BY <1>10, <1>13, <3>1, <4>2
        <5>2. trials[g].start <= x.time
          BY <1>3, <1>7, <2>3, <3>1, <4>1, <4>2
        <5> DEFINE n == Len(devices[g].transfers)
        <5>3. /\ DOMAIN devices[g].transfers = 1 .. n /\ n \in Nat
              /\ DOMAIN devices'[g].transfers = 1 .. (n + 1)
              /\ devices'[g].transfers[n + 1] = x
              /\ \A i \in 1 .. n : devices'[g].transfers[i] = devices[g].transfers[i]
          BY <3>1, <5>1, AppendProperties, LenProperties
        <5> HIDE DEF n
        <5>4. \A i \in 1 .. (n + 1) : i \in 1 .. n \/ i = n + 1
          BY <5>3
        <5> QED
          BY <1>4, <3>1, <4>1, <5>2, <5>3, <5>4
      <4>3. CASE ~(g = h /\ own)
        BY <1>4, <1>10, <3>1, <4>1, <4>3
      <4> QED
        BY <4>2, <4>3
    <3> QED
      BY <1>3, <1>4, <2>1, <2>5, <3>1, <3>4, <3>5 DEF Living
  <2>6. CASE Over(g)
    <3>1. trials[g].end \in 0 .. clock'
      BY <1>2, <2>6, TimesAssumption DEF Over
    <3>2. ASSUME NEW d \in past, d.handle = g
          PROVE  /\ d.from = trials[g].start /\ d.to = trials[g].end
                 /\ TransfersOf(d, trials'[g])
      <4>1. /\ d.from = trials[g].start /\ d.to = trials[g].end
            /\ TransfersOf(d, trials[g])
        BY <2>6, <3>2 DEF Over
      <4>2. CASE g = owner /\ hit
        <5>1. trials[g].end <= devices[h].newest
          BY <1>14, <2>6, <4>2 DEF Over, owner
        <5>2. d.to <= y.time
          BY <1>3, <1>7, <1>9, <2>3, <4>1, <5>1 DEF DeviceRecords
        <5>3. trials'[g].transfers = Append(trials[g].transfers, y) /\ y \in Shown
          BY <1>12, <2>2, <4>2
        <5> DEFINE n == Len(trials[g].transfers)
                   m == Len(d.transfers)
        <5>4. /\ n \in Nat /\ Len(trials'[g].transfers) = n + 1
              /\ trials'[g].transfers[n + 1] = y
              /\ \A i \in 1 .. n : trials'[g].transfers[i] = trials[g].transfers[i]
          BY <2>3, <5>3, AppendProperties, LenProperties
        <5>5. m \in Nat /\ m <= n
          BY <1>1, <4>1, LenProperties DEF TransfersOf, CaptureType, Lifetimes
        <5>6. \A i \in 1 .. m :
                /\ trials'[g].transfers[i] = d.transfers[i]
                /\ trials'[g].start # Never => trials'[g].start <= d.transfers[i].time
          <6>1. \A i \in 1 .. m : i \in 1 .. n
            BY <5>4, <5>5
          <6>2. \A i \in 1 .. m :
                  /\ trials[g].transfers[i] = d.transfers[i]
                  /\ trials[g].start # Never => trials[g].start <= d.transfers[i].time
            BY <4>1 DEF TransfersOf
          <6> HIDE DEF n, m
          <6> QED
            BY <2>1, <5>4, <6>1, <6>2
        <5>7. \A i \in 1 .. (n + 1) : i > m => d.to <= trials'[g].transfers[i].time
          <6>1. \A i \in 1 .. (n + 1) : i \in 1 .. n \/ i = n + 1
            BY <5>4
          <6>2. \A i \in 1 .. n : i > m => d.to <= trials[g].transfers[i].time
            BY <4>1 DEF TransfersOf
          <6> HIDE DEF n, m
          <6> QED
            BY <5>2, <5>4, <6>1, <6>2
        <5> QED
          BY <4>1, <5>4, <5>5, <5>6, <5>7 DEF TransfersOf
      <4>3. CASE ~(g = owner /\ hit)
        BY <2>1, <2>2, <4>1, <4>3 DEF TransfersOf
      <4> QED
        BY <4>2, <4>3
    <3> QED
      BY <1>3, <1>4, <2>1, <2>6, <3>1, <3>2 DEF Over
  <2>7. CASE Again(g)
    BY <2>1, <2>7 DEF Again
  <2> QED
    BY <2>4, <2>5, <2>6, <2>7 DEF Capturing, Attributed
<1>18. Attributed'
  BY <1>3, <1>17 DEF Attributed
<1> QED
  BY <1>16, <1>18 DEF Capturing

\* What the importer has after the deletion of endpoint zero of h.
Deleted(h) ==
  /\ handles' = handles /\ pipeMap' = pipeMap
  /\ trials' \in [handles -> TrialRecords]
  /\ \A g \in handles :
       /\ trials'[g].handle = g /\ trials'[g].start = trials[g].start
       /\ trials'[g].transfers = trials[g].transfers
       /\ g # h => trials'[g].end = trials[g].end
  /\ h \in handles => trials[h].end = Never /\ trials'[h].end = clock'

LEMMA OnDeleteFacts ==
  ASSUME CaptureType, stage = "capturing", stage' = "capturing", clock' \in 0 .. Never,
         NEW h, OnDelete(h)
  PROVE  Deleted(h)
<1>1. CASE h \notin handles
  BY <1>1 DEF OnDelete, importer, CaptureType, Deleted
<1>2. CASE h \in handles
  <2>1. /\ trials[h].end = Never /\ trials' = [trials EXCEPT ![h].end = clock']
        /\ handles' = handles /\ pipeMap' = pipeMap
    BY <1>2 DEF OnDelete, RefuseExport
  <2>2. PICK t : t = [trials[h] EXCEPT !.end = clock']
    OBVIOUS
  <2>3. trials' = [trials EXCEPT ![h] = t]
    BY <2>1, <2>2
  <2>4. trials[h] \in TrialRecords
    BY <1>2 DEF CaptureType
  <2>5. /\ t \in TrialRecords /\ t.end = clock' /\ t.handle = trials[h].handle
        /\ t.start = trials[h].start /\ t.transfers = trials[h].transfers
    BY <2>2, <2>4 DEF TrialRecords
  <2>6. /\ trials' \in [handles -> TrialRecords] /\ trials'[h] = t
        /\ \A g \in handles : g # h => trials'[g] = trials[g]
    BY <1>2, <2>3, <2>5 DEF CaptureType
  <2> QED
    BY <1>2, <2>1, <2>5, <2>6 DEF Deleted, CaptureType
<1> QED
  BY <1>1, <1>2

LEMMA LeaveKeeps ==
  ASSUME Capturing, NEW h \in DOMAIN devices, Leave(h), stage' = "capturing"
  PROVE  Capturing'
<1> DEFINE life == [handle |-> h, from |-> devices[h].from, to |-> clock',
                    transfers |-> devices[h].transfers]
<1>1. CaptureType /\ Distinct /\ Identified
  BY DEF Capturing
<1>2. /\ stage = "capturing" /\ Tick /\ OnDelete(h)
      /\ past' = IF devices[h].target THEN past \cup {life} ELSE past
      /\ devices' = [g \in DOMAIN devices \ {h} |-> devices[g]]
  BY DEF Leave
<1>3. /\ clock' \in 0 .. MaxClock /\ clock <= clock' /\ clock' \in 0 .. Never
      /\ clock' # Never /\ clock' \in Nat /\ clock \in Nat
  BY <1>1, <1>2, TickFacts
<1>4. Deleted(h)
  BY <1>1, <1>2, <1>3, OnDeleteFacts
<1>5. /\ DOMAIN devices' = DOMAIN devices \ {h}
      /\ \A g \in DOMAIN devices' : devices'[g] = devices[g]
  BY <1>2
<1>6. devices[h] \in DeviceRecords /\ h \in Handles /\ (devices[h].target => h \in handles)
  BY <1>1 DEF CaptureType, Identified
<1>7. life \in Lifetimes
  BY <1>1, <1>3 DEF CaptureType, DeviceRecords, Lifetimes
<1>8. /\ life.handle = h /\ life.from = devices[h].from /\ life.to = clock'
      /\ life.transfers = devices[h].transfers
  OBVIOUS
<1> HIDE DEF life
<1>9. h \in handles => Living(h)
  <2> HAVE h \in handles
  <2>1. trials[h].end = Never /\ trials[h] \in TrialRecords
    BY <1>1, <1>4 DEF Deleted, CaptureType
  <2>2. ~NotYet(h) /\ ~Over(h) /\ ~Again(h)
    BY <1>1, <2>1, TimesAssumption DEF NotYet, Over, Again, TrialRecords, CaptureType, Never
  <2> QED
    BY <2>2 DEF Capturing, Attributed
<1>10. \A d \in past' : d \in past \/ (d = life /\ devices[h].target)
  BY <1>2
<1>11. \A d \in past : devices[h].target => d.handle # h
  BY <1>1, <1>9 DEF Living, Identified
<1>12. CaptureType'
  <2>1. devices' \in [DOMAIN devices' -> DeviceRecords] /\ DOMAIN devices' \subseteq Handles
    BY <1>1, <1>2, <1>5 DEF CaptureType
  <2>2. past' \subseteq Lifetimes
    BY <1>1, <1>7, <1>10 DEF CaptureType
  <2> QED
    BY <1>1, <1>3, <1>4, <2>1, <2>2 DEF CaptureType, Deleted
<1>13. Distinct'
  <2>1. \A g, k \in DOMAIN devices' : \A p \in devices'[g].pipes, q \in devices'[k].pipes :
          p.pipe = q.pipe => g = k /\ p = q
    BY <1>1, <1>5 DEF Distinct
  <2>2. \A d, e \in past' : d.handle = e.handle => d = e
    BY <1>1, <1>8, <1>10, <1>11 DEF Distinct
  <2> QED
    BY <2>1, <2>2 DEF Distinct
<1>14. Identified'
  <2>1. handles' = handles
    BY <1>4 DEF Deleted
  <2>2. \A g \in DOMAIN devices : devices[g].newest \in Int /\ devices[g].newest <= clock
    BY <1>1 DEF CaptureType, DeviceRecords, Identified
  <2>3. \A g \in DOMAIN devices' : devices'[g].newest <= clock'
    BY <1>3, <1>5, <2>2
  <2>4. \A d \in past' : d.handle \in handles
    BY <1>1, <1>6, <1>8, <1>10 DEF Identified
  <2> QED
    BY <1>1, <1>5, <2>1, <2>3, <2>4 DEF Identified
<1>15. ASSUME NEW g \in handles PROVE (NotYet(g) \/ Living(g) \/ Over(g) \/ Again(g))'
  <2>1. pipeMap' = pipeMap /\ trials'[g].start = trials[g].start
        /\ trials'[g].transfers = trials[g].transfers
    BY <1>4 DEF Deleted
  <2>2. CASE g # h
    <3>1. /\ trials'[g].end = trials[g].end
          /\ g \in DOMAIN devices' <=> g \in DOMAIN devices
          /\ g \in DOMAIN devices => devices'[g] = devices[g]
          /\ \A d \in past' : d.handle = g => d \in past
      BY <1>4, <1>5, <1>8, <1>10, <2>2 DEF Deleted
    <3>2. CASE NotYet(g)
      BY <2>1, <3>1, <3>2 DEF NotYet
    <3>3. CASE Living(g)
      BY <2>1, <3>1, <3>3 DEF Living
    <3>4. CASE Over(g)
      <4>1. trials'[g].end \in 0 .. clock'
        BY <1>3, <3>1, <3>4 DEF Over
      <4>2. ASSUME NEW d \in past', d.handle = g
            PROVE  /\ d.from = trials'[g].start /\ d.to = trials'[g].end
                   /\ TransfersOf(d, trials'[g])
        <5>1. /\ d.from = trials[g].start /\ d.to = trials[g].end
              /\ TransfersOf(d, trials[g])
          BY <3>1, <3>4, <4>2 DEF Over
        <5> QED
          BY <2>1, <3>1, <5>1 DEF TransfersOf
      <4>3. \A k \in DOMAIN devices' : \A q \in devices'[k].pipes :
              q.pipe \in DOMAIN pipeMap' /\ pipeMap'[q.pipe].handle = g
                => trials'[g].end <= devices'[k].newest
        BY <1>5, <2>1, <3>1, <3>4 DEF Over
      <4> QED
        BY <3>1, <3>4, <4>1, <4>2, <4>3 DEF Over
    <3>5. CASE Again(g)
      BY <2>1, <3>1, <3>5 DEF Again
    <3> QED
      BY <3>2, <3>3, <3>4, <3>5 DEF Capturing, Attributed
  <2>3. CASE g = h
    <3>1. Living(h) /\ trials'[h].end = clock' /\ h \notin DOMAIN devices'
      BY <1>4, <1>5, <1>9, <2>3 DEF Deleted
    <3>2. ASSUME NEW d \in past', d.handle = h
          PROVE  /\ d.from = trials'[h].start /\ d.to = trials'[h].end
                 /\ TransfersOf(d, trials'[h])
      <4>1. d = life /\ devices[h].target
        BY <1>10, <3>1, <3>2 DEF Living
      <4>2. d.transfers = trials'[h].transfers /\ trials'[h].transfers = devices[h].transfers
            /\ trials'[h].start = trials[h].start
        BY <1>8, <2>1, <2>3, <3>1, <4>1 DEF Living
      <4>3. devices[h].transfers \in Seq(Shown)
        BY <1>6 DEF DeviceRecords
      <4>4. PICK n \in Nat : n = Len(devices[h].transfers)
        BY <4>3, LenProperties
      <4>5. /\ DOMAIN devices[h].transfers = 1 .. n /\ n = Len(d.transfers)
            /\ Len(trials'[h].transfers) = n
        BY <4>2, <4>3, <4>4, LenProperties
      <4>6. TransfersOf(d, trials'[h])
        BY <3>1, <4>2, <4>4, <4>5 DEF Living, TransfersOf
      <4> QED
        BY <1>8, <2>1, <2>3, <3>1, <4>1, <4>6 DEF Living
    <3>3. ASSUME NEW k \in DOMAIN devices', NEW q \in devices'[k].pipes,
                 q.pipe \in DOMAIN pipeMap', pipeMap'[q.pipe].handle = h
          PROVE  FALSE
      <4>1. PICK r \in devices[h].pipes : r.pipe = q.pipe
        BY <2>1, <3>1, <3>3 DEF Living
      <4>2. k \in DOMAIN devices /\ q \in devices[k].pipes /\ k # h
        BY <1>5
      <4> QED
        BY <1>1, <4>1, <4>2 DEF Distinct
    <3>4. trials'[h].end \in 0 .. clock'
      BY <1>3, <3>1
    <3> QED
      BY <2>3, <3>1, <3>2, <3>3, <3>4 DEF Over
  <2> QED
    BY <2>2, <2>3
<1>16. Attributed'
  BY <1>4, <1>15 DEF Attributed, Deleted
<1> QED
  BY <1>12, <1>13, <1>14, <1>16 DEF Capturing

-----------------------------------------------------------------------------
(* The importer: sorting and selecting.                                    *)

Earlier(s, j, i) == s[j].time < s[i].time \/ (s[j].time = s[i].time /\ j <= i)

\* The order of the transfers at some positions, as a function of their new places.
IsOrderOf(f, s, at) ==
  /\ f \in Bijection(1 .. Cardinality(at), at)
  /\ \A j, k \in 1 .. Cardinality(at) : j < k => s[f[j]].time <= s[f[k]].time

Placed(s, at) == [k \in 1 .. Cardinality(at) |-> CHOOSE i \in at : Rank(s, at, i) = k]

LEMMA RankType ==
  ASSUME NEW s \in Seq(Shown), NEW at \in SUBSET DOMAIN s
  PROVE  /\ IsFiniteSet(at) /\ Cardinality(at) \in Nat
         /\ \A i \in at : /\ Rank(s, at, i) \in 1 .. Cardinality(at)
                          /\ i \in Nat /\ s[i].time \in Nat
<1>1. DOMAIN s = 1 .. Len(s) /\ Len(s) \in Nat /\ \A i \in 1 .. Len(s) : s[i] \in Shown
  BY LenProperties
<1>2. IsFiniteSet(at) /\ Cardinality(at) \in Nat
  <2>1. IsFiniteSet(1 .. Len(s))
    BY <1>1, FS_Interval
  <2>2. IsFiniteSet(at)
    BY <1>1, <2>1, FS_Subset
  <2> QED
    BY <2>2, FS_CardinalityType
<1>3. ASSUME NEW i \in at
      PROVE  Rank(s, at, i) \in 1 .. Cardinality(at) /\ i \in Nat /\ s[i].time \in Nat
  <2>1. i \in Nat /\ s[i].time \in Nat
    BY <1>1 DEF Shown
  <2> DEFINE E == {j \in at : \/ s[j].time < s[i].time
                              \/ s[j].time = s[i].time /\ j <= i}
  <2>2. i \in E /\ E \in SUBSET at
    BY <2>1
  <2> HIDE DEF E
  <2>3. IsFiniteSet(E) /\ Cardinality(E) <= Cardinality(at) /\ Cardinality(E) \in Nat
    BY <1>2, <2>2, FS_Subset, FS_CardinalityType
  <2>4. Cardinality(E) # 0
    BY <2>2, <2>3, FS_EmptySet
  <2>5. Rank(s, at, i) = Cardinality(E)
    BY DEF Rank, E
  <2> QED
    BY <1>2, <2>1, <2>3, <2>4, <2>5
<1> QED
  BY <1>2, <1>3

LEMMA RankOrders ==
  ASSUME NEW s \in Seq(Shown), NEW at \in SUBSET DOMAIN s, NEW i \in at, NEW j \in at,
         i # j, Earlier(s, i, j)
  PROVE  Rank(s, at, i) < Rank(s, at, j)
<1> DEFINE E(k) == {l \in at : \/ s[l].time < s[k].time
                               \/ s[l].time = s[k].time /\ l <= k}
<1>1. IsFiniteSet(at) /\ \A k \in at : k \in Nat /\ s[k].time \in Nat
  BY RankType
<1>2. E(i) \subseteq E(j) /\ j \in E(j) /\ j \notin E(i)
  BY <1>1 DEF Earlier
<1>3. E(j) \in SUBSET at /\ Rank(s, at, i) = Cardinality(E(i))
      /\ Rank(s, at, j) = Cardinality(E(j))
  BY DEF Rank
<1> HIDE DEF E
<1>4. IsFiniteSet(E(j))
  BY <1>1, <1>3, FS_Subset
<1>5. /\ Cardinality(E(i)) <= Cardinality(E(j)) /\ Cardinality(E(i)) # Cardinality(E(j))
      /\ IsFiniteSet(E(i))
  BY <1>2, <1>4, FS_Subset
<1>6. Cardinality(E(i)) \in Nat /\ Cardinality(E(j)) \in Nat
  BY <1>4, <1>5, FS_CardinalityType
<1> QED
  BY <1>3, <1>5, <1>6

LEMMA PlacedIsOrder ==
  ASSUME NEW s \in Seq(Shown), NEW at \in SUBSET DOMAIN s
  PROVE  IsOrderOf(Placed(s, at), s, at)
<1> DEFINE n == Cardinality(at)
           rank == [i \in at |-> Rank(s, at, i)]
           f == Placed(s, at)
<1>1. /\ IsFiniteSet(at) /\ n \in Nat
      /\ \A i \in at : Rank(s, at, i) \in 1 .. n /\ i \in Nat /\ s[i].time \in Nat
  BY RankType
<1>2. \A i, j \in at : i # j => Rank(s, at, i) # Rank(s, at, j)
  <2> SUFFICES ASSUME NEW i \in at, NEW j \in at, i # j
               PROVE  Rank(s, at, i) # Rank(s, at, j)
    OBVIOUS
  <2>1. Earlier(s, i, j) \/ Earlier(s, j, i)
    BY <1>1 DEF Earlier
  <2>2. Rank(s, at, i) < Rank(s, at, j) \/ Rank(s, at, j) < Rank(s, at, i)
    BY <2>1, RankOrders
  <2> QED
    BY <1>1, <2>2
<1>3. rank \in Injection(at, 1 .. n)
  <2>1. \A i \in at : rank[i] = Rank(s, at, i)
    OBVIOUS
  <2>2. rank \in [at -> 1 .. n]
    BY <1>1
  <2> HIDE DEF rank, n
  <2> QED
    BY <1>2, <2>1, <2>2 DEF Injection, IsInjective
<1>4. IsFiniteSet(1 .. n) /\ Cardinality(1 .. n) = n
  BY <1>1, Interval
<1>5. rank \in Surjection(at, 1 .. n)
  <2>1. Cardinality(at) = Cardinality(1 .. n)
    BY <1>4
  <2> HIDE DEF rank, n
  <2> QED
    BY <1>3, <1>4, <2>1, FS_Injection
<1>6. \A k \in 1 .. n : \E i \in at : Rank(s, at, i) = k
  BY <1>5 DEF Surjection
<1>7. \A k \in 1 .. n : f[k] \in at /\ Rank(s, at, f[k]) = k
  BY <1>6 DEF Placed
<1>8. f \in [1 .. n -> at]
  BY <1>7 DEF Placed
<1>9. \A i \in at : Rank(s, at, i) \in 1 .. n /\ f[Rank(s, at, i)] = i
  BY <1>1, <1>2, <1>7
<1>10. f \in Bijection(1 .. n, at)
  BY <1>7, <1>8, <1>9 DEF Bijection, Injection, IsInjective, Surjection
<1>11. ASSUME NEW j \in 1 .. n, NEW k \in 1 .. n, j < k
       PROVE  s[f[j]].time <= s[f[k]].time
  <2>1. f[j] \in at /\ f[k] \in at /\ Rank(s, at, f[j]) = j /\ Rank(s, at, f[k]) = k
    BY <1>7
  <2>2. s[f[j]].time \in Nat /\ s[f[k]].time \in Nat
    BY <1>1, <2>1
  <2>3. CASE s[f[k]].time < s[f[j]].time
    <3>1. Earlier(s, f[k], f[j]) /\ f[k] # f[j]
      BY <2>2, <2>3 DEF Earlier
    <3>2. Rank(s, at, f[k]) < Rank(s, at, f[j])
      BY <2>1, <3>1, RankOrders
    <3> QED
      BY <1>11, <2>1, <3>2
  <2> QED
    BY <2>2, <2>3
<1> QED
  BY <1>10, <1>11 DEF IsOrderOf

Occurring(x, s) == {i \in DOMAIN s : s[i] = x}

\* A trial as discover_trials() returns it.
IsTrial(t) ==
  /\ t \in TrialRecords /\ t.start \in 0 .. MaxClock /\ t.end \in 0 .. MaxClock
  /\ t.start < t.end
  /\ \A k \in DOMAIN t.transfers :
       t.start <= t.transfers[k].time /\ t.transfers[k].time < t.end
  /\ \A j, k \in DOMAIN t.transfers : j < k => t.transfers[j].time <= t.transfers[k].time

LEMMA TrimmedFacts ==
  ASSUME NEW t \in TrialRecords
  PROVE  LET f == Placed(t.transfers, Inside(t))
             n == Cardinality(Inside(t))
         IN  /\ n \in Nat /\ IsOrderOf(f, t.transfers, Inside(t))
             /\ Trimmed(t) \in TrialRecords /\ Trimmed(t).handle = t.handle
             /\ Trimmed(t).start = t.start /\ Trimmed(t).end = t.end
             /\ DOMAIN Trimmed(t).transfers = 1 .. n /\ Len(Trimmed(t).transfers) = n
             /\ \A k \in 1 .. n : /\ f[k] \in Inside(t)
                                  /\ Trimmed(t).transfers[k] = t.transfers[f[k]]
<1> DEFINE at == Inside(t)
           f == Placed(t.transfers, at)
           n == Cardinality(at)
<1>1. at \in SUBSET DOMAIN t.transfers /\ t.transfers \in Seq(Shown)
  BY DEF Inside, TrialRecords
<1>2. IsOrderOf(f, t.transfers, at) /\ n \in Nat
  BY <1>1, PlacedIsOrder, RankType
<1>3. f \in [1 .. n -> at]
  BY <1>2 DEF IsOrderOf, Bijection, Injection
<1>4. PICK s : s = [k \in 1 .. n |->
                      t.transfers[CHOOSE i \in at : Rank(t.transfers, at, i) = k]]
  OBVIOUS
<1>0. \A k \in 1 .. n : s[k] = t.transfers[f[k]]
  BY <1>4 DEF Placed
<1>5. \A i \in at : t.transfers[i] \in Shown
  BY <1>1, LenProperties
<1>6. s \in Seq(Shown) /\ Len(s) = n /\ DOMAIN s = 1 .. n
  <2>1. s \in [1 .. n -> Shown]
    <3>1. \A k \in 1 .. n : s[k] \in Shown
      BY <1>0, <1>3, <1>5
    <3>2. s = [k \in 1 .. n |-> s[k]]
      BY <1>4
    <3> QED
      BY <3>1, <3>2
  <2> HIDE DEF n
  <2>2. s \in Seq(Shown)
    BY <1>2, <2>1
  <2> QED
    BY <1>2, <2>1, <2>2, LenProperties
<1>7. Trimmed(t) = [t EXCEPT !.transfers = s]
  BY <1>4 DEF Trimmed
<1>8. /\ Trimmed(t) \in TrialRecords /\ Trimmed(t).handle = t.handle
      /\ Trimmed(t).start = t.start /\ Trimmed(t).end = t.end /\ Trimmed(t).transfers = s
  BY <1>6, <1>7 DEF TrialRecords
<1>9. \A k \in 1 .. n : f[k] \in at /\ s[k] = t.transfers[f[k]]
  BY <1>0, <1>3
<1> HIDE DEF at, f, n
<1> QED
  BY <1>2, <1>6, <1>8, <1>9 DEF at, f, n

LEMMA TrimmedIsTrial ==
  ASSUME NEW t \in TrialRecords, Bounded(t)
  PROVE  IsTrial(Trimmed(t))
<1> DEFINE f == Placed(t.transfers, Inside(t))
           n == Cardinality(Inside(t))
           T == Trimmed(t)
<1>1. /\ n \in Nat /\ IsOrderOf(f, t.transfers, Inside(t))
      /\ T \in TrialRecords /\ T.start = t.start /\ T.end = t.end
      /\ DOMAIN T.transfers = 1 .. n
      /\ \A k \in 1 .. n : f[k] \in Inside(t) /\ T.transfers[k] = t.transfers[f[k]]
  BY TrimmedFacts
<1>2. \A i \in Inside(t) : t.start <= t.transfers[i].time /\ t.transfers[i].time < t.end
  BY DEF Inside
<1>3. \A j, k \in 1 .. n : j < k => t.transfers[f[j]].time <= t.transfers[f[k]].time
  BY <1>1 DEF IsOrderOf
<1>4. t.start \in 0 .. MaxClock /\ t.end \in 0 .. MaxClock /\ t.start < t.end
  BY TimesAssumption DEF TrialRecords, Bounded, Never
<1> HIDE DEF f, n, T
<1> QED
  BY <1>1, <1>2, <1>3, <1>4 DEF IsTrial, T

LEMMA TrimmedKeeps ==
  ASSUME NEW t \in TrialRecords, NEW x, t.start <= x.time, x.time < t.end
  PROVE  Occurrences(x, Trimmed(t).transfers) = Occurrences(x, t.transfers)
<1> DEFINE f == Placed(t.transfers, Inside(t))
           n == Cardinality(Inside(t))
           A == Occurring(x, Trimmed(t).transfers)
           B == Occurring(x, t.transfers)
           g == [k \in A |-> f[k]]
<1>1. /\ n \in Nat /\ f \in Bijection(1 .. n, Inside(t))
      /\ DOMAIN Trimmed(t).transfers = 1 .. n
      /\ \A k \in 1 .. n : f[k] \in Inside(t) /\ Trimmed(t).transfers[k] = t.transfers[f[k]]
  BY TrimmedFacts DEF IsOrderOf
<1>2. A = {k \in 1 .. n : t.transfers[f[k]] = x}
  BY <1>1 DEF Occurring
<1>3. B = {i \in Inside(t) : t.transfers[i] = x}
  BY DEF Occurring, Inside
<1>4. /\ \A j, k \in 1 .. n : f[j] = f[k] => j = k
      /\ \A i \in Inside(t) : \E k \in 1 .. n : f[k] = i
  BY <1>1 DEF Bijection, Injection, IsInjective, Surjection
<1> HIDE DEF f, n, A, B
<1>5. \A k \in A : g[k] = f[k]
  OBVIOUS
<1>6. g \in [A -> B]
  BY <1>1, <1>2, <1>3
<1> HIDE DEF g
<1>7. \A j, k \in A : g[j] = g[k] => j = k
  BY <1>2, <1>4, <1>5
<1>8. \A i \in B : \E k \in A : g[k] = i
  BY <1>2, <1>3, <1>4, <1>5
<1>9. g \in Bijection(A, B)
  BY <1>6, <1>7, <1>8 DEF Bijection, Injection, IsInjective, Surjection
<1>10. IsFiniteSet(A)
  <2>1. IsFiniteSet(1 .. n) /\ A \in SUBSET (1 .. n)
    BY <1>1, <1>2, Interval
  <2> QED
    BY <2>1, FS_Subset
<1>11. Cardinality(A) = Cardinality(B)
  BY <1>9, <1>10, FS_Bijection DEF ExistsBijection
<1> QED
  BY <1>11 DEF Occurrences, Occurring, A, B

\* A trial is that of the one lifetime of its handle.
LEMMA OverIsTrialOf ==
  ASSUME NEW t \in TrialRecords, Bounded(t), NEW d \in Lifetimes,
         d.handle = t.handle, d.from = t.start, d.to = t.end, TransfersOf(d, t)
  PROVE  IsTrialOf(Trimmed(t), d)
<1> DEFINE T == Trimmed(t)
<1>1. /\ T.handle = t.handle /\ T.start = t.start /\ T.end = t.end
      /\ T \in TrialRecords
  BY TrimmedFacts
<1>2. IsTrial(T)
  BY TrimmedIsTrial
<1>3. \A i \in DOMAIN T.transfers :
        t.start <= T.transfers[i].time /\ T.transfers[i].time < t.end
  BY <1>1, <1>2 DEF IsTrial
<1>4. PICK n \in Nat, m \in Nat :
        /\ n = Len(t.transfers) /\ DOMAIN t.transfers = 1 .. n
        /\ m = Len(d.transfers) /\ DOMAIN d.transfers = 1 .. m
  BY LenProperties DEF TrialRecords, Lifetimes
<1>5. /\ m <= n
      /\ \A i \in 1 .. m : t.transfers[i] = d.transfers[i] /\ t.start <= d.transfers[i].time
      /\ \A i \in 1 .. n : i > m => d.to <= t.transfers[i].time
  BY <1>4 DEF TransfersOf, Bounded
<1>6. \A i \in 1 .. n : t.transfers[i].time \in Nat
  <2>1. t.transfers \in Seq(Shown)
    BY DEF TrialRecords
  <2>2. \A i \in 1 .. n : t.transfers[i] \in Shown
    BY <1>4, <2>1, LenProperties
  <2> QED
    BY <2>2 DEF Shown
<1>7. d.to \in Nat
  BY TimesAssumption DEF Lifetimes
<1> HIDE DEF T
<1>8. ASSUME NEW x \in {T.transfers[i] : i \in DOMAIN T.transfers}
                         \cup {d.transfers[i] : i \in DOMAIN d.transfers},
             x.time < d.to
      PROVE  Occurrences(x, T.transfers) = Occurrences(x, d.transfers)
  <2>1. t.start <= x.time
    BY <1>3, <1>4, <1>5, <1>8
  <2>2. Occurrences(x, T.transfers) = Occurrences(x, t.transfers)
    BY <1>8, <2>1, TrimmedKeeps DEF T
  <2>3. \A i \in 1 .. n : t.transfers[i] = x => i <= m
    BY <1>4, <1>5, <1>6, <1>7, <1>8
  <2>4. {i \in 1 .. n : t.transfers[i] = x} = {i \in 1 .. m : d.transfers[i] = x}
    BY <1>4, <1>5, <2>3
  <2> QED
    BY <1>4, <2>2, <2>4 DEF Occurrences
<1> QED
  BY <1>1, <1>3, <1>8 DEF IsTrialOf, T

Found ==
  /\ \A h \in DOMAIN devices : ~devices[h].target
  /\ Len(trials) = Cardinality(past)
  /\ \A d \in past : \E k \in DOMAIN trials : IsTrialOf(trials[k], d)
  /\ \A j, k \in DOMAIN trials : j < k => trials[j].start <= trials[k].start
  /\ trials \in Seq(TrialRecords)
  /\ \A k \in DOMAIN trials : IsTrial(trials[k])

LEMMA BoundedIsOver ==
  ASSUME Capturing, NEW h \in handles, Bounded(trials[h])
  PROVE  Over(h)
<1>1. trials[h].start \in Int /\ trials[h].end \in Int
  BY DEF Capturing, CaptureType, TrialRecords
<1>2. ~NotYet(h) /\ ~Living(h) /\ ~Again(h)
  BY <1>1 DEF NotYet, Living, Again, Bounded
<1> QED
  BY <1>2 DEF Capturing, Attributed

LEMMA OnePerHandle ==
  ASSUME Capturing, \A h \in handles : \E d \in past : d.handle = h
  PROVE  Cardinality(past) = Cardinality(handles) /\ IsFiniteSet(handles)
<1> DEFINE g == [h \in handles |-> CHOOSE d \in past : d.handle = h]
<1>1. CaptureType /\ Distinct /\ Identified
  BY DEF Capturing
<1>2. IsFiniteSet(handles)
  BY <1>1, HandlesAssumption, FS_Subset DEF CaptureType
<1>3. \A h \in handles : g[h] \in past /\ g[h].handle = h
  OBVIOUS
<1>4. g \in [handles -> past]
  BY <1>3
<1> HIDE DEF g
<1>5. \A h, k \in handles : g[h] = g[k] => h = k
  BY <1>3
<1>6. \A d \in past : \E h \in handles : g[h] = d
  BY <1>1, <1>3 DEF Distinct, Identified
<1>7. g \in Bijection(handles, past)
  BY <1>4, <1>5, <1>6 DEF Bijection, Injection, IsInjective, Surjection
<1>8. ExistsBijection(handles, past)
  BY <1>7 DEF ExistsBijection
<1> QED
  BY <1>2, <1>8, FS_Bijection

LEMMA EndOfCaptureFinds ==
  ASSUME Capturing, EndOfCapture, stage' = "discovered"
  PROVE  Found'
<1>1. CaptureType /\ Distinct /\ Identified
  BY DEF Capturing
<1>2. /\ handles = Targets /\ \A h \in handles : Bounded(trials[h])
      /\ \E o \in Orders : trials' = [k \in DOMAIN o |-> Trimmed(trials[o[k]])]
      /\ past' = past /\ devices' = devices
  BY DEF EndOfCapture, RefuseExport, kernel
<1>3. \A h \in handles : Over(h) /\ trials[h] \in TrialRecords
  BY <1>1, <1>2, BoundedIsOver DEF CaptureType
<1>4. \A h \in DOMAIN devices : ~devices[h].target
  BY <1>1, <1>3 DEF Identified, Over
<1>5. handles = {d.handle : d \in past}
  BY <1>2, <1>4 DEF Targets
<1>6. Cardinality(past) = Cardinality(handles) /\ IsFiniteSet(handles)
  BY <1>5, OnePerHandle
<1>7. PICK o \in Orders : trials' = [k \in DOMAIN o |-> Trimmed(trials[o[k]])]
  BY <1>2
<1>8. PICK n : n = Cardinality(handles)
  OBVIOUS
<1>9. n \in Nat
  BY <1>6, <1>8, FS_CardinalityType
<1>10. /\ o \in [1 .. n -> handles] /\ IsInjective(o)
       /\ \A j, k \in 1 .. n : j < k => trials[o[j]].start <= trials[o[k]].start
  BY <1>7, <1>8 DEF Orders
<1>11. \A h \in handles : \E k \in 1 .. n : o[k] = h
  <2>1. o \in Injection(1 .. n, handles)
    BY <1>10 DEF Injection
  <2>2. IsFiniteSet(1 .. n) /\ Cardinality(1 .. n) = Cardinality(handles)
    BY <1>8, <1>9, Interval
  <2>3. o \in Surjection(1 .. n, handles)
    BY <1>6, <2>1, <2>2, FS_Injection
  <2> QED
    BY <2>3 DEF Surjection
<1>12. DOMAIN trials' = 1 .. n /\ \A k \in 1 .. n : trials'[k] = Trimmed(trials[o[k]])
  BY <1>7, <1>10
<1>13. \A k \in 1 .. n : IsTrial(trials'[k]) /\ trials'[k].start = trials[o[k]].start
  <2> TAKE k \in 1 .. n
  <2>1. o[k] \in handles /\ trials[o[k]] \in TrialRecords /\ Bounded(trials[o[k]])
    BY <1>2, <1>3, <1>10
  <2> QED
    BY <1>12, <2>1, TrimmedIsTrial, TrimmedFacts
<1>14. trials' \in Seq(TrialRecords) /\ Len(trials') = n
  <2>1. trials' = [k \in 1 .. n |-> trials'[k]]
    BY <1>7, <1>10, <1>12
  <2>2. trials' \in [1 .. n -> TrialRecords]
    BY <1>13, <2>1 DEF IsTrial
  <2>3. trials' \in Seq(TrialRecords)
    BY <1>9, <2>2
  <2> QED
    BY <1>9, <1>12, <2>3, LenProperties
<1>15. ASSUME NEW d \in past
       PROVE  \E k \in 1 .. n : IsTrialOf(trials'[k], d)
  <2>1. d.handle \in handles /\ d \in Lifetimes
    BY <1>1, <1>5 DEF CaptureType
  <2>2. PICK k \in 1 .. n : o[k] = d.handle
    BY <1>11, <2>1
  <2>3. PICK t : t = trials[d.handle]
    OBVIOUS
  <2>4. /\ t \in TrialRecords /\ Bounded(t) /\ t.handle = d.handle
        /\ d.from = t.start /\ d.to = t.end /\ TransfersOf(d, t)
    BY <1>1, <1>2, <1>3, <2>1, <2>3 DEF Over, CaptureType
  <2>5. IsTrialOf(Trimmed(t), d)
    BY <2>1, <2>4, OverIsTrialOf
  <2> QED
    BY <1>12, <2>2, <2>3, <2>5
<1>16. \A j, k \in DOMAIN trials' : j < k => trials'[j].start <= trials'[k].start
  BY <1>10, <1>12, <1>13
<1> QED
  BY <1>2, <1>4, <1>6, <1>8, <1>12, <1>13, <1>14, <1>15, <1>16 DEF Found

ImportInv == (stage = "capturing" => Capturing) /\ (stage = "discovered" => Found)

LEMMA InitImportInv == ImportInit => ImportInv
<1> SUFFICES ASSUME ImportInit PROVE ImportInv
  OBVIOUS
<1>1. stage = "capturing"
  BY DEF ImportInit
<1> QED
  BY <1>1, InitCapturing DEF ImportInv

LEMMA CaptureKeeps ==
  ASSUME Capturing, stage = "capturing", Capture, stage' = "capturing"
  PROVE  Capturing'
<1>1. ASSUME NEW h \in Handles, NEW t \in BOOLEAN, NEW p \in Pipes, Arrive(h, t, p)
      PROVE  Capturing'
  BY <1>1, ArriveKeeps
<1>2. ASSUME NEW h \in DOMAIN devices, NEW p \in Pipes, NEW e \in {"0x02", "0x84"},
             Configure(h, p, e)
      PROVE  Capturing'
  BY <1>2, ConfigureKeeps
<1>3. ASSUME NEW h \in DOMAIN devices, NEW p \in devices[h].pipes, NEW s \in BOOLEAN,
             NEW n \in Lengths, NEW l \in 0 .. Lateness, CompleteTransfer(h, p, s, n, l)
      PROVE  Capturing'
  BY <1>3, CompleteKeeps
<1>4. ASSUME NEW h \in DOMAIN devices, Leave(h) PROVE Capturing'
  BY <1>4, LeaveKeeps
<1> QED
  BY <1>1, <1>2, <1>3, <1>4 DEF Capture

LEMMA CaptureFacts ==
  ASSUME Capture
  PROVE  stage = "capturing" /\ stage' \in {"capturing", "refused"} /\ output' = output
<1>1. ASSUME NEW h, NEW p, NEW e, stage = "capturing", OnCreate(h, p, e)
      PROVE  stage' \in {"capturing", "refused"} /\ output' = output
  BY <1>1 DEF OnCreate, RefuseExport, importer
<1>2. ASSUME NEW h, stage = "capturing", OnDelete(h)
      PROVE  stage' \in {"capturing", "refused"} /\ output' = output
  BY <1>2 DEF OnDelete, RefuseExport, importer
<1>3. ASSUME NEW p, NEW s, NEW t, stage = "capturing", OnCompletion(p, s, t)
      PROVE  stage' \in {"capturing", "refused"} /\ output' = output
  BY <1>3 DEF OnCompletion, importer
<1>4. ASSUME NEW h \in Handles, NEW t \in BOOLEAN, NEW p \in Pipes, Arrive(h, t, p)
      PROVE  stage = "capturing" /\ stage' \in {"capturing", "refused"} /\ output' = output
  BY <1>1, <1>4 DEF Arrive
<1>5. ASSUME NEW h \in DOMAIN devices, NEW p \in Pipes, NEW e \in {"0x02", "0x84"},
             Configure(h, p, e)
      PROVE  stage = "capturing" /\ stage' \in {"capturing", "refused"} /\ output' = output
  BY <1>1, <1>5 DEF Configure
<1>6. ASSUME NEW h \in DOMAIN devices, NEW p \in devices[h].pipes, NEW s \in BOOLEAN,
             NEW n \in Lengths, NEW l \in 0 .. Lateness, CompleteTransfer(h, p, s, n, l)
      PROVE  stage = "capturing" /\ stage' \in {"capturing", "refused"} /\ output' = output
  BY <1>3, <1>6 DEF CompleteTransfer
<1>7. ASSUME NEW h \in DOMAIN devices, Leave(h)
      PROVE  stage = "capturing" /\ stage' \in {"capturing", "refused"} /\ output' = output
  BY <1>2, <1>7 DEF Leave
<1> QED
  BY <1>4, <1>5, <1>6, <1>7 DEF Capture

LEMMA StageOfImport ==
  ASSUME ImportNext
  PROVE  \/ Capture /\ stage = "capturing" /\ stage' \in {"capturing", "refused"}
         \/ EndOfCapture /\ stage = "capturing" /\ stage' \in {"discovered", "refused"}
         \/ stage' \notin {"capturing", "discovered"}
<1>1. ASSUME Capture
      PROVE  stage = "capturing" /\ stage' \in {"capturing", "refused"}
  BY <1>1, CaptureFacts
<1>2. ASSUME EndOfCapture
      PROVE  stage = "capturing" /\ stage' \in {"discovered", "refused"}
  BY <1>2 DEF EndOfCapture, RefuseExport
<1>3. ASSUME NEW l \in Limits, NEW n \in Names, CountTrials(l, n)
      PROVE  stage' \notin {"capturing", "discovered"}
  BY <1>3 DEF CountTrials, RefuseExport
<1>4. ASSUME Render \/ MakeTemporary \/ WriteTemporary \/ Link \/ Unlink \/ Die
      PROVE  stage' \notin {"capturing", "discovered"}
  BY <1>4 DEF Render, MakeTemporary, WriteTemporary, Link, Unlink, Die, RefuseExport
<1>5. ASSUME NEW n \in Names, AnotherRun(n)
      PROVE  stage' \notin {"capturing", "discovered"}
  BY <1>5 DEF AnotherRun
<1> QED
  BY <1>1, <1>2, <1>3, <1>4, <1>5 DEF ImportNext

LEMMA NextImportInv == ImportInv /\ [ImportNext]_importVars => ImportInv'
<1> SUFFICES ASSUME ImportInv, [ImportNext]_importVars PROVE ImportInv'
  OBVIOUS
<1>1. CASE ImportNext
  <2>1. CASE Capture /\ stage = "capturing" /\ stage' \in {"capturing", "refused"}
    BY <2>1, CaptureKeeps DEF ImportInv
  <2>2. CASE EndOfCapture /\ stage = "capturing" /\ stage' \in {"discovered", "refused"}
    BY <2>2, EndOfCaptureFinds DEF ImportInv
  <2>3. CASE stage' \notin {"capturing", "discovered"}
    BY <2>3 DEF ImportInv
  <2> QED
    BY <1>1, <2>1, <2>2, <2>3, StageOfImport
<1>2. CASE UNCHANGED importVars
  <2>1. /\ stage' = stage /\ handles' = handles /\ devices' = devices /\ past' = past
        /\ trials' = trials /\ pipeMap' = pipeMap /\ clock' = clock
    BY <1>2 DEF importVars, kernel, importer
  <2>2. Capturing => Capturing'
    BY <2>1 DEF Capturing, CaptureType, Distinct, Identified, Attributed, NotYet, Living,
       Over, Again
  <2>3. Found => Found'
    BY <2>1 DEF Found
  <2> QED
    BY <2>1, <2>2, <2>3 DEF ImportInv
<1> QED
  BY <1>1, <1>2

THEOREM AttributionAlwaysExact == ImportSpec => []AttributionIsExact
<1>1. ImportInit => ImportInv
  BY InitImportInv
<1>2. ImportInv /\ [ImportNext]_importVars => ImportInv'
  BY NextImportInv
<1>3. ImportInv => AttributionIsExact
  BY DEF ImportInv, Found, AttributionIsExact
<1> QED
  BY <1>1, <1>2, <1>3, PTL DEF ImportSpec

-----------------------------------------------------------------------------
(* The importer: publishing.                                               *)

Stages == {"rendering", "naming", "writing", "linking", "unlinking"}

\* The trials before the current one have been published by this run.
Publishing ==
  /\ Len(renders) \in Nat /\ DOMAIN renders = 1 .. Len(renders)
  /\ 1 .. Len(renders) \subseteq Names
  /\ trial \in 1 .. Len(renders)
  /\ \A n \in 1 .. Len(renders) : n < trial => output[n].by = "this"
  /\ stage = "linking" => temporary = "whole"
  /\ stage = "unlinking" => output[trial].by = "this"

PublishInv == DOMAIN output = Names /\ (stage \in Stages => Publishing)

LEMMA NamesFacts ==
  /\ Cardinality(Handles) \in Nat
  /\ \A n \in Names : n \in Nat /\ 1 <= n /\ 1 .. n \subseteq Names
<1>1. Cardinality(Handles) \in Nat
  BY HandlesAssumption, FS_CardinalityType
<1> QED
  BY <1>1 DEF Names

LEMMA CountStartsPublishing ==
  ASSUME PublishInv, ImportInv, NEW l \in Limits, NEW n \in Names, CountTrials(l, n)
  PROVE  PublishInv'
<1>1. CASE stage' = "refused"
  <2>1. output' = output
    BY DEF CountTrials, RefuseExport
  <2> QED
    BY <1>1, <2>1 DEF PublishInv, Stages
<1>2. CASE stage' # "refused"
  <2>1. /\ stage' = "rendering" /\ trial' = 1 /\ Len(trials) = n /\ output' = output
        /\ renders' = [k \in DOMAIN trials |-> Renders(trials[k], l)]
    BY <1>2 DEF CountTrials, RefuseExport
  <2>2. trials \in Seq(TrialRecords)
    BY DEF CountTrials, ImportInv, Found
  <2>3. n \in Nat /\ 1 <= n /\ 1 .. n \subseteq Names
    BY NamesFacts
  <2>4. DOMAIN trials = 1 .. n
    BY <2>1, <2>2, LenProperties
  <2>5. \A k \in 1 .. n : Renders(trials[k], l) \in BOOLEAN
    BY DEF Renders
  <2>6. renders' \in [1 .. n -> BOOLEAN]
    BY <2>1, <2>4, <2>5
  <2>7. Len(renders') = n /\ DOMAIN renders' = 1 .. n
    BY <2>3, <2>6
  <2>8. Publishing'
    BY <2>1, <2>3, <2>7 DEF Publishing
  <2> QED
    BY <2>1, <2>8 DEF PublishInv
<1> QED
  BY <1>1, <1>2

\* What PublishedForGood says of one step.
KeepsPublished ==
  /\ \A n \in Names : output'[n] # output[n] => output[n] = Absent /\ output'[n].whole
  /\ stage' = "published" => \A n \in DOMAIN renders : output'[n].by = "this"

LEMMA QuietStep ==
  ASSUME PublishInv, output' = output, stage' \notin Stages \cup {"published"}
  PROVE  PublishInv' /\ KeepsPublished
BY DEF PublishInv, KeepsPublished

LEMMA LinkPublishes ==
  ASSUME PublishInv, Link
  PROVE  PublishInv' /\ KeepsPublished
<1>1. CASE output[trial] # Absent
  BY <1>1, QuietStep DEF Link, RefuseExport, Stages
<1>2. CASE output[trial] = Absent
  <2>1. /\ stage' = "unlinking" /\ trial' = trial /\ renders' = renders
        /\ output' = [output EXCEPT ![trial] = [by |-> "this", whole |-> temporary = "whole"]]
    BY <1>2 DEF Link, Keep, Linked
  <2>2. Publishing /\ DOMAIN output = Names /\ temporary = "whole"
    BY DEF Link, PublishInv, Publishing, Stages
  <2>3. PICK file : file = [by |-> "this", whole |-> temporary = "whole"]
    OBVIOUS
  <2>4. file.by = "this" /\ file.whole
    BY <2>2, <2>3
  <2>5. output' = [output EXCEPT ![trial] = file]
    BY <2>1, <2>3
  <2>6. trial \in Names
    BY <2>2 DEF Publishing
  <2>7. /\ DOMAIN output' = Names /\ output'[trial] = file
        /\ \A n \in Names : n # trial => output'[n] = output[n]
    BY <2>2, <2>5, <2>6
  <2>8. Publishing'
    BY <2>1, <2>2, <2>4, <2>7 DEF Publishing
  <2>9. KeepsPublished
    BY <1>2, <2>1, <2>4, <2>7 DEF KeepsPublished
  <2> QED
    BY <2>7, <2>8, <2>9 DEF PublishInv
<1> QED
  BY <1>1, <1>2

LEMMA UnlinkPublishes ==
  ASSUME PublishInv, Unlink
  PROVE  PublishInv' /\ KeepsPublished
<1>1. /\ output' = output /\ renders' = renders
      /\ IF trial < Len(renders)
         THEN stage' = "rendering" /\ trial' = trial + 1
         ELSE stage' = "published" /\ trial' = trial
  BY DEF Unlink, Keep
<1>2. Publishing /\ DOMAIN output = Names /\ output[trial].by = "this"
  BY DEF Unlink, PublishInv, Publishing, Stages
<1>3. PICK n \in Nat : n = Len(renders) /\ DOMAIN renders = 1 .. n /\ trial \in 1 .. n
  BY <1>2 DEF Publishing
<1>4. \A k \in 1 .. n : k <= trial => output'[k].by = "this"
  BY <1>1, <1>2, <1>3 DEF Publishing
<1>5. CASE trial < n
  <2>1. stage' = "rendering" /\ trial' = trial + 1
    BY <1>1, <1>3, <1>5
  <2>2. trial' \in 1 .. n /\ \A k \in 1 .. n : k < trial' => k <= trial
    BY <1>3, <1>5, <2>1
  <2>3. Publishing'
    BY <1>1, <1>2, <1>3, <1>4, <2>1, <2>2 DEF Publishing
  <2> QED
    BY <1>1, <1>2, <2>1, <2>3 DEF PublishInv, KeepsPublished
<1>6. CASE ~(trial < n)
  <2>1. stage' = "published" /\ \A k \in 1 .. n : k <= trial
    BY <1>1, <1>3, <1>6
  <2> QED
    BY <1>1, <1>2, <1>3, <1>4, <2>1 DEF PublishInv, KeepsPublished, Stages
<1> QED
  BY <1>5, <1>6

LEMMA AnotherRunPublishes ==
  ASSUME PublishInv, NEW name \in Names, AnotherRun(name)
  PROVE  PublishInv' /\ KeepsPublished
<1>1. /\ stage \in Stages /\ stage' = stage /\ trial' = trial /\ temporary' = temporary
      /\ renders' = renders /\ output[name] = Absent
      /\ output' = [output EXCEPT ![name] = [by |-> "another", whole |-> TRUE]]
  BY DEF AnotherRun, Keep, Stages
<1>2. Publishing /\ DOMAIN output = Names
  BY <1>1 DEF PublishInv
<1>3. PICK file : file = [by |-> "another", whole |-> TRUE]
  OBVIOUS
<1>4. /\ DOMAIN output' = Names /\ output'[name] = file /\ file.whole
      /\ \A n \in Names : n # name => output'[n] = output[n]
  BY <1>1, <1>2, <1>3
<1>5. output[name].by # "this"
  BY <1>1 DEF Absent
<1>6. \A n \in Names : output[n].by = "this" => output'[n] = output[n]
  BY <1>4, <1>5
<1>7. Publishing'
  BY <1>1, <1>2, <1>6 DEF Publishing
<1>8. KeepsPublished
  BY <1>1, <1>4 DEF KeepsPublished, Stages
<1> QED
  BY <1>4, <1>7, <1>8 DEF PublishInv

LEMMA NextPublishes ==
  ASSUME PublishInv, ImportInv, ImportNext
  PROVE  PublishInv' /\ KeepsPublished
<1>1. ASSUME Capture PROVE PublishInv' /\ KeepsPublished
  <2>1. stage' \in {"capturing", "refused"} /\ output' = output
    BY <1>1, CaptureFacts
  <2> QED
    BY <2>1, QuietStep DEF Stages
<1>2. ASSUME EndOfCapture PROVE PublishInv' /\ KeepsPublished
  <2>1. output' = output /\ stage' \in {"discovered", "refused"}
    BY <1>2 DEF EndOfCapture, RefuseExport
  <2> QED
    BY <2>1, QuietStep DEF Stages
<1>3. ASSUME NEW l \in Limits, NEW n \in Names, CountTrials(l, n)
      PROVE  PublishInv' /\ KeepsPublished
  <2>1. output' = output /\ stage' # "published"
    BY <1>3 DEF CountTrials, RefuseExport
  <2> QED
    BY <1>3, <2>1, CountStartsPublishing DEF KeepsPublished
<1>4. ASSUME Render \/ MakeTemporary \/ WriteTemporary
      PROVE  PublishInv' /\ KeepsPublished
  <2>1. CASE stage' = "refused"
    <3>1. output' = output
      BY <1>4, <2>1 DEF Render, MakeTemporary, WriteTemporary, RefuseExport
    <3> QED
      BY <2>1, <3>1, QuietStep DEF Stages
  <2>2. CASE stage' # "refused"
    <3>1. /\ output' = output /\ renders' = renders /\ trial' = trial
          /\ stage \in Stages /\ stage' \in {"naming", "writing", "linking"}
          /\ stage' = "linking" => temporary' = "whole"
      BY <1>4, <2>2 DEF Render, MakeTemporary, WriteTemporary, RefuseExport, Keep, Stages
    <3>2. Publishing'
      BY <3>1 DEF PublishInv, Publishing
    <3> QED
      BY <3>1, <3>2 DEF PublishInv, KeepsPublished
  <2> QED
    BY <2>1, <2>2
<1>5. ASSUME Die PROVE PublishInv' /\ KeepsPublished
  BY <1>5, QuietStep DEF Die, Stages
<1> QED
  BY <1>1, <1>2, <1>3, <1>4, <1>5, LinkPublishes, UnlinkPublishes, AnotherRunPublishes
     DEF ImportNext

\* A name goes from absent to whole, and stays as it is; a run that succeeds has
\* published every trial itself (PublishedForGood).
THEOREM AlwaysPublishedForGood == ImportSpec => PublishedForGood
<1>1. ImportInit => ImportInv /\ PublishInv
  <2>1. ImportInit => PublishInv
    BY DEF ImportInit, PublishInv, Stages
  <2> QED
    BY <2>1, InitImportInv
<1>2. ImportInv /\ PublishInv /\ [ImportNext]_importVars => (ImportInv /\ PublishInv)'
  <2> SUFFICES ASSUME ImportInv, PublishInv, [ImportNext]_importVars
               PROVE  (ImportInv /\ PublishInv)'
    OBVIOUS
  <2>1. CASE ImportNext
    BY <2>1, NextImportInv, NextPublishes
  <2>2. CASE UNCHANGED importVars
    <3>1. PublishInv'
      BY <2>2 DEF importVars, importer, PublishInv, Publishing
    <3> QED
      BY <2>2, <3>1, NextImportInv
  <2> QED
    BY <2>1, <2>2
<1>3. ImportInv /\ PublishInv /\ [ImportNext]_importVars => [KeepsPublished]_importVars
  BY NextPublishes
<1>4. ImportSpec => [][KeepsPublished]_importVars
  BY <1>1, <1>2, <1>3, PTL DEF ImportSpec
<1>5. [][KeepsPublished]_importVars => PublishedForGood
  BY PTL DEF KeepsPublished, PublishedForGood
<1> QED
  BY <1>4, <1>5, PTL

-----------------------------------------------------------------------------
(* The importer: the envelopes that it renders, and what the parser says.  *)

\* Which transfers are early: the first ones, as they are sorted.
LEMMA ActivationIsPrefix ==
  ASSUME NEW t, IsTrial(t), NEW limit \in Nat
  PROVE  \E a \in 0 .. Len(t.transfers) : Activation(t, limit) = 1 .. a
<1>1. PICK n \in Nat : n = Len(t.transfers) /\ DOMAIN t.transfers = 1 .. n
  BY LenProperties DEF IsTrial, TrialRecords
<1>2. \A k \in 1 .. n : t.transfers[k] \in Shown
  BY <1>1, ElementOfSeq DEF IsTrial, TrialRecords
<1>3. t.start \in Nat /\ \A k \in 1 .. n : t.transfers[k].time \in Nat
  BY <1>2, TimesAssumption DEF IsTrial, Shown
<1>4. \A j, k \in 1 .. n : j < k => t.transfers[j].time <= t.transfers[k].time
  BY <1>1 DEF IsTrial
<1> DEFINE Early(k) == t.transfers[k].time - t.start < limit
           T == {k \in 1 .. n : ~Early(k)}
<1>5. Activation(t, limit) = {k \in 1 .. n : Early(k)}
  BY <1>1 DEF Activation
<1>6. CASE T = {}
  BY <1>1, <1>5, <1>6
<1>7. CASE T # {}
  <2>1. PICK m \in T : \A k \in T : m <= k
    <3>1. T \in SUBSET Nat
      OBVIOUS
    <3> HIDE DEF T
    <3> QED
      BY <1>7, <3>1, Least
  <2>2. m \in 1 .. n /\ m - 1 \in 0 .. n
    BY <2>1
  <2>3. \A k \in 1 .. n : Early(k) <=> k <= m - 1
    <3> TAKE k \in 1 .. n
    <3>1. CASE k <= m - 1
      BY <2>1, <2>2, <3>1
    <3>2. CASE k = m
      BY <2>1, <2>2, <3>2
    <3>3. CASE m < k
      <4>1. t.transfers[m].time <= t.transfers[k].time /\ ~Early(m)
        BY <1>4, <2>1, <2>2, <3>3
      <4>2. PICK u \in Nat, v \in Nat, s \in Nat :
              u = t.transfers[m].time /\ v = t.transfers[k].time /\ s = t.start
        BY <1>3, <2>2
      <4>3. u <= v /\ ~(u - s < limit)
        BY <4>1, <4>2
      <4>4. ~(v - s < limit)
        BY <4>3
      <4> QED
        BY <2>2, <3>3, <4>2, <4>4
    <3> QED
      BY <2>2, <3>1, <3>2, <3>3
  <2>4. {k \in 1 .. n : Early(k)} = 1 .. (m - 1)
    <3> HIDE DEF Early
    <3> QED
      BY <2>2, <2>3
  <2> QED
    BY <1>1, <1>5, <2>2, <2>4
<1> QED
  BY <1>6, <1>7

\* The two parts of a concatenation, by position.
LEMMA TwoParts ==
  ASSUME NEW S, NEW p \in Seq(S), NEW q \in Seq(S), NEW m \in Nat, NEW n \in Nat,
         m = Len(p), n = Len(q)
  PROVE  /\ p \o q \in Seq(S) /\ Len(p \o q) = m + n
         /\ \A i \in 1 .. m : (p \o q)[i] = p[i]
         /\ \A i \in 1 .. n : (p \o q)[m + i] = q[i]
<1> DEFINE s == p \o q
<1>1. /\ s \in Seq(S) /\ Len(s) = Len(p) + Len(q)
      /\ \A i \in 1 .. Len(p) + Len(q) : s[i] = IF i <= Len(p) THEN p[i] ELSE q[i - Len(p)]
  BY ConcatProperties
<1> HIDE DEF s
<1>2. /\ s \in Seq(S) /\ Len(s) = m + n
      /\ \A i \in 1 .. (m + n) : s[i] = IF i <= m THEN p[i] ELSE q[i - m]
  BY <1>1
<1>3. \A i \in 1 .. m : i \in 1 .. (m + n) /\ i <= m
  OBVIOUS
<1>4. \A i \in 1 .. n : m + i \in 1 .. (m + n) /\ ~(m + i <= m) /\ m + i - m = i
  OBVIOUS
<1>5. \A i \in 1 .. m : s[i] = p[i]
  BY <1>2, <1>3
<1>6. \A i \in 1 .. n : s[m + i] = q[i]
  BY <1>2, <1>4
<1> QED
  BY <1>2, <1>5, <1>6 DEF s

\* A sequence with a beginning, an end and an insertion.
Joined(x, y, u, v, r, a) ==
  <<x, y>> \o SubSeq(r, 1, a) \o <<u>> \o SubSeq(r, a + 1, Len(r)) \o <<v>>

IsJoined(s, S, x, y, u, v, r, a, n) ==
  /\ s \in Seq(S) /\ Len(s) = n + 4 /\ n \in Nat
  /\ s[1] = x /\ s[2] = y /\ s[a + 3] = u /\ s[n + 4] = v
  /\ \A i \in 1 .. a : s[i + 2] = r[i]
  /\ \A i \in (a + 1) .. n : s[i + 3] = r[i]

LEMMA FiveParts ==
  ASSUME NEW S, NEW x \in S, NEW y \in S, NEW u \in S, NEW v \in S,
         NEW r \in Seq(S), NEW a \in 0 .. Len(r)
  PROVE  IsJoined(Joined(x, y, u, v, r, a), S, x, y, u, v, r, a, Len(r))
<1> DEFINE n == Len(r)
           p == <<x, y>>
           q == SubSeq(r, 1, a)
           w == SubSeq(r, a + 1, n)
           s2 == p \o q
           s3 == s2 \o <<u>>
           s4 == s3 \o w
           s5 == s4 \o <<v>>
<1>1. n \in Nat /\ \A i \in 1 .. n : r[i] \in S
  BY LenProperties, ElementOfSeq
<1>2. a \in Nat /\ a <= n
  BY <1>1
<1>3. p \in Seq(S) /\ Len(p) = 2 /\ p[1] = x /\ p[2] = y
  OBVIOUS
<1>4. q \in Seq(S) /\ Len(q) = a /\ \A i \in 1 .. a : q[i] = r[i]
  <2>1. \A i \in 1 .. a : r[i] \in S
    BY <1>1, <1>2
  <2>2. 1 \in Int /\ a \in Int
    BY <1>2
  <2>3. /\ q \in Seq(S) /\ Len(q) = (IF 1 <= a THEN a - 1 + 1 ELSE 0)
        /\ \A i \in 1 .. (a - 1 + 1) : q[i] = r[1 + i - 1]
    BY <2>1, <2>2, SubSeqProperties
  <2>4. (IF 1 <= a THEN a - 1 + 1 ELSE 0) = a /\ a - 1 + 1 = a
        /\ \A i \in 1 .. a : 1 + i - 1 = i
    BY <1>2
  <2> QED
    BY <2>3, <2>4
<1>5. w \in Seq(S) /\ Len(w) = n - a /\ \A i \in 1 .. (n - a) : w[i] = r[a + i]
  <2>1. \A i \in (a + 1) .. n : r[i] \in S
    BY <1>1, <1>2
  <2>2. a + 1 \in Int /\ n \in Int
    BY <1>1, <1>2
  <2>3. /\ w \in Seq(S) /\ Len(w) = (IF a + 1 <= n THEN n - (a + 1) + 1 ELSE 0)
        /\ \A i \in 1 .. (n - (a + 1) + 1) : w[i] = r[a + 1 + i - 1]
    BY <2>1, <2>2, SubSeqProperties
  <2>4. /\ (IF a + 1 <= n THEN n - (a + 1) + 1 ELSE 0) = n - a /\ n - (a + 1) + 1 = n - a
        /\ \A i \in 1 .. (n - a) : a + 1 + i - 1 = a + i
    BY <1>1, <1>2
  <2> QED
    BY <2>3, <2>4
<1>6. <<u>> \in Seq(S) /\ Len(<<u>>) = 1 /\ <<u>>[1] = u
      /\ <<v>> \in Seq(S) /\ Len(<<v>>) = 1 /\ <<v>>[1] = v
  OBVIOUS
<1> HIDE DEF n, p, q, w
<1>7. /\ s2 \in Seq(S) /\ Len(s2) = 2 + a /\ 2 + a \in Nat
      /\ \A i \in 1 .. 2 : s2[i] = p[i]
      /\ \A i \in 1 .. a : s2[2 + i] = q[i]
  <2>1. 2 \in Nat /\ 2 + a \in Nat
    BY <1>2
  <2>2. p \in Seq(S) /\ q \in Seq(S) /\ 2 = Len(p) /\ a = Len(q)
    BY <1>3, <1>4
  <2>3. ASSUME NEW m \in Nat, m = Len(p)
        PROVE  /\ s2 \in Seq(S) /\ Len(s2) = m + a
               /\ \A i \in 1 .. m : s2[i] = p[i]
               /\ \A i \in 1 .. a : s2[m + i] = q[i]
    BY <1>2, <2>2, <2>3, TwoParts
  <2> HIDE DEF s2
  <2> QED
    BY <2>1, <2>2, <2>3
<1> HIDE DEF s2
<1>8. /\ s3 \in Seq(S) /\ Len(s3) = 3 + a /\ 3 + a \in Nat
      /\ \A i \in 1 .. (2 + a) : s3[i] = s2[i]
      /\ s3[a + 3] = u
  <2>1. /\ s3 \in Seq(S) /\ Len(s3) = 2 + a + 1
        /\ \A i \in 1 .. (2 + a) : s3[i] = s2[i]
        /\ \A i \in 1 .. 1 : s3[2 + a + i] = <<u>>[i]
    BY <1>6, <1>7, TwoParts
  <2>2. 2 + a + 1 = 3 + a /\ 2 + a + 1 = a + 3 /\ 1 \in 1 .. 1
    BY <1>2
  <2> HIDE DEF s3
  <2> QED
    BY <1>2, <1>6, <2>1, <2>2
<1> HIDE DEF s3
<1>9. /\ s4 \in Seq(S) /\ Len(s4) = 3 + n /\ 3 + n \in Nat
      /\ \A i \in 1 .. (3 + a) : s4[i] = s3[i]
      /\ \A i \in 1 .. (n - a) : s4[3 + a + i] = w[i]
  <2>1. 3 + a + (n - a) = 3 + n /\ n - a \in Nat
    BY <1>1, <1>2
  <2> QED
    BY <1>1, <1>5, <1>8, <2>1, TwoParts
<1> HIDE DEF s4
<1>10. /\ s5 \in Seq(S) /\ Len(s5) = n + 4
       /\ \A i \in 1 .. (3 + n) : s5[i] = s4[i]
       /\ s5[n + 4] = v
  <2>1. /\ s5 \in Seq(S) /\ Len(s5) = 3 + n + 1
        /\ \A i \in 1 .. (3 + n) : s5[i] = s4[i]
        /\ \A i \in 1 .. 1 : s5[3 + n + i] = <<v>>[i]
    BY <1>6, <1>9, TwoParts
  <2>2. 3 + n + 1 = n + 4 /\ 1 \in 1 .. 1
    BY <1>1
  <2> HIDE DEF s5
  <2> QED
    BY <1>6, <2>1, <2>2
<1> HIDE DEF s5
<1>11. s5[1] = x /\ s5[2] = y
  <2>1. \A i \in 1 .. 2 : i \in 1 .. (2 + a) /\ i \in 1 .. (3 + a) /\ i \in 1 .. (3 + n)
    BY <1>1, <1>2
  <2>2. \A i \in 1 .. 2 : s5[i] = p[i]
    BY <1>7, <1>8, <1>9, <1>10, <2>1
  <2>3. 1 \in 1 .. 2 /\ 2 \in 1 .. 2
    OBVIOUS
  <2>4. s5[1] = p[1] /\ s5[2] = p[2]
    BY <2>2, <2>3
  <2> QED
    BY <1>3, <2>4
<1>12. s5[a + 3] = u
  <2>1. a + 3 \in 1 .. (3 + a) /\ a + 3 \in 1 .. (3 + n)
    BY <1>1, <1>2
  <2>2. s5[a + 3] = s4[a + 3] /\ s4[a + 3] = s3[a + 3]
    BY <1>9, <1>10, <2>1
  <2> QED
    BY <1>8, <2>2
<1>14. ASSUME NEW i \in 1 .. a PROVE s5[i + 2] = r[i]
  <2>1. /\ i + 2 \in 1 .. (2 + a) /\ i + 2 \in 1 .. (3 + a) /\ i + 2 \in 1 .. (3 + n)
        /\ i + 2 = 2 + i
    BY <1>1, <1>2
  <2>2. s5[i + 2] = s4[i + 2]
    BY <1>10, <2>1
  <2>3. s4[i + 2] = s3[i + 2]
    BY <1>9, <2>1
  <2>4. s3[i + 2] = s2[i + 2]
    BY <1>8, <2>1
  <2>5. s2[i + 2] = q[i]
    BY <1>7, <2>1
  <2>6. q[i] = r[i]
    BY <1>4
  <2> QED
    BY <2>2, <2>3, <2>4, <2>5, <2>6
<1>15. ASSUME NEW i \in (a + 1) .. n PROVE s5[i + 3] = r[i]
  <2>1. /\ i + 3 \in 1 .. (3 + n) /\ i - a \in 1 .. (n - a)
        /\ a + (i - a) = i /\ 3 + a + (i - a) = i + 3
    BY <1>1, <1>2
  <2>2. s5[i + 3] = s4[i + 3]
    BY <1>10, <2>1
  <2>3. s4[3 + a + (i - a)] = w[i - a]
    BY <1>9, <2>1
  <2>4. w[i - a] = r[a + (i - a)]
    BY <1>5, <2>1
  <2> QED
    BY <2>1, <2>2, <2>3, <2>4
<1>16. s5 = Joined(x, y, u, v, r, a)
  BY DEF Joined, s5, s4, s3, s2, p, q, w, n
<1> QED
  BY <1>1, <1>10, <1>11, <1>12, <1>14, <1>15, <1>16 DEF n, IsJoined

\* The events of a trial of whose transfers the first a are early.
AreEvents(t, limit, a, e) ==
  LET n == Len(t.transfers)
  IN  /\ DOMAIN e = 1 .. (n + 4)
      /\ e[1] = Marker("capture-start", 0) /\ e[2] = Marker("action-issued", 0)
      /\ e[a + 3] = Marker("output-stable", limit)
      /\ e[n + 4] = Marker("capture-end", Lifetime(t))
      /\ \A i \in 1 .. a : e[i + 2] = Record(t, t.transfers[i])
      /\ \A i \in (a + 1) .. n : e[i + 3] = Record(t, t.transfers[i])

LEMMA EventsOfTrial ==
  ASSUME NEW t, IsTrial(t), NEW limit, NEW a \in 0 .. Len(t.transfers),
         Activation(t, limit) = 1 .. a
  PROVE  AreEvents(t, limit, a, Events(t, limit))
<1>1. PICK n \in Nat : n = Len(t.transfers) /\ DOMAIN t.transfers = 1 .. n
  BY LenProperties DEF IsTrial, TrialRecords
<1>2. a \in Nat /\ a <= n
  BY <1>1
<1> DEFINE late == DOMAIN t.transfers \ Activation(t, limit)
           m == CHOOSE k \in 0 .. Len(t.transfers) :
                  /\ 1 .. k \subseteq Activation(t, limit)
                  /\ k = Len(t.transfers) \/ k + 1 \in late
           records == [k \in DOMAIN t.transfers |-> Record(t, t.transfers[k])]
           c == Marker("capture-start", 0)
           i == Marker("action-issued", 0)
           o == Marker("output-stable", limit)
           e == Marker("capture-end", Lifetime(t))
           S == {c, i, o, e} \cup {records[k] : k \in 1 .. n}
<1>3. m = a
  <2> DEFINE P(k) == 1 .. k \subseteq 1 .. a /\ (k = n \/ k + 1 \in (1 .. n) \ (1 .. a))
  <2>1. m = CHOOSE k \in 0 .. n : P(k)
    BY <1>1
  <2>2. P(a)
    BY <1>1, <1>2
  <2>3. \A k \in 0 .. n : P(k) => k = a
    <3> SUFFICES ASSUME NEW k \in 0 .. n, P(k) PROVE k = a
      OBVIOUS
    <3>1. k <= a
      <4>1. CASE k = 0
        BY <1>2, <4>1
      <4>2. CASE k # 0
        <5>1. k \in 1 .. k
          BY <4>2
        <5> QED
          BY <5>1
      <4> QED
        BY <4>1, <4>2
    <3>2. ~(k < a)
      <4> SUFFICES ASSUME k < a PROVE FALSE
        OBVIOUS
      <4>1. k + 1 \in 1 .. a /\ k # n
        BY <1>1, <1>2
      <4> QED
        BY <4>1
    <3> QED
      BY <1>2, <3>1, <3>2
  <2>4. a \in 0 .. n
    BY <1>2
  <2> HIDE DEF P, m
  <2> QED
    BY <2>1, <2>2, <2>3, <2>4
<1>4. records \in Seq(S) /\ Len(records) = n /\ \A k \in 1 .. n : records[k] = Record(t, t.transfers[k])
  <2>1. DOMAIN records = 1 .. n /\ \A k \in 1 .. n : records[k] = Record(t, t.transfers[k])
    BY <1>1
  <2>2. records \in [1 .. n -> S]
    BY <1>1
  <2> HIDE DEF S, records
  <2> QED
    BY <1>1, <2>1, <2>2
<1>5. c \in S /\ i \in S /\ o \in S /\ e \in S
  OBVIOUS
<1>6. Events(t, limit)
        = <<c, i>> \o SubSeq(records, 1, a) \o <<o>>
            \o SubSeq(records, a + 1, Len(records)) \o <<e>>
  BY <1>3 DEF Events
<1> HIDE DEF m, records, c, i, o, e, S
<1> DEFINE s == Events(t, limit)
<1>7. /\ s \in Seq(S) /\ Len(s) = n + 4
      /\ s[1] = c /\ s[2] = i /\ s[a + 3] = o /\ s[n + 4] = e
      /\ \A k \in 1 .. a : s[k + 2] = records[k]
      /\ \A k \in (a + 1) .. n : s[k + 3] = records[k]
  <2>1. a \in 0 .. Len(records) /\ records \in Seq(S) /\ Len(records) = n
    BY <1>1, <1>2, <1>4
  <2> DEFINE z == Joined(c, i, o, e, records, a)
  <2>2. IsJoined(z, S, c, i, o, e, records, a, Len(records))
    BY <1>5, <2>1, FiveParts
  <2>3. s = z
    BY <1>6 DEF Joined
  <2> HIDE DEF s, z
  <2> QED
    BY <2>1, <2>2, <2>3 DEF IsJoined
<1> HIDE DEF s
<1>8. DOMAIN s = 1 .. (n + 4)
  <2>1. s \in Seq(S) /\ Len(s) = n + 4
    BY <1>7
  <2>2. DOMAIN s = 1 .. Len(s)
    BY <2>1, LenProperties
  <2> QED
    BY <2>1, <2>2
<1>9. \A k \in 1 .. a : s[k + 2] = Record(t, t.transfers[k])
  BY <1>1, <1>2, <1>4, <1>7
<1>10. \A k \in (a + 1) .. n : s[k + 3] = Record(t, t.transfers[k])
  BY <1>1, <1>2, <1>4, <1>7
<1> QED
  BY <1>1, <1>7, <1>8, <1>9, <1>10 DEF AreEvents, s, c, i, o, e

\* They are in the order of their times.
LEMMA EventsInOrder ==
  ASSUME NEW t, IsTrial(t), NEW limit \in Nat, NEW a \in 0 .. Len(t.transfers),
         Activation(t, limit) = 1 .. a, limit < Lifetime(t),
         NEW e, AreEvents(t, limit, a, e)
  PROVE  LET n == Len(t.transfers)
         IN  \A i \in 1 .. (n + 3) : e[i + 1].time >= e[i].time
<1>1. PICK n \in Nat : n = Len(t.transfers) /\ DOMAIN t.transfers = 1 .. n
  BY LenProperties DEF IsTrial, TrialRecords
<1>2. a \in Nat /\ a <= n
  BY <1>1
<1>3. \A k \in 1 .. n : t.transfers[k] \in Shown
  BY <1>1, ElementOfSeq DEF IsTrial, TrialRecords
<1>4. t.start \in Nat /\ t.end \in Nat /\ \A k \in 1 .. n : t.transfers[k].time \in Nat
  BY <1>3, TimesAssumption DEF IsTrial, Shown
<1> DEFINE at(k) == t.transfers[k].time - t.start
           life == t.end - t.start
<1>5. \A k \in 1 .. n : at(k) \in Nat /\ at(k) < life
  <2> TAKE k \in 1 .. n
  <2>1. t.start <= t.transfers[k].time /\ t.transfers[k].time < t.end
    BY <1>1 DEF IsTrial
  <2>2. PICK u \in Nat, v \in Nat, w \in Nat :
          u = t.transfers[k].time /\ v = t.start /\ w = t.end
    BY <1>4
  <2>3. v <= u /\ u < w
    BY <2>1, <2>2
  <2>4. u - v \in Nat /\ u - v < w - v
    BY <2>3
  <2> QED
    BY <2>2, <2>4
<1>6. \A k \in 1 .. n : k + 1 <= n => at(k) <= at(k + 1)
  <2> SUFFICES ASSUME NEW k \in 1 .. n, k + 1 <= n PROVE at(k) <= at(k + 1)
    OBVIOUS
  <2>1. k + 1 \in 1 .. n /\ k < k + 1
    BY <1>1
  <2>2. t.transfers[k].time <= t.transfers[k + 1].time
    BY <1>1, <2>1 DEF IsTrial
  <2>3. PICK u \in Nat, v \in Nat, w \in Nat :
          u = t.transfers[k].time /\ v = t.start /\ w = t.transfers[k + 1].time
    BY <1>4, <2>1
  <2>4. u - v <= w - v
    <3>1. u <= w
      BY <2>2, <2>3
    <3> QED
      BY <3>1
  <2> QED
    BY <2>3, <2>4
<1>7. \A k \in 1 .. n : k <= a <=> at(k) < limit
  <2> TAKE k \in 1 .. n
  <2>1. k \in Activation(t, limit) <=> at(k) < limit
    BY <1>1 DEF Activation
  <2> QED
    BY <1>2, <2>1
<1>8. life \in Int /\ limit < life
  BY <1>4 DEF Lifetime
<1> DEFINE T(i) == e[i].time
<1>9. T(1) = 0 /\ T(2) = 0 /\ T(a + 3) = limit /\ T(n + 4) = life
  BY <1>1 DEF AreEvents, Marker, Lifetime
<1>10. \A i \in 1 .. a : T(i + 2) = at(i)
  <2> TAKE i \in 1 .. a
  <2>1. e[i + 2] = Record(t, t.transfers[i])
    BY DEF AreEvents
  <2> QED
    BY <2>1 DEF Record
<1>11. \A i \in (a + 1) .. n : T(i + 3) = at(i)
  <2> TAKE i \in (a + 1) .. n
  <2>1. e[i + 3] = Record(t, t.transfers[i])
    BY <1>1 DEF AreEvents
  <2> QED
    BY <2>1 DEF Record
<1> HIDE DEF T, at, life
<1>12. ASSUME NEW i \in 1 .. (n + 3) PROVE T(i + 1) >= T(i)
  <2>1. CASE i = 1
    <3>1. i + 1 = 2
      BY <2>1
    <3> QED
      BY <1>9, <2>1, <3>1
  <2>2. CASE i = 2 /\ a = 0
    <3>1. i + 1 = a + 3
      BY <2>2
    <3> QED
      BY <1>9, <2>2, <3>1
  <2>3. CASE i = 2 /\ a # 0
    <3>1. 1 \in 1 .. a /\ 1 \in 1 .. n /\ i + 1 = 1 + 2
      BY <1>1, <1>2, <2>3
    <3>2. T(i + 1) = at(1) /\ at(1) \in Nat
      BY <1>5, <1>10, <3>1
    <3> QED
      BY <1>9, <2>3, <3>2
  <2>4. CASE 2 < i /\ i < a + 2
    <3>1. PICK k \in 1 .. a : k + 1 \in 1 .. a /\ i = k + 2 /\ i + 1 = k + 1 + 2
      <4>1. i - 2 \in 1 .. a /\ i - 2 + 1 \in 1 .. a /\ i = i - 2 + 2 /\ i + 1 = i - 2 + 1 + 2
        BY <1>2, <2>4
      <4> QED
        BY <4>1
    <3>2. k \in 1 .. n /\ k + 1 <= n /\ k + 1 \in 1 .. n
      BY <1>1, <1>2, <3>1
    <3>3. T(i) = at(k) /\ T(i + 1) = at(k + 1) /\ at(k) <= at(k + 1)
      BY <1>6, <1>10, <3>1, <3>2
    <3>4. at(k) \in Nat /\ at(k + 1) \in Nat
      BY <1>5, <3>2
    <3> QED
      BY <3>3, <3>4
  <2>5. CASE 2 < i /\ i = a + 2
    <3>1. a \in 1 .. a /\ a \in 1 .. n /\ a <= a /\ i + 1 = a + 3
      BY <1>1, <1>2, <2>5
    <3>2. T(i) = at(a) /\ at(a) < limit /\ at(a) \in Nat
      BY <1>5, <1>7, <1>10, <2>5, <3>1
    <3> QED
      BY <1>9, <3>1, <3>2
  <2>6. CASE i = a + 3 /\ a = n
    <3>1. i + 1 = n + 4
      BY <1>1, <2>6
    <3> QED
      BY <1>8, <1>9, <2>6, <3>1
  <2>7. CASE i = a + 3 /\ a # n
    <3>1. a + 1 \in (a + 1) .. n /\ a + 1 \in 1 .. n /\ ~(a + 1 <= a) /\ i + 1 = a + 1 + 3
      BY <1>1, <1>2, <2>7
    <3>2. T(i + 1) = at(a + 1) /\ ~(at(a + 1) < limit) /\ at(a + 1) \in Nat
      BY <1>5, <1>7, <1>11, <3>1
    <3> QED
      BY <1>9, <2>7, <3>2
  <2>8. CASE a + 3 < i /\ i < n + 3
    <3>1. PICK k \in (a + 1) .. n :
            k + 1 \in (a + 1) .. n /\ i = k + 3 /\ i + 1 = k + 1 + 3
      <4>1. /\ i - 3 \in (a + 1) .. n /\ i - 3 + 1 \in (a + 1) .. n
            /\ i = i - 3 + 3 /\ i + 1 = i - 3 + 1 + 3
        BY <1>1, <1>2, <2>8
      <4> QED
        BY <4>1
    <3>2. k \in 1 .. n /\ k + 1 <= n /\ k + 1 \in 1 .. n
      BY <1>1, <1>2, <3>1
    <3>3. T(i) = at(k) /\ T(i + 1) = at(k + 1) /\ at(k) <= at(k + 1)
      BY <1>6, <1>11, <3>1, <3>2
    <3>4. at(k) \in Nat /\ at(k + 1) \in Nat
      BY <1>5, <3>2
    <3> QED
      BY <3>3, <3>4
  <2>9. CASE a + 3 < i /\ i = n + 3
    <3>1. n \in (a + 1) .. n /\ n \in 1 .. n /\ i + 1 = n + 4
      BY <1>1, <1>2, <2>9
    <3>2. T(i) = at(n) /\ at(n) < life /\ at(n) \in Nat
      BY <1>5, <1>11, <2>9, <3>1
    <3> QED
      BY <1>8, <1>9, <3>1, <3>2
  <2> QED
    BY <1>1, <1>2, <2>1, <2>2, <2>3, <2>4, <2>5, <2>6, <2>7, <2>8, <2>9
<1> QED
  BY <1>1, <1>12 DEF T

-----------------------------------------------------------------------------
(* The lines of an envelope.                                               *)

EventLine(e, k) ==
  [kind |-> "event", sequence |-> k - 1, time |-> e[k].time, value |-> e[k].value]

PreambleLines ==
  <<[kind |-> "header"], [kind |-> "origin", valid |-> TRUE],
    [kind |-> "device", valid |-> TRUE], [kind |-> "action", valid |-> TRUE]>>

LEMMA EnvelopeLines ==
  ASSUME NEW t, NEW limit, NEW m \in Nat, DOMAIN Events(t, limit) = 1 .. m
  PROVE  /\ Len(Envelope(t, limit)) = m + 4
         /\ \A k \in 1 .. 4 : Envelope(t, limit)[k] = PreambleLines[k]
         /\ \A k \in 1 .. m : Envelope(t, limit)[4 + k] = EventLine(Events(t, limit), k)
<1> DEFINE e == Events(t, limit)
           p == PreambleLines
           q == [k \in 1 .. m |-> EventLine(e, k)]
           S == {PreambleLines[k] : k \in 1 .. 4} \cup {EventLine(e, k) : k \in 1 .. m}
<1>1. Envelope(t, limit) = p \o q
  BY DEF Envelope, PreambleLines, EventLine
<1>2. p \in Seq(S) /\ Len(p) = 4
  <2>1. \A k \in 1 .. 4 : p[k] \in S
    OBVIOUS
  <2>2. 1 \in 1 .. 4 /\ 2 \in 1 .. 4 /\ 3 \in 1 .. 4 /\ 4 \in 1 .. 4
    OBVIOUS
  <2>3. p[1] \in S /\ p[2] \in S /\ p[3] \in S /\ p[4] \in S
    BY <2>1, <2>2
  <2>4. p = <<p[1], p[2], p[3], p[4]>>
    BY DEF PreambleLines
  <2> HIDE DEF S, p
  <2>5. <<p[1], p[2], p[3], p[4]>> \in Seq(S) /\ Len(<<p[1], p[2], p[3], p[4]>>) = 4
    BY <2>3
  <2> QED
    BY <2>4, <2>5
<1>3. q \in Seq(S) /\ Len(q) = m /\ \A k \in 1 .. m : q[k] = EventLine(e, k)
  <2>1. q \in [1 .. m -> S] /\ DOMAIN q = 1 .. m /\ \A k \in 1 .. m : q[k] = EventLine(e, k)
    OBVIOUS
  <2> HIDE DEF S, q
  <2> QED
    BY <2>1
<1> HIDE DEF S, p, q, e
<1>4. 4 \in Nat /\ 4 + m = m + 4
  OBVIOUS
<1>5. ASSUME NEW n \in Nat, n = Len(p)
      PROVE  /\ Len(p \o q) = n + m
             /\ \A k \in 1 .. n : (p \o q)[k] = p[k]
             /\ \A k \in 1 .. m : (p \o q)[n + k] = q[k]
  <2>1. p \in Seq(S) /\ q \in Seq(S) /\ m = Len(q)
    BY <1>2, <1>3
  <2> QED
    BY <1>5, <2>1, TwoParts
<1>6. /\ Len(p \o q) = 4 + m
      /\ \A k \in 1 .. 4 : (p \o q)[k] = p[k]
      /\ \A k \in 1 .. m : (p \o q)[4 + k] = q[k]
  BY <1>2, <1>4, <1>5
<1> QED
  BY <1>1, <1>3, <1>4, <1>6 DEF p, e

\* The parser's record after each line, as a function that is there.
IsParse(lines, n, f) ==
  f = [k \in 0 .. n |-> IF k = 0 THEN [outcome |-> "ok", env |-> BlankEnvelope]
                        ELSE AfterLine(f[k - 1], lines[k])]

LEMMA ParseExists ==
  ASSUME NEW lines, NEW n \in Nat
  PROVE  \E f : IsParse(lines, n, f)
<1> DEFINE T == {k \in Nat : ~\E f : IsParse(lines, k, f)}
           first == [outcome |-> "ok", env |-> BlankEnvelope]
<1>1. SUFFICES ASSUME T # {} PROVE FALSE
  OBVIOUS
<1>2. PICK m \in T : \A k \in T : m <= k
  <2> T \in SUBSET Nat
    OBVIOUS
  <2> HIDE DEF T
  <2> QED
    BY <1>1, Least
<1>3. m # 0
  <2> DEFINE f == [k \in 0 .. 0 |-> first]
  <2>1. IsParse(lines, 0, f)
    BY DEF IsParse
  <2> QED
    BY <1>2, <2>1
<1>4. PICK g : IsParse(lines, m - 1, g)
  <2>1. m - 1 \in Nat /\ ~(m <= m - 1)
    BY <1>2, <1>3
  <2> QED
    BY <1>2, <2>1
<1> DEFINE last == AfterLine(g[m - 1], lines[m])
           f == [k \in 0 .. m |-> IF k = m THEN last ELSE g[k]]
<1>5. \A k \in 0 .. m : f[k] = IF k = 0 THEN first ELSE AfterLine(f[k - 1], lines[k])
  <2> TAKE k \in 0 .. m
  <2>1. CASE k = m
    <3>1. f[k - 1] = g[m - 1]
      BY <1>3, <2>1
    <3> QED
      BY <1>3, <2>1, <3>1
  <2>2. CASE k # m
    <3>1. /\ k \in 0 .. (m - 1) /\ f[k] = g[k]
          /\ k # 0 => f[k - 1] = g[k - 1]
      BY <2>2
    <3>2. g[k] = IF k = 0 THEN first ELSE AfterLine(g[k - 1], lines[k])
      BY <1>4, <3>1 DEF IsParse
    <3> QED
      BY <3>1, <3>2
  <2> QED
    BY <2>1, <2>2
<1>6. IsParse(lines, m, f)
  <2>1. f = [k \in 0 .. m |-> f[k]]
    OBVIOUS
  <2> HIDE DEF f
  <2> QED
    BY <1>5, <2>1 DEF IsParse
<1> QED
  BY <1>2, <1>6

LEMMA ParsedIsParse ==
  ASSUME NEW lines, Len(lines) \in Nat
  PROVE  \E f : IsParse(lines, Len(lines), f) /\ Parsed(lines) = f[Len(lines)]
<1> DEFINE after[n \in 0 .. Len(lines)] ==
             IF n = 0 THEN [outcome |-> "ok", env |-> BlankEnvelope]
             ELSE AfterLine(after[n - 1], lines[n])
<1>1. Parsed(lines) = after[Len(lines)]
  BY DEF Parsed
<1>2. PICK f : IsParse(lines, Len(lines), f)
  BY ParseExists
<1>3. IsParse(lines, Len(lines), after)
  BY <1>2 DEF IsParse
<1> QED
  BY <1>1, <1>3

-----------------------------------------------------------------------------
(* One line, and what the parser's record is after it.                     *)

ParserRecords(V) ==
  [header : BOOLEAN, preamble : SUBSET Preamble, events : Seq(V),
   windowTransfers : Nat, windowBytes : Nat, actionIndex : Nat, stableIndex : Nat,
   expectedMarker : 0 .. 4, inWindow : BOOLEAN]

Okay(env) == [outcome |-> "ok", env |-> env]

\* Before the first event.
IsBefore(V, env, seen) ==
  /\ env \in ParserRecords(V) /\ env.preamble = seen
  /\ env.events = <<>> /\ env.windowTransfers = 0 /\ env.windowBytes = 0
  /\ env.expectedMarker = 1 /\ env.inWindow = FALSE

LEMMA OkayLine ==
  ASSUME NEW env, NEW line, LineOutcome(env, line) = "ok"
  PROVE  AfterLine(Okay(env), line) = Okay(WithLine(env, line))
BY DEF AfterLine, Okay

IsNextPreamble(line, kind, seen, more) ==
  /\ line.valid = TRUE /\ line.kind = kind
  /\ kind \in Preamble /\ kind \notin seen /\ more = seen \cup {kind}

LEMMA PreambleLine ==
  ASSUME NEW V, NEW seen, NEW env, IsBefore(V, env, seen), env.header,
         NEW line, NEW kind, NEW more, IsNextPreamble(line, kind, seen, more)
  PROVE  \E next : AfterLine(Okay(env), line) = Okay(next) /\ next.header /\ IsBefore(V, next, more)
<1> USE DEF IsNextPreamble
<1> DEFINE next == WithLine(env, line)
<1>1. env.header /\ env.preamble = seen /\ env.events = <<>> /\ env \in ParserRecords(V)
  BY DEF IsBefore
<1>2. line.kind # "overlong" /\ line.kind # "header" /\ line.kind # "event"
  BY DEF Preamble
<1>3. PreambleOutcome(env, line) = "ok"
  BY <1>1 DEF PreambleOutcome
<1>4. LineOutcome(env, line) = "ok"
  BY <1>1, <1>2, <1>3 DEF LineOutcome
<1>5. next = [env EXCEPT !.preamble = more]
  BY <1>1, <1>2 DEF WithLine
<1>6. more \subseteq Preamble
  BY <1>1 DEF ParserRecords
<1>7. IsBefore(V, next, more) /\ next.header
  <2> HIDE DEF next
  <2> QED
    BY <1>5, <1>6 DEF IsBefore, ParserRecords
<1> QED
  BY <1>4, <1>7, OkayLine

LEMMA PreambleRead ==
  ASSUME NEW V, NEW lines, NEW n \in Nat, 4 <= n, NEW f, IsParse(lines, n, f),
         \A k \in 1 .. 4 : lines[k] = PreambleLines[k]
  PROVE  \E env : f[4] = Okay(env) /\ env.header /\ IsBefore(V, env, Preamble)
<1>1. 1 \in 1 .. 4 /\ 2 \in 1 .. 4 /\ 3 \in 1 .. 4 /\ 4 \in 1 .. 4
  OBVIOUS
<1>2. /\ lines[1] = [kind |-> "header"]
      /\ lines[2] = [kind |-> "origin", valid |-> TRUE]
      /\ lines[3] = [kind |-> "device", valid |-> TRUE]
      /\ lines[4] = [kind |-> "action", valid |-> TRUE]
  BY <1>1 DEF PreambleLines
<1>3. /\ f[0] = Okay(BlankEnvelope)
      /\ f[1] = AfterLine(f[0], lines[1]) /\ f[2] = AfterLine(f[1], lines[2])
      /\ f[3] = AfterLine(f[2], lines[3]) /\ f[4] = AfterLine(f[3], lines[4])
  <2>1. \A k \in 0 .. n : f[k] = IF k = 0 THEN Okay(BlankEnvelope)
                                 ELSE AfterLine(f[k - 1], lines[k])
    BY DEF IsParse, Okay
  <2>2. 0 \in 0 .. n /\ 1 \in 0 .. n /\ 2 \in 0 .. n /\ 3 \in 0 .. n /\ 4 \in 0 .. n
    OBVIOUS
  <2>3. 1 - 1 = 0 /\ 2 - 1 = 1 /\ 3 - 1 = 2 /\ 4 - 1 = 3
    OBVIOUS
  <2> QED
    BY <2>1, <2>2, <2>3
<1>4. \E env : f[1] = Okay(env) /\ env.header /\ IsBefore(V, env, {})
  <2> DEFINE blank == BlankEnvelope
             next == WithLine(blank, lines[1])
  <2>1. IsBefore(V, blank, {}) /\ blank.header = FALSE
    BY DEF BlankEnvelope, IsBefore, ParserRecords
  <2>2. lines[1].kind = "header" /\ blank.header = FALSE
    BY <1>2, <2>1
  <2> HIDE DEF blank
  <2>3. LineOutcome(blank, lines[1]) = "ok"
    BY <2>2 DEF LineOutcome, Preamble
  <2>4. next = [blank EXCEPT !.header = TRUE]
    BY <2>2 DEF WithLine, Preamble
  <2>5. IsBefore(V, next, {}) /\ next.header
    <3> HIDE DEF next
    <3> QED
      BY <2>1, <2>4 DEF IsBefore, ParserRecords
  <2>6. f[1] = Okay(next)
    <3>1. AfterLine(Okay(blank), lines[1]) = Okay(next)
      BY <2>3, OkayLine
    <3> QED
      BY <1>3, <3>1 DEF blank
  <2> QED
    BY <2>5, <2>6
<1>5. \E env : f[2] = Okay(env) /\ env.header /\ IsBefore(V, env, {"origin"})
  <2>1. PICK env : f[1] = Okay(env) /\ env.header /\ IsBefore(V, env, {})
    BY <1>4
  <2>2. PICK line, kind, seen, more :
          line = lines[2] /\ kind = "origin" /\ seen = {} /\ more = {"origin"}
    OBVIOUS
  <2>3. IsNextPreamble(line, kind, seen, more)
    BY <1>2, <2>2 DEF Preamble, IsNextPreamble
  <2>4. IsBefore(V, env, seen) /\ env.header
    BY <2>1, <2>2
  <2>5. \E next : AfterLine(Okay(env), line) = Okay(next) /\ next.header /\ IsBefore(V, next, more)
    BY <2>3, <2>4, PreambleLine
  <2> QED
    BY <1>3, <2>1, <2>2, <2>5
<1>6. \E env : f[3] = Okay(env) /\ env.header /\ IsBefore(V, env, {"origin", "device"})
  <2>1. PICK env : f[2] = Okay(env) /\ env.header /\ IsBefore(V, env, {"origin"})
    BY <1>5
  <2>2. PICK line, kind, seen, more :
          line = lines[3] /\ kind = "device" /\ seen = {"origin"} /\ more = {"origin", "device"}
    OBVIOUS
  <2>3. IsNextPreamble(line, kind, seen, more)
    BY <1>2, <2>2 DEF Preamble, IsNextPreamble
  <2>4. IsBefore(V, env, seen) /\ env.header
    BY <2>1, <2>2
  <2>5. \E next : AfterLine(Okay(env), line) = Okay(next) /\ next.header /\ IsBefore(V, next, more)
    BY <2>3, <2>4, PreambleLine
  <2> QED
    BY <1>3, <2>1, <2>2, <2>5
<1> QED
  <2>1. PICK env : f[3] = Okay(env) /\ env.header /\ IsBefore(V, env, {"origin", "device"})
    BY <1>6
  <2>2. PICK line, kind, seen, more :
          line = lines[4] /\ kind = "action" /\ seen = {"origin", "device"} /\ more = Preamble
    OBVIOUS
  <2>3. IsNextPreamble(line, kind, seen, more)
    BY <1>2, <2>2 DEF Preamble, IsNextPreamble
  <2>4. IsBefore(V, env, seen) /\ env.header
    BY <2>1, <2>2
  <2>5. \E next : AfterLine(Okay(env), line) = Okay(next) /\ next.header /\ IsBefore(V, next, more)
    BY <2>3, <2>4, PreambleLine
  <2> QED
    BY <1>3, <2>1, <2>2, <2>5

LEMMA EventRead ==
  ASSUME NEW V, NEW env \in ParserRecords(V), NEW e, env.header, e.kind = "event",
         EventOutcome(env, e) = "ok"
  PROVE  AfterLine(Okay(env), e)
           = Okay(IF IsTransfer(e) THEN WithTransfer(env, e) ELSE WithMarker(env, e))
<1>1. LineOutcome(env, e) = "ok"
  BY DEF LineOutcome, Preamble
<1>2. WithLine(env, e) = IF IsTransfer(e) THEN WithTransfer(env, e) ELSE WithMarker(env, e)
  BY DEF WithLine, Preamble
<1> QED
  BY <1>1, <1>2, OkayLine

\* The expected marker.
LEMMA MarkerRead ==
  ASSUME NEW V, NEW env \in ParserRecords(V), NEW e \in V,
         env.header, env.preamble = Preamble,
         NEW m \in 1 .. 4, env.expectedMarker = m,
         e.kind = "event", e.value.type = "marker", e.value.marker = Markers[m],
         Len(env.events) < MaxEvents, IsNext(env, e)
  PROVE  LET q == WithMarker(env, e)
         IN  /\ AfterLine(Okay(env), e) = Okay(q)
             /\ q \in ParserRecords(V) /\ q.header /\ q.preamble = Preamble
             /\ q.events = Append(env.events, e)
             /\ q.windowTransfers = env.windowTransfers /\ q.windowBytes = env.windowBytes
             /\ q.expectedMarker = (IF m = 4 THEN 0 ELSE m + 1)
             /\ q.inWindow <=> (m = 2 \/ (env.inWindow /\ m # 3))
<1> DEFINE q == WithMarker(env, e)
<1>1. ~IsTransfer(e) /\ \A k \in 1 .. 4 : Is(e, Markers[k]) <=> k = m
  BY MarkerNames DEF IsTransfer, Is
<1>2. MarkerOutcome(env, e) = "ok"
  BY <1>1 DEF MarkerOutcome
<1>3. ~(Len(env.events) >= MaxEvents)
  <2>1. Len(env.events) \in Nat
    BY LenProperties DEF ParserRecords
  <2> QED
    BY <2>1, BoundsAssumption
<1>4. EventOutcome(env, e) = "ok"
  BY <1>2, <1>3 DEF EventOutcome
<1>5. AfterLine(Okay(env), e) = Okay(q)
  BY <1>1, <1>4, EventRead
<1>6. /\ Is(e, "action-issued") <=> m = 2
      /\ Is(e, "output-stable") <=> m = 3
  BY <1>1, MarkerNames
<1>7. MarkerAfter(m) = (IF m = 4 THEN 0 ELSE m + 1) /\ MarkerAfter(m) \in 0 .. 4
  BY DEF MarkerAfter, Markers
<1>8. Append(env.events, e) \in Seq(V) /\ Len(env.events) \in Nat
  <2>1. env.events \in Seq(V)
    BY DEF ParserRecords
  <2> QED
    BY <2>1, AppendProperties, LenProperties
<1>9. PICK x, w : /\ x = (IF Is(e, "action-issued") THEN Len(env.events) ELSE env.actionIndex)
                  /\ w = (IF Is(e, "output-stable") THEN Len(env.events) ELSE env.stableIndex)
                  /\ x \in Nat /\ w \in Nat
  <2>1. env.actionIndex \in Nat /\ env.stableIndex \in Nat
    BY DEF ParserRecords
  <2> QED
    BY <1>8, <2>1
<1>10. PICK b \in BOOLEAN : /\ b <=> (m = 2 \/ (env.inWindow /\ m # 3))
                            /\ b = (Is(e, "action-issued") \/ (env.inWindow /\ ~Is(e, "output-stable")))
  BY <1>6
<1>11. q = [env EXCEPT !.events = Append(env.events, e), !.expectedMarker = MarkerAfter(m),
                       !.actionIndex = x, !.stableIndex = w, !.inWindow = b]
  BY <1>9, <1>10 DEF WithMarker, ParserRecords
<1>12. /\ q \in ParserRecords(V) /\ q.header = env.header /\ q.preamble = env.preamble
       /\ q.events = Append(env.events, e)
       /\ q.windowTransfers = env.windowTransfers /\ q.windowBytes = env.windowBytes
       /\ q.expectedMarker = MarkerAfter(m) /\ q.inWindow = b
  <2> HIDE DEF q
  <2> QED
    BY <1>7, <1>8, <1>9, <1>11 DEF ParserRecords
<1> HIDE DEF q
<1> QED
  BY <1>5, <1>7, <1>10, <1>12 DEF q

IsMarkerValue(v, m) == v.type = "marker" /\ v.marker = Markers[m]

IsAllowedValue(v) ==
  /\ v.type = "transfer" /\ v.length \in Nat /\ v.length <= MaxTransferLength
  /\ TransferIsAllowlisted(v)

\* A transfer that may come next.
LEMMA TransferRead ==
  ASSUME NEW V, NEW env \in ParserRecords(V), NEW e \in V,
         env.header, env.preamble = Preamble,
         env.expectedMarker \notin {0, 1}, e.kind = "event", IsAllowedValue(e.value),
         Len(env.events) < MaxEvents, IsNext(env, e),
         env.inWindow => env.windowBytes + e.value.length <= MaxTotalBytes
  PROVE  LET q == WithTransfer(env, e)
         IN  /\ AfterLine(Okay(env), e) = Okay(q)
             /\ q \in ParserRecords(V) /\ q.header /\ q.preamble = Preamble
             /\ q.events = Append(env.events, e)
             /\ q.expectedMarker = env.expectedMarker
             /\ q.inWindow <=> env.inWindow
             /\ env.inWindow => /\ q.windowTransfers = env.windowTransfers + 1
                                /\ q.windowBytes = env.windowBytes + e.value.length
             /\ ~env.inWindow => /\ q.windowTransfers = env.windowTransfers
                                 /\ q.windowBytes = env.windowBytes
<1> DEFINE q == WithTransfer(env, e)
<1>1. /\ IsTransfer(e) /\ e.value.type = "transfer" /\ e.value.length \in Nat
      /\ e.value.length <= MaxTransferLength /\ TransferIsAllowlisted(e.value)
  BY DEF IsTransfer, IsAllowedValue
<1>2. env.windowBytes \in Nat /\ env.windowTransfers \in Nat
  BY DEF ParserRecords
<1>3. ~(e.value.length > MaxTransferLength)
  BY <1>1, BoundsAssumption
<1>4. ~(env.inWindow /\ env.windowBytes > MaxTotalBytes - e.value.length)
  <2>1. PICK b \in Nat, l \in Nat, m \in Nat :
          b = env.windowBytes /\ l = e.value.length /\ m = MaxTotalBytes
    BY <1>1, <1>2, BoundsAssumption
  <2>2. b + l <= m => ~(b > m - l)
    OBVIOUS
  <2> QED
    BY <2>1, <2>2
<1>5. TransferOutcome(env, e) = "ok"
  BY <1>1, <1>3, <1>4 DEF TransferOutcome
<1>6. ~(Len(env.events) >= MaxEvents)
  <2>1. Len(env.events) \in Nat
    BY LenProperties DEF ParserRecords
  <2> QED
    BY <2>1, BoundsAssumption
<1>7. EventOutcome(env, e) = "ok"
  BY <1>1, <1>5, <1>6 DEF EventOutcome
<1>8. AfterLine(Okay(env), e) = Okay(q)
  BY <1>1, <1>7, EventRead
<1>9. Append(env.events, e) \in Seq(V)
  <2>1. env.events \in Seq(V)
    BY DEF ParserRecords
  <2> QED
    BY <2>1, AppendProperties
<1>10. PICK c, b : /\ c = (IF env.inWindow THEN env.windowTransfers + 1 ELSE env.windowTransfers)
                   /\ b = (IF env.inWindow THEN env.windowBytes + e.value.length
                           ELSE env.windowBytes)
                   /\ c \in Nat /\ b \in Nat
  <2> DEFINE c == IF env.inWindow THEN env.windowTransfers + 1 ELSE env.windowTransfers
             b == IF env.inWindow THEN env.windowBytes + e.value.length ELSE env.windowBytes
  <2>1. c \in Nat
    BY <1>2
  <2>2. b \in Nat
    BY <1>1, <1>2
  <2> QED
    BY <2>1, <2>2
<1>11. q = [env EXCEPT !.events = Append(env.events, e), !.windowTransfers = c, !.windowBytes = b]
  BY <1>10 DEF WithTransfer, ParserRecords
<1>12. /\ q \in ParserRecords(V) /\ q.header = env.header /\ q.preamble = env.preamble
       /\ q.events = Append(env.events, e) /\ q.expectedMarker = env.expectedMarker
       /\ q.inWindow = env.inWindow
       /\ q.windowTransfers = c /\ q.windowBytes = b
  <2> HIDE DEF q
  <2> QED
    BY <1>9, <1>10, <1>11 DEF ParserRecords
<1> HIDE DEF q
<1>13. /\ env.inWindow => c = env.windowTransfers + 1 /\ b = env.windowBytes + e.value.length
       /\ ~env.inWindow => c = env.windowTransfers /\ b = env.windowBytes
  BY <1>10
<1>14. /\ q.inWindow <=> env.inWindow
       /\ env.inWindow => q.windowTransfers = env.windowTransfers + 1
       /\ env.inWindow => q.windowBytes = env.windowBytes + e.value.length
       /\ ~env.inWindow => q.windowTransfers = env.windowTransfers
       /\ ~env.inWindow => q.windowBytes = env.windowBytes
  BY <1>12, <1>13
<1>15. q.header /\ q.preamble = Preamble
  BY <1>12
<1> QED
  BY <1>8, <1>12, <1>14, <1>15 DEF q

-----------------------------------------------------------------------------
(* The parser reads one event of an envelope after the other.              *)

\* Events of which the first a transfers are early; g adds up their lengths.
IsScript(e, a, n, g) ==
  /\ n \in Nat /\ a \in Nat /\ a <= n /\ n + 4 <= MaxEvents
  /\ IsMarkerValue(e[1].value, 1) /\ IsMarkerValue(e[2].value, 2)
  /\ IsMarkerValue(e[a + 3].value, 3) /\ IsMarkerValue(e[n + 4].value, 4)
  /\ \A i \in 1 .. a : IsAllowedValue(e[i + 2].value)
  /\ \A i \in (a + 1) .. n : IsAllowedValue(e[i + 3].value)
  /\ \A i \in 1 .. (n + 3) : e[i + 1].time >= e[i].time
  /\ g[0] = 0 /\ \A i \in 1 .. a : g[i] = g[i - 1] + e[i + 2].value.length
  /\ \A i \in 0 .. a : g[i] \in Nat /\ g[i] <= MaxTotalBytes

LinesOf(e, n) == {EventLine(e, i) : i \in 1 .. (n + 4)}

\* The parser's record when it has read j of them.
HasRead(env, e, a, n, g, j) ==
  /\ env \in ParserRecords(LinesOf(e, n)) /\ env.header /\ env.preamble = Preamble
  /\ Len(env.events) = j /\ \A i \in 1 .. j : env.events[i] = EventLine(e, i)
  /\ j = 0 => env.expectedMarker = 1
  /\ j = 1 => env.expectedMarker = 2
  /\ (2 <= j /\ j <= a + 2) => env.expectedMarker = 3
  /\ (a + 3 <= j /\ j <= n + 3) => env.expectedMarker = 4
  /\ j = n + 4 => env.expectedMarker = 0
  /\ env.inWindow <=> (2 <= j /\ j <= a + 2)
  /\ j <= 2 => env.windowTransfers = 0 /\ env.windowBytes = 0
  /\ (2 <= j /\ j <= a + 2) => env.windowTransfers = j - 2 /\ env.windowBytes = g[j - 2]
  /\ a + 2 <= j => env.windowTransfers = a /\ env.windowBytes = g[a]

LEMMA NextEventFits ==
  ASSUME NEW e, NEW a, NEW n, NEW g, IsScript(e, a, n, g),
         NEW j \in Nat, j <= n + 3, NEW env, HasRead(env, e, a, n, g, j)
  PROVE  LET line == EventLine(e, j + 1)
         IN  /\ env \in ParserRecords(LinesOf(e, n)) /\ env.header /\ env.preamble = Preamble
             /\ line \in LinesOf(e, n) /\ line.kind = "event" /\ line.value = e[j + 1].value
             /\ Len(env.events) < MaxEvents /\ IsNext(env, line)
             /\ \A q : q.events = Append(env.events, line)
                         => /\ Len(q.events) = j + 1
                            /\ \A i \in 1 .. (j + 1) : q.events[i] = EventLine(e, i)
<1> DEFINE line == EventLine(e, j + 1)
<1>1. n \in Nat /\ a \in Nat /\ a <= n /\ n + 4 <= MaxEvents
  BY DEF IsScript
<1>2. /\ env \in ParserRecords(LinesOf(e, n)) /\ env.header /\ env.preamble = Preamble
      /\ Len(env.events) = j /\ \A i \in 1 .. j : env.events[i] = EventLine(e, i)
  BY DEF HasRead
<1>3. j + 1 \in 1 .. (n + 4) /\ j + 1 - 1 = j /\ j < n + 4
  BY <1>1
<1>4. line \in LinesOf(e, n)
  BY <1>3 DEF LinesOf
<1>5. /\ line.kind = "event" /\ line.value = e[j + 1].value /\ line.sequence = j
      /\ line.time = e[j + 1].time
  BY <1>3 DEF EventLine
<1>6. Len(env.events) < MaxEvents
  BY <1>1, <1>2, <1>3, BoundsAssumption
<1>7. ASSUME j > 0 PROVE line.time >= env.events[j].time
  <2>1. j \in 1 .. j /\ j \in 1 .. (n + 3)
    BY <1>1, <1>7
  <2>2. env.events[j] = EventLine(e, j)
    BY <1>2, <2>1
  <2>3. env.events[j].time = e[j].time
    BY <2>2 DEF EventLine
  <2>4. e[j + 1].time >= e[j].time
    BY <2>1 DEF IsScript
  <2> QED
    BY <1>5, <2>3, <2>4
<1> HIDE DEF line
<1>8. IsNext(env, line)
  BY <1>2, <1>5, <1>7 DEF IsNext
<1>9. env.events \in Seq(LinesOf(e, n))
  BY <1>2 DEF ParserRecords
<1>10. /\ Len(Append(env.events, line)) = j + 1
       /\ \A i \in 1 .. j : Append(env.events, line)[i] = env.events[i]
       /\ Append(env.events, line)[j + 1] = line
  BY <1>2, <1>4, <1>9, AppendProperties
<1>11. \A i \in 1 .. (j + 1) : i \in 1 .. j \/ i = j + 1
  OBVIOUS
<1>12. \A i \in 1 .. (j + 1) : Append(env.events, line)[i] = EventLine(e, i)
  BY <1>2, <1>10, <1>11 DEF line
<1> QED
  BY <1>2, <1>4, <1>5, <1>6, <1>8, <1>10, <1>12 DEF line

LEMMA ReadsMarker ==
  ASSUME NEW e, NEW a, NEW n, NEW g, IsScript(e, a, n, g),
         NEW j \in Nat, j \in {0, 1, a + 2, n + 3},
         NEW env, HasRead(env, e, a, n, g, j)
  PROVE  \E next : /\ AfterLine(Okay(env), EventLine(e, j + 1)) = Okay(next)
                   /\ HasRead(next, e, a, n, g, j + 1)
<1> DEFINE line == EventLine(e, j + 1)
           next == WithMarker(env, line)
           V == LinesOf(e, n)
           m == IF j < 2 THEN j + 1 ELSE IF j = a + 2 THEN 3 ELSE 4
<1>1. n \in Nat /\ a \in Nat /\ a <= n
  BY DEF IsScript
<1>2. j <= n + 3 /\ m \in 1 .. 4
  BY <1>1
<1>3. /\ env \in ParserRecords(V) /\ env.header /\ env.preamble = Preamble
      /\ line \in V /\ line.kind = "event" /\ line.value = e[j + 1].value
      /\ Len(env.events) < MaxEvents /\ IsNext(env, line)
      /\ next.events = Append(env.events, line)
           => /\ Len(next.events) = j + 1
              /\ \A i \in 1 .. (j + 1) : next.events[i] = EventLine(e, i)
  BY <1>2, NextEventFits
<1>4. /\ j = 0 => env.expectedMarker = 1
      /\ j = 1 => env.expectedMarker = 2
      /\ (2 <= j /\ j <= a + 2) => env.expectedMarker = 3
      /\ (a + 3 <= j /\ j <= n + 3) => env.expectedMarker = 4
      /\ env.inWindow <=> (2 <= j /\ j <= a + 2)
      /\ j <= 2 => env.windowTransfers = 0 /\ env.windowBytes = 0
      /\ (2 <= j /\ j <= a + 2) => env.windowTransfers = j - 2 /\ env.windowBytes = g[j - 2]
      /\ a + 2 <= j => env.windowTransfers = a /\ env.windowBytes = g[a]
  BY DEF HasRead
<1>5. IsMarkerValue(e[j + 1].value, m)
  <2>1. /\ IsMarkerValue(e[1].value, 1) /\ IsMarkerValue(e[2].value, 2)
        /\ IsMarkerValue(e[a + 3].value, 3) /\ IsMarkerValue(e[n + 4].value, 4)
    BY DEF IsScript
  <2>2. CASE j = 0
    BY <2>1, <2>2
  <2>3. CASE j = 1
    BY <2>1, <2>3
  <2>4. CASE j = a + 2
    <3>1. j + 1 = a + 3 /\ m = 3
      BY <1>1, <2>4
    <3> QED
      BY <2>1, <3>1
  <2>5. CASE j = n + 3 /\ j # a + 2
    <3>1. j + 1 = n + 4 /\ m = 4
      BY <1>1, <2>5
    <3> QED
      BY <2>1, <3>1
  <2> QED
    BY <2>2, <2>3, <2>4, <2>5
<1>6. env.expectedMarker = m
  BY <1>1, <1>4
<1>7. /\ m = 1 <=> j = 0
      /\ m = 2 <=> j = 1
      /\ m = 3 <=> j = a + 2
      /\ m = 4 <=> j = n + 3
  BY <1>1
<1> HIDE DEF line, m, V
<1>8. line.value.type = "marker" /\ line.value.marker = Markers[m]
  BY <1>3, <1>5 DEF IsMarkerValue
<1>9. /\ AfterLine(Okay(env), line) = Okay(next)
      /\ next \in ParserRecords(V) /\ next.header /\ next.preamble = Preamble
      /\ next.events = Append(env.events, line)
      /\ next.windowTransfers = env.windowTransfers /\ next.windowBytes = env.windowBytes
      /\ next.expectedMarker = (IF m = 4 THEN 0 ELSE m + 1)
      /\ next.inWindow <=> (m = 2 \/ (env.inWindow /\ m # 3))
  BY <1>2, <1>3, <1>6, <1>8, MarkerRead
<1> HIDE DEF next
<1>10. /\ j + 1 = 1 => next.expectedMarker = 2
       /\ (2 <= j + 1 /\ j + 1 <= a + 2) => next.expectedMarker = 3
       /\ (a + 3 <= j + 1 /\ j + 1 <= n + 3) => next.expectedMarker = 4
       /\ j + 1 = n + 4 => next.expectedMarker = 0
  BY <1>1, <1>7, <1>9
<1>11. next.inWindow <=> (2 <= j + 1 /\ j + 1 <= a + 2)
  BY <1>1, <1>4, <1>7, <1>9
<1>12. /\ j + 1 <= 2 => next.windowTransfers = 0 /\ next.windowBytes = 0
       /\ a + 2 <= j + 1 => next.windowTransfers = a /\ next.windowBytes = g[a]
       /\ (2 <= j + 1 /\ j + 1 <= a + 2)
            => next.windowTransfers = j + 1 - 2 /\ next.windowBytes = g[j + 1 - 2]
  <2>1. g[0] = 0
    BY DEF IsScript
  <2> QED
    BY <1>1, <1>4, <1>9, <2>1
<1>13. HasRead(next, e, a, n, g, j + 1)
  <2>1. j + 1 # 0
    OBVIOUS
  <2> QED
    BY <1>3, <1>9, <1>10, <1>11, <1>12, <2>1 DEF HasRead, V
<1> QED
  BY <1>9, <1>13 DEF line

LEMMA ReadsTransfer ==
  ASSUME NEW e, NEW a, NEW n, NEW g, IsScript(e, a, n, g),
         NEW j \in Nat, j \notin {0, 1, a + 2}, j < n + 3,
         NEW env, HasRead(env, e, a, n, g, j)
  PROVE  \E next : /\ AfterLine(Okay(env), EventLine(e, j + 1)) = Okay(next)
                   /\ HasRead(next, e, a, n, g, j + 1)
<1> DEFINE line == EventLine(e, j + 1)
           next == WithTransfer(env, line)
           V == LinesOf(e, n)
<1>1. n \in Nat /\ a \in Nat /\ a <= n
  BY DEF IsScript
<1>2. j <= n + 3 /\ 2 <= j
  BY <1>1
<1>3. /\ env \in ParserRecords(V) /\ env.header /\ env.preamble = Preamble
      /\ line \in V /\ line.kind = "event" /\ line.value = e[j + 1].value
      /\ Len(env.events) < MaxEvents /\ IsNext(env, line)
      /\ next.events = Append(env.events, line)
           => /\ Len(next.events) = j + 1
              /\ \A i \in 1 .. (j + 1) : next.events[i] = EventLine(e, i)
  BY <1>2, NextEventFits
<1>4. /\ (2 <= j /\ j <= a + 2) => env.expectedMarker = 3
      /\ (a + 3 <= j /\ j <= n + 3) => env.expectedMarker = 4
      /\ env.inWindow <=> (2 <= j /\ j <= a + 2)
      /\ (2 <= j /\ j <= a + 2) => env.windowTransfers = j - 2 /\ env.windowBytes = g[j - 2]
      /\ a + 2 <= j => env.windowTransfers = a /\ env.windowBytes = g[a]
  BY DEF HasRead
<1>5. /\ IsAllowedValue(line.value)
      /\ j < a + 2 => line.value.length = e[j - 1 + 2].value.length /\ j - 1 \in 1 .. a
  <2>1. CASE j < a + 2
    <3>1. j - 1 \in 1 .. a /\ j - 1 + 2 = j + 1
      BY <1>1, <1>2, <2>1
    <3>2. IsAllowedValue(e[j + 1].value)
      <4>1. IsAllowedValue(e[j - 1 + 2].value)
        BY <3>1 DEF IsScript
      <4> QED
        BY <3>1, <4>1
    <3> QED
      BY <1>3, <3>1, <3>2
  <2>2. CASE ~(j < a + 2)
    <3>1. j - 2 \in (a + 1) .. n /\ j - 2 + 3 = j + 1
      BY <1>1, <1>2, <2>2
    <3>2. IsAllowedValue(e[j - 2 + 3].value)
      BY <3>1 DEF IsScript
    <3> QED
      BY <1>3, <2>2, <3>1, <3>2
  <2> QED
    BY <2>1, <2>2
<1>6. j < a + 2 => /\ g[j - 1] = g[j - 2] + line.value.length
                   /\ g[j - 1] <= MaxTotalBytes
  <2> SUFFICES ASSUME j < a + 2
               PROVE  g[j - 1] = g[j - 2] + line.value.length /\ g[j - 1] <= MaxTotalBytes
    OBVIOUS
  <2>1. j - 1 \in 1 .. a /\ j - 1 \in 0 .. a /\ j - 1 - 1 = j - 2
    BY <1>1, <1>2
  <2>2. g[j - 1] = g[j - 1 - 1] + e[j - 1 + 2].value.length /\ g[j - 1] <= MaxTotalBytes
    BY <2>1 DEF IsScript
  <2> QED
    BY <1>5, <2>1, <2>2
<1>7. env.inWindow <=> j < a + 2
  BY <1>1, <1>2, <1>4
<1>8. env.expectedMarker = IF j < a + 2 THEN 3 ELSE 4
  BY <1>1, <1>2, <1>4
<1> HIDE DEF line, V
<1>9. env.inWindow => env.windowBytes + line.value.length <= MaxTotalBytes
  BY <1>2, <1>4, <1>6, <1>7
<1>10. env.expectedMarker \notin {0, 1}
  BY <1>8
<1>11. /\ AfterLine(Okay(env), line) = Okay(next)
       /\ next \in ParserRecords(V) /\ next.header /\ next.preamble = Preamble
       /\ next.events = Append(env.events, line)
       /\ next.expectedMarker = env.expectedMarker
       /\ next.inWindow <=> env.inWindow
       /\ env.inWindow => /\ next.windowTransfers = env.windowTransfers + 1
                          /\ next.windowBytes = env.windowBytes + line.value.length
       /\ ~env.inWindow => /\ next.windowTransfers = env.windowTransfers
                           /\ next.windowBytes = env.windowBytes
  BY <1>3, <1>5, <1>9, <1>10, TransferRead
<1> HIDE DEF next
<1>12. /\ (2 <= j + 1 /\ j + 1 <= a + 2) => next.expectedMarker = 3
       /\ (a + 3 <= j + 1 /\ j + 1 <= n + 3) => next.expectedMarker = 4
       /\ next.inWindow <=> (2 <= j + 1 /\ j + 1 <= a + 2)
  BY <1>1, <1>2, <1>7, <1>8, <1>11
<1>13. /\ a + 2 <= j + 1 => next.windowTransfers = a /\ next.windowBytes = g[a]
       /\ (2 <= j + 1 /\ j + 1 <= a + 2)
            => next.windowTransfers = j + 1 - 2 /\ next.windowBytes = g[j + 1 - 2]
  <2>1. CASE j < a + 2
    <3>1. next.windowTransfers = j - 2 + 1 /\ next.windowBytes = g[j - 2] + line.value.length
      BY <1>2, <1>4, <1>7, <1>11, <2>1
    <3>2. j - 2 + 1 = j + 1 - 2 /\ j + 1 - 2 = j - 1 /\ (a + 2 <= j + 1 => j - 1 = a)
      BY <1>1, <2>1
    <3> QED
      BY <1>6, <2>1, <3>1, <3>2
  <2>2. CASE ~(j < a + 2)
    <3>1. ~(j + 1 <= a + 2) /\ a + 2 <= j
      BY <1>1, <2>2
    <3> QED
      BY <1>4, <1>7, <1>11, <2>2, <3>1
  <2> QED
    BY <2>1, <2>2
<1>14. HasRead(next, e, a, n, g, j + 1)
  <2>1. j + 1 # 0 /\ j + 1 # 1 /\ ~(j + 1 <= 2) /\ j + 1 # n + 4
    BY <1>1, <1>2
  <2> QED
    BY <1>3, <1>11, <1>12, <1>13, <2>1 DEF HasRead, V
<1> QED
  BY <1>11, <1>14 DEF line

\* All of them, one after the other.
LEMMA ReadsScript ==
  ASSUME NEW e, NEW a, NEW n, NEW g, IsScript(e, a, n, g),
         NEW lines, NEW f, IsParse(lines, n + 8, f),
         \A k \in 1 .. 4 : lines[k] = PreambleLines[k],
         \A k \in 1 .. (n + 4) : lines[4 + k] = EventLine(e, k)
  PROVE  \E env : f[n + 8] = Okay(env) /\ HasRead(env, e, a, n, g, n + 4)
<1> DEFINE T == {j \in 0 .. (n + 4) :
                   ~\E env : f[4 + j] = Okay(env) /\ HasRead(env, e, a, n, g, j)}
<1>1. n \in Nat /\ a \in Nat /\ a <= n /\ n + 8 \in Nat /\ 4 <= n + 8
  BY DEF IsScript
<1>2. 0 \notin T
  <2>1. PICK env : f[4] = Okay(env) /\ env.header /\ IsBefore(LinesOf(e, n), env, Preamble)
    BY <1>1, PreambleRead
  <2>2. HasRead(env, e, a, n, g, 0)
    <3>1. 0 # 1 /\ ~(2 <= 0) /\ ~(a + 3 <= 0) /\ 0 # n + 4 /\ ~(a + 2 <= 0)
      BY <1>1
    <3>2. Len(<<>>) = 0 /\ 1 .. 0 = {}
      OBVIOUS
    <3> QED
      BY <2>1, <3>1, <3>2 DEF HasRead, IsBefore
  <2> QED
    BY <2>1, <2>2
<1>3. SUFFICES ASSUME T # {} PROVE FALSE
  <2>1. n + 4 \in 0 .. (n + 4) /\ 4 + (n + 4) = n + 8
    BY <1>1
  <2> QED
    BY <2>1
<1>4. PICK m \in T : \A k \in T : m <= k
  <2>1. T \in SUBSET Nat
    BY <1>1
  <2> HIDE DEF T
  <2> QED
    BY <1>3, <2>1, Least
<1> DEFINE j == m - 1
<1>5. /\ j \in Nat /\ j <= n + 3 /\ j \notin T /\ j \in 0 .. (n + 4) /\ m = j + 1
      /\ m \in 1 .. (n + 4) /\ 4 + m \in 0 .. (n + 8) /\ 4 + m # 0 /\ 4 + m - 1 = 4 + j
  <2>1. m \in 0 .. (n + 4) /\ m # 0
    BY <1>2, <1>4
  <2>2. ~(m <= m - 1)
    BY <2>1
  <2>3. j \notin T
    BY <1>4, <2>2
  <2> QED
    BY <1>1, <2>1, <2>3
<1>6. PICK env : f[4 + j] = Okay(env) /\ HasRead(env, e, a, n, g, j)
  BY <1>5
<1>7. f[4 + m] = AfterLine(f[4 + j], EventLine(e, j + 1))
  <2>1. f[4 + m] = AfterLine(f[4 + m - 1], lines[4 + m])
    BY <1>5 DEF IsParse
  <2> QED
    BY <1>5, <2>1
<1> HIDE DEF j
<1>8. \E next : /\ AfterLine(Okay(env), EventLine(e, j + 1)) = Okay(next)
                /\ HasRead(next, e, a, n, g, j + 1)
  <2>1. CASE j \in {0, 1, a + 2, n + 3}
    BY <1>5, <1>6, <2>1, ReadsMarker
  <2>2. CASE j \notin {0, 1, a + 2, n + 3}
    <3>1. j < n + 3
      BY <1>1, <1>5, <2>2
    <3> QED
      BY <1>5, <1>6, <2>2, <3>1, ReadsTransfer
  <2> QED
    BY <2>1, <2>2
<1>9. m \notin T
  BY <1>5, <1>6, <1>7, <1>8
<1> QED
  BY <1>4, <1>9

\* Sums of numbers that are zero after the first a.
LEMMA SumsOfPrefix ==
  ASSUME NEW n \in Nat, NEW a \in 0 .. n, NEW numbers, NEW g, IsSums(numbers, n, g),
         \A k \in 1 .. n : numbers[k] \in Nat,
         \A k \in (a + 1) .. n : numbers[k] = 0
  PROVE  /\ g[0] = 0 /\ \A k \in 1 .. n : g[k] = g[k - 1] + numbers[k]
         /\ \A k \in 0 .. n : g[k] \in Nat /\ g[k] <= g[n]
         /\ g[n] = g[a]
<1>1. g[0] = 0 /\ \A k \in 1 .. n : g[k] = g[k - 1] + numbers[k]
  <2>1. \A k \in 0 .. n : g[k] = IF k = 0 THEN 0 ELSE g[k - 1] + numbers[k]
    BY DEF IsSums
  <2>2. 0 \in 0 .. n /\ \A k \in 1 .. n : k \in 0 .. n /\ k # 0
    OBVIOUS
  <2> QED
    BY <2>1, <2>2
<1> DEFINE Right(k) == /\ g[k] \in Nat /\ \A i \in 0 .. k : g[i] <= g[k]
                       /\ a <= k => g[k] = g[a]
           T == {k \in 0 .. n : ~Right(k)}
<1>2. T = {}
  <2> SUFFICES ASSUME T # {} PROVE FALSE
    OBVIOUS
  <2>1. PICK m \in T : \A k \in T : m <= k
    <3>1. T \in SUBSET Nat
      OBVIOUS
    <3> HIDE DEF T
    <3> QED
      BY <3>1, Least
  <2>2. CASE m = 0
    <3>1. Right(0)
      BY <1>1
    <3> QED
      BY <2>1, <2>2, <3>1
  <2>3. CASE m # 0
    <3>1. m \in 1 .. n /\ m - 1 \in 0 .. n /\ ~(m <= m - 1)
      BY <2>1, <2>3
    <3>2. Right(m - 1)
      BY <2>1, <3>1
    <3>3. PICK u \in Nat, v \in Nat : u = g[m - 1] /\ v = numbers[m] /\ g[m] = u + v
      BY <1>1, <3>1, <3>2
    <3>4. \A i \in 0 .. m : g[i] <= g[m]
      <4> TAKE i \in 0 .. m
      <4>1. CASE i = m
        BY <3>3, <4>1
      <4>2. CASE i # m
        <5>1. i \in 0 .. (m - 1)
          BY <3>1, <4>2
        <5>2. i \in 0 .. n /\ i \notin T
          BY <2>1, <3>1, <4>2
        <5>3. g[i] \in Nat /\ g[i] <= u
          BY <3>2, <3>3, <5>1, <5>2
        <5> QED
          BY <3>3, <5>3
      <4> QED
        BY <4>1, <4>2
    <3>5. a <= m => g[m] = g[a]
      <4>1. CASE a = m
        BY <4>1
      <4>2. CASE a < m
        <5>1. m \in (a + 1) .. n /\ a <= m - 1
          BY <3>1, <4>2
        <5>2. v = 0 /\ u = g[a]
          BY <3>2, <3>3, <5>1
        <5> QED
          BY <3>3, <5>2
      <4> QED
        BY <3>1, <4>1, <4>2
    <3> QED
      BY <2>1, <3>3, <3>4, <3>5
  <2> QED
    BY <2>2, <2>3
<1>3. \A k \in 0 .. n : Right(k)
  BY <1>2
<1>4. n \in 0 .. n /\ a <= n
  OBVIOUS
<1>5. Right(n)
  BY <1>3, <1>4
<1> QED
  BY <1>1, <1>3, <1>4, <1>5

LEMMA TrialIsScript ==
  ASSUME NEW t, IsTrial(t), NEW limit \in Nat, Renders(t, limit),
         NEW n \in Nat, n = Len(t.transfers), NEW a \in 0 .. n, Activation(t, limit) = 1 .. a
  PROVE  /\ AreEvents(t, limit, a, Events(t, limit))
         /\ \E g : IsScript(Events(t, limit), a, n, g) /\ g[a] = ActivationBytes(t, limit)
<1> DEFINE e == Events(t, limit)
           numbers == [k \in DOMAIN t.transfers |->
                         IF k \in Activation(t, limit) THEN t.transfers[k].length ELSE 0]
<1>1. AreEvents(t, limit, a, e)
  BY EventsOfTrial
<1>2. DOMAIN t.transfers = 1 .. n /\ \A k \in 1 .. n : t.transfers[k] \in Shown
  <2>1. t.transfers \in Seq(Shown)
    BY DEF IsTrial, TrialRecords
  <2> QED
    BY <2>1, LenProperties, ElementOfSeq
<1>3. \A k \in 1 .. n : /\ t.transfers[k].length \in Nat
                        /\ t.transfers[k].length <= MaxTransferLength
                        /\ t.transfers[k].endpoint \in {"0x02", "0x84"}
  <2> TAKE k \in 1 .. n
  <2>1. t.transfers[k].length \in Lengths /\ t.transfers[k].endpoint \in {"0x02", "0x84"}
    BY <1>2 DEF Shown
  <2>2. PICK l \in 0 .. MaxTransferLength : l = t.transfers[k].length
    BY <2>1, LengthsAssumption
  <2>3. l \in Nat /\ l <= MaxTransferLength
    BY BoundsAssumption
  <2> QED
    BY <2>1, <2>2, <2>3
<1>4. /\ \A k \in 1 .. n : numbers[k] = IF k <= a THEN t.transfers[k].length ELSE 0
      /\ numbers \in Seq(Nat) /\ Len(numbers) = n
  <2>1. DOMAIN numbers = 1 .. n
    BY <1>2
  <2>2. \A k \in 1 .. n : k \in Activation(t, limit) <=> k <= a
    OBVIOUS
  <2>3. \A k \in 1 .. n : numbers[k] = IF k <= a THEN t.transfers[k].length ELSE 0
    BY <1>2, <2>2
  <2>4. numbers \in [1 .. n -> Nat]
    BY <1>2, <1>3
  <2> HIDE DEF numbers
  <2>5. numbers \in Seq(Nat) /\ Len(numbers) = n
    BY <2>1, <2>4
  <2> QED
    BY <2>3, <2>5
<1>5. ActivationBytes(t, limit) = Total(numbers)
  BY DEF ActivationBytes
<1> HIDE DEF numbers, e
<1>6. PICK g : IsSums(numbers, n, g) /\ Total(numbers) = g[n]
  BY <1>4, TotalIsSum
<1>7. /\ \A k \in 1 .. n : numbers[k] \in Nat
      /\ \A k \in (a + 1) .. n : numbers[k] = 0
      /\ \A k \in 1 .. a : numbers[k] = t.transfers[k].length /\ k \in 1 .. n
  <2>1. \A k \in (a + 1) .. n : k \in 1 .. n /\ ~(k <= a)
    OBVIOUS
  <2>2. \A k \in 1 .. a : k \in 1 .. n /\ k <= a
    OBVIOUS
  <2> QED
    BY <1>3, <1>4, <2>1, <2>2
<1>8. /\ g[0] = 0 /\ \A k \in 1 .. n : g[k] = g[k - 1] + numbers[k]
      /\ \A k \in 0 .. n : g[k] \in Nat /\ g[k] <= g[n]
      /\ g[n] = g[a]
  BY <1>6, <1>7, SumsOfPrefix
<1>9. g[n] <= MaxTotalBytes /\ n + 4 <= MaxEvents /\ limit < Lifetime(t)
  BY <1>5, <1>6 DEF Renders
<1>10. \A i \in 0 .. a : g[i] \in Nat /\ g[i] <= MaxTotalBytes
  <2> TAKE i \in 0 .. a
  <2>1. i \in 0 .. n /\ n \in 0 .. n
    OBVIOUS
  <2>2. PICK u \in Nat, v \in Nat : u = g[i] /\ v = g[n] /\ u <= v
    BY <1>8, <2>1
  <2> QED
    BY <1>9, <2>2, BoundsAssumption
<1>11. \A k \in 1 .. n : \A x : x = Record(t, t.transfers[k])
          => IsAllowedValue(x.value) /\ x.value.length = t.transfers[k].length
  BY <1>3 DEF Record, IsAllowedValue, TransferIsAllowlisted
<1>12. \A i \in 1 .. a : /\ IsAllowedValue(e[i + 2].value)
                         /\ e[i + 2].value.length = numbers[i]
  <2> TAKE i \in 1 .. a
  <2>1. i \in 1 .. n /\ e[i + 2] = Record(t, t.transfers[i])
    BY <1>1 DEF AreEvents
  <2> QED
    BY <1>7, <1>11, <2>1
<1>13. \A i \in (a + 1) .. n : IsAllowedValue(e[i + 3].value)
  <2> TAKE i \in (a + 1) .. n
  <2>1. i \in 1 .. n /\ e[i + 3] = Record(t, t.transfers[i])
    BY <1>1 DEF AreEvents
  <2> QED
    BY <1>11, <2>1
<1>14. /\ IsMarkerValue(e[1].value, 1) /\ IsMarkerValue(e[2].value, 2)
       /\ IsMarkerValue(e[a + 3].value, 3) /\ IsMarkerValue(e[n + 4].value, 4)
  BY <1>1, MarkerNames DEF AreEvents, Marker, IsMarkerValue
<1>15. \A i \in 1 .. (n + 3) : e[i + 1].time >= e[i].time
  BY <1>1, <1>9, EventsInOrder
<1>16. \A i \in 1 .. a : g[i] = g[i - 1] + e[i + 2].value.length
  BY <1>7, <1>8, <1>12
<1>17. IsScript(e, a, n, g)
  <2>1. n \in Nat /\ a \in Nat /\ a <= n
    OBVIOUS
  <2> QED
    BY <1>8, <1>9, <1>10, <1>12, <1>13, <1>14, <1>15, <1>16, <2>1 DEF IsScript
<1> QED
  BY <1>1, <1>5, <1>6, <1>8, <1>17 DEF e

\* What the parser makes of the envelope of a trial that renders.
LEMMA EnvelopeAccepted ==
  ASSUME NEW t, IsTrial(t), NEW limit \in Nat, Renders(t, limit)
  PROVE  LET judged == Parsed(Envelope(t, limit))
         IN  /\ judged.outcome = "ok" /\ EndOutcome(judged.env) = "ok"
             /\ judged.env.windowTransfers = Cardinality(Activation(t, limit))
             /\ judged.env.windowBytes = ActivationBytes(t, limit)
<1>1. PICK n \in Nat : n = Len(t.transfers)
  BY LenProperties DEF IsTrial, TrialRecords
<1>2. PICK a \in 0 .. n : Activation(t, limit) = 1 .. a
  BY <1>1, ActivationIsPrefix
<1>3. a # 0 /\ Cardinality(Activation(t, limit)) = a
  <2>1. Activation(t, limit) # {}
    BY DEF Renders
  <2> QED
    BY <1>2, <2>1, Interval
<1> DEFINE e == Events(t, limit)
           lines == Envelope(t, limit)
<1>4. /\ AreEvents(t, limit, a, e)
      /\ \E g : IsScript(e, a, n, g) /\ g[a] = ActivationBytes(t, limit)
  BY <1>1, <1>2, TrialIsScript
<1>5. PICK g : IsScript(e, a, n, g) /\ g[a] = ActivationBytes(t, limit)
  BY <1>4
<1>6. DOMAIN e = 1 .. (n + 4) /\ n + 4 \in Nat /\ n + 4 + 4 = n + 8
  BY <1>1, <1>4 DEF AreEvents
<1>7. /\ Len(lines) = n + 8 /\ n + 8 \in Nat
      /\ \A k \in 1 .. 4 : lines[k] = PreambleLines[k]
      /\ \A k \in 1 .. (n + 4) : lines[4 + k] = EventLine(e, k)
  BY <1>6, EnvelopeLines
<1> HIDE DEF e, lines
<1>8. PICK f : IsParse(lines, n + 8, f) /\ Parsed(lines) = f[n + 8]
  BY <1>7, ParsedIsParse
<1>9. PICK env : f[n + 8] = Okay(env) /\ HasRead(env, e, a, n, g, n + 4)
  BY <1>5, <1>7, <1>8, ReadsScript
<1>10. Parsed(lines).outcome = "ok" /\ Parsed(lines).env = env
  BY <1>8, <1>9 DEF Okay
<1>11. /\ env.header /\ env.preamble = Preamble /\ env.expectedMarker = 0
       /\ Len(env.events) = n + 4 /\ n + 4 >= 4
       /\ env.windowTransfers = a /\ env.windowBytes = g[a]
  BY <1>9 DEF HasRead
<1>12. Is(env.events[1], "capture-start") /\ Is(env.events[n + 4], "capture-end")
  <2>1. 1 \in 1 .. (n + 4) /\ n + 4 \in 1 .. (n + 4)
    BY <1>1
  <2>2. env.events[1] = EventLine(e, 1) /\ env.events[n + 4] = EventLine(e, n + 4)
    BY <1>9, <2>1 DEF HasRead
  <2>3. IsMarkerValue(e[1].value, 1) /\ IsMarkerValue(e[n + 4].value, 4)
    BY <1>5 DEF IsScript
  <2> QED
    BY <2>2, <2>3, MarkerNames DEF EventLine, IsMarkerValue, Is
<1>13. EndOutcome(env) = "ok"
  BY <1>3, <1>11, <1>12 DEF EndOutcome
<1> QED
  BY <1>3, <1>5, <1>10, <1>11, <1>13 DEF lines

\* convert() renders no envelope that db_activation_parse() would refuse, and
\* the counts that it prints for a trial are those that the parser arrives at.
THEOREM EnvelopesAlwaysAccepted == ImportSpec => []EnvelopesAreAccepted
<1>1. ImportInv => EnvelopesAreAccepted
  <2> SUFFICES ASSUME ImportInv, stage = "discovered", NEW k \in DOMAIN trials,
                      NEW limit \in {l \in Limits : Renders(trials[k], l)}
               PROVE  LET judged == Parsed(Envelope(trials[k], limit))
                      IN  /\ judged.outcome = "ok" /\ EndOutcome(judged.env) = "ok"
                          /\ judged.env.windowTransfers = Cardinality(Activation(trials[k], limit))
                          /\ judged.env.windowBytes = ActivationBytes(trials[k], limit)
    BY DEF EnvelopesAreAccepted
  <2>1. IsTrial(trials[k])
    BY DEF ImportInv, Found
  <2>2. limit \in Nat /\ Renders(trials[k], limit)
    BY TimesAssumption
  <2> QED
    BY <2>1, <2>2, EnvelopeAccepted
<1> QED
  BY <1>1, InitImportInv, NextImportInv, PTL DEF ImportSpec
=============================================================================
