-------------------------- MODULE StreamHubProofs --------------------------
(***************************************************************************)
(* What the fan-out promises for any listeners, sizes of chunks and bounds:*)
(* the account of a buffer is what its queue holds, and a player hears a   *)
(* playable stream.                                                        *)
(***************************************************************************)
EXTENDS StreamHub, TLAPS, FiniteSetTheorems, WellFoundedInduction

(* A set of numbers has a least one: the intervals up to them are finite   *)
(* sets, which inclusion orders well.                                      *)
LEMMA LeastNumber ==
  ASSUME NEW T \in SUBSET Nat, T # {}
  PROVE  \E i \in T : \A j \in T : i <= j
<1> DEFINE intervals == {1 .. i : i \in T}
<1>1. \A i \in T : IsFiniteSet(1 .. i) /\ 1 .. i \in SUBSET Nat
  BY FS_Interval
<1>2. intervals \subseteq FiniteSubsetsOf(Nat) /\ intervals # {}
  <2>1. \A i \in T : 1 .. i \in FiniteSubsetsOf(Nat)
    BY <1>1, Zenon DEF FiniteSubsetsOf
  <2> QED BY <2>1
<1>3. PICK least \in intervals :
        \A other \in intervals : <<other, least>> \notin StrictSubsetOrdering(Nat)
  <2> HIDE DEF intervals
  <2> QED BY <1>2, FS_StrictSubsetOrderingWellFounded, WFMin
<1>4. PICK i \in T : least = 1 .. i
  OBVIOUS
<1>5. ASSUME NEW j \in T, j < i
      PROVE  FALSE
  <2>1. 1 .. j \subseteq 1 .. i /\ i \in 1 .. i /\ i \notin 1 .. j
    BY <1>5
  <2>2. <<1 .. j, 1 .. i>> \in StrictSubsetOrdering(Nat)
    BY <2>1 DEF StrictSubsetOrdering
  <2> QED BY <1>3, <1>4, <2>2
<1> QED BY <1>5

----------------------------------------------------------------------------
(* f is the running sum of the sizes of the chunks in q.                   *)
Running(cs, q, f) ==
  /\ f \in [0 .. Len(q) -> Int]
  /\ f[0] = 0
  /\ \A i \in 1 .. Len(q) : f[i] = f[i - 1] + cs[q[i]]

(* There is one: a shortest part of q without one would follow on a part   *)
(* that has one.                                                           *)
LEMMA RunningExists ==
  ASSUME NEW cs \in Seq(Nat), NEW q \in Seq(1 .. Len(cs))
  PROVE  \E f \in [0 .. Len(q) -> Nat] : Running(cs, q, f)
<1> DEFINE Upto(m, f) == /\ f \in [0 .. m -> Nat]
                         /\ f[0] = 0
                         /\ \A i \in 1 .. m : f[i] = f[i - 1] + cs[q[i]]
           without == {m \in 0 .. Len(q) : ~\E f : Upto(m, f)}
<1>1. \A i \in 1 .. Len(q) : cs[q[i]] \in Nat
  OBVIOUS
<1>2. SUFFICES ASSUME without # {}
               PROVE  FALSE
  <2>1. ASSUME without = {}
        PROVE  \E f : Upto(Len(q), f)
    <3>1. Len(q) \in 0 .. Len(q)
      OBVIOUS
    <3> QED BY <2>1, <3>1, Zenon
  <2> QED BY <2>1 DEF Running
<1>3. PICK m \in without : \A n \in without : m <= n
  <2>1. without \in SUBSET Nat
    OBVIOUS
  <2> HIDE DEF without
  <2> QED BY <1>2, <2>1, LeastNumber
<1>4. CASE m = 0
  <2>1. Upto(0, [i \in 0 .. 0 |-> 0])
    OBVIOUS
  <2> QED BY <1>3, <1>4, <2>1
<1>5. CASE m # 0
  <2>1. m - 1 \in 0 .. Len(q) /\ m - 1 \notin without
    <3>1. m \in 0 .. Len(q)
      OBVIOUS
    <3> HIDE DEF without
    <3> QED BY <1>3, <1>5, <3>1
  <2>2. PICK f : Upto(m - 1, f)
    BY <2>1
  <2> DEFINE g == [i \in 0 .. m |-> IF i < m THEN f[i] ELSE f[m - 1] + cs[q[m]]]
  <2>3. g \in [0 .. m -> Nat] /\ g[0] = 0
    <3>1. m \in 1 .. Len(q) /\ cs[q[m]] \in Nat
      BY <1>1, <1>3, <1>5
    <3>2. f \in [0 .. m - 1 -> Nat] /\ f[0] = 0 /\ f[m - 1] \in Nat
      BY <2>2, <3>1
    <3> QED BY <3>1, <3>2
  <2>4. ASSUME NEW i \in 1 .. m
        PROVE  g[i] = g[i - 1] + cs[q[i]]
    BY <1>3, <1>5, <2>2
  <2>5. Upto(m, g)
    BY <2>3, <2>4
  <2> QED BY <1>3, <2>5
<1> QED BY <1>4, <1>5

(* The recursion of Bytes has no other solution.                           *)
Sums(cs, q, f) == f = [i \in 0 .. Len(q) |-> IF i = 0 THEN 0 ELSE f[i - 1] + cs[q[i]]]

(* A running sum is determined by its recursion.                           *)
LEMMA SumsUnique ==
  ASSUME NEW cs, NEW q, Len(q) \in Nat, NEW f, NEW g, Sums(cs, q, f), Sums(cs, q, g)
  PROVE  f = g
<1> USE DEF Sums
<1> DEFINE differ == {i \in 0 .. Len(q) : f[i] # g[i]}
<1>1. SUFFICES ASSUME differ # {}
               PROVE  FALSE
  OBVIOUS
<1>2. PICK i \in differ : \A j \in differ : i <= j
  <2>1. differ \in SUBSET Nat
    OBVIOUS
  <2> HIDE DEF differ
  <2> QED BY <1>1, <2>1, LeastNumber
<1>3. i # 0
  OBVIOUS
<1>4. i - 1 \in 0 .. Len(q) /\ i - 1 \notin differ
  <2>1. i \in 0 .. Len(q)
    OBVIOUS
  <2> HIDE DEF differ
  <2> QED BY <1>2, <1>3, <2>1
<1>5. f[i - 1] = g[i - 1]
  BY <1>4
<1>6. f[i] = f[i - 1] + cs[q[i]] /\ g[i] = g[i - 1] + cs[q[i]]
  BY <1>2, <1>3
<1> QED BY <1>2, <1>5, <1>6

(* Bytes is where it ends.                                                 *)
LEMMA BytesAre ==
  ASSUME NEW cs, NEW q, NEW n \in Nat, Len(q) = n, NEW f, Running(cs, q, f)
  PROVE  Bytes(cs, q) = f[n]
<1>1. Sums(cs, q, f)
  BY DEF Running, Sums
<1>2. Sums(cs, q, CHOOSE h : Sums(cs, q, h))
  BY <1>1, Zenon
<1>3. f = CHOOSE h : Sums(cs, q, h)
  BY <1>1, <1>2, SumsUnique, Zenon
<1> QED BY <1>3 DEF Bytes, Sums

(* A queue holds a number of bytes.                                        *)
LEMMA BytesNat ==
  ASSUME NEW cs \in Seq(Nat), NEW q \in Seq(1 .. Len(cs))
  PROVE  Bytes(cs, q) \in Nat
<1>1. PICK f \in [0 .. Len(q) -> Nat] : Running(cs, q, f)
  BY RunningExists
<1>2. Bytes(cs, q) = f[Len(q)]
  BY <1>1, BytesAre
<1> QED BY <1>2

(* An empty queue holds none.                                              *)
LEMMA BytesEmpty ==
  ASSUME NEW cs
  PROVE  Bytes(cs, <<>>) = 0
<1>1. Running(cs, <<>>, [i \in {0} |-> 0])
  BY DEF Running
<1> QED BY <1>1, BytesAre

(* A chunk that is appended adds its size.                                 *)
LEMMA BytesAppend ==
  ASSUME NEW cs \in Seq(Nat), NEW q \in Seq(1 .. Len(cs)), NEW n \in 1 .. Len(cs)
  PROVE  Bytes(cs, Append(q, n)) = Bytes(cs, q) + cs[n]
<1>1. Append(q, n) \in Seq(1 .. Len(cs)) /\ Len(Append(q, n)) = Len(q) + 1
  OBVIOUS
<1>2. PICK f : Running(cs, Append(q, n), f)
  BY <1>1, RunningExists
<1>3. Running(cs, q, [i \in 0 .. Len(q) |-> f[i]])
  BY <1>1, <1>2 DEF Running
<1>4. Bytes(cs, q) = f[Len(q)]
  <2>1. Bytes(cs, q) = [i \in 0 .. Len(q) |-> f[i]][Len(q)]
    BY <1>3, BytesAre
  <2> QED BY <2>1
<1>5. Bytes(cs, Append(q, n)) = f[Len(q) + 1]
  <2>1. Len(q) + 1 \in Nat
    OBVIOUS
  <2> QED BY <1>1, <1>2, <2>1, BytesAre
<1>6. f[Len(q) + 1] = f[Len(q)] + cs[n]
  <2>1. Len(q) + 1 \in 1 .. Len(Append(q, n)) /\ Append(q, n)[Len(q) + 1] = n
    BY <1>1
  <2>2. \A i \in 1 .. Len(Append(q, n)) : f[i] = f[i - 1] + cs[Append(q, n)[i]]
    BY <1>2 DEF Running
  <2>3. f[Len(q) + 1] = f[Len(q) + 1 - 1] + cs[n]
    BY <2>1, <2>2
  <2>4. Len(q) + 1 - 1 = Len(q)
    OBVIOUS
  <2> QED BY <2>3, <2>4
<1> QED BY <1>1, <1>4, <1>5, <1>6

(* A queue holds what is in the part that is dropped and what is in the    *)
(* part that is left.                                                      *)
LEMMA BytesSplit ==
  ASSUME NEW cs \in Seq(Nat), NEW q \in Seq(1 .. Len(cs)), NEW k \in 0 .. Len(q)
  PROVE  Bytes(cs, q) = Bytes(cs, SubSeq(q, 1, k)) + Bytes(cs, SubSeq(q, k + 1, Len(q)))
<1>1. PICK f : Running(cs, q, f)
  BY RunningExists
<1>2. ASSUME NEW i \in 1 .. Len(q)
      PROVE  f[i] = f[i - 1] + cs[q[i]] /\ cs[q[i]] \in Nat
  BY <1>1 DEF Running
<1>3. \A i \in 0 .. Len(q) : f[i] \in Int
  BY <1>1 DEF Running
<1>4. Bytes(cs, SubSeq(q, 1, k)) = f[k]
  <2> DEFINE head == SubSeq(q, 1, k)
             g == [i \in 0 .. k |-> f[i]]
  <2>1. Len(head) = k /\ \A i \in 1 .. k : head[i] = q[i]
    OBVIOUS
  <2>2. g[0] = 0 /\ g \in [0 .. k -> Int] /\ \A i \in 1 .. k : g[i] = g[i - 1] + cs[q[i]]
    BY <1>1, <1>2, <1>3 DEF Running
  <2>3. g[k] = f[k]
    OBVIOUS
  <2> HIDE DEF head, g
  <2>4. Running(cs, head, g)
    BY <2>1, <2>2 DEF Running
  <2>5. Bytes(cs, head) = g[k]
    BY <2>1, <2>4, BytesAre
  <2> QED BY <2>3, <2>5 DEF head
<1>5. Bytes(cs, SubSeq(q, k + 1, Len(q))) = f[Len(q)] - f[k]
  <2> DEFINE m == Len(q) - k
             rest == SubSeq(q, k + 1, Len(q))
             g == [i \in 0 .. m |-> f[k + i] - f[k]]
  <2>1. Len(rest) = m /\ m \in Nat /\ \A i \in 1 .. m : rest[i] = q[k + i]
    OBVIOUS
  <2>2. g \in [0 .. m -> Int]
    <3>1. \A i \in 0 .. m : k + i \in 0 .. Len(q) /\ k \in 0 .. Len(q)
      OBVIOUS
    <3>2. \A i \in 0 .. m : f[k + i] \in Int /\ f[k] \in Int
      BY <1>3, <3>1
    <3>3. \A a, b \in Int : a - b \in Int
      OBVIOUS
    <3>4. \A i \in 0 .. m : f[k + i] - f[k] \in Int
      BY <3>2, <3>3, Zenon
    <3> QED BY <3>4
  <2>3. g[0] = 0
    BY <1>3
  <2>4. ASSUME NEW i \in 1 .. m
        PROVE  g[i] = g[i - 1] + cs[q[k + i]]
    <3>1. k + i \in 1 .. Len(q) /\ k + i - 1 \in 0 .. Len(q)
      OBVIOUS
    <3>2. f[k + i] = f[k + i - 1] + cs[q[k + i]] /\ cs[q[k + i]] \in Nat
      BY <1>2, <3>1
    <3>3. g[i] = f[k + i] - f[k] /\ g[i - 1] = f[k + i - 1] - f[k]
      BY <3>1
    <3>4. f[k] \in Int /\ f[k + i - 1] \in Int
      BY <1>3, <3>1
    <3> HIDE DEF g
    <3>5. \A a, b, c \in Int : \A d \in Nat : a = b + d => a - c = (b - c) + d
      OBVIOUS
    <3>6. f[k + i] - f[k] = (f[k + i - 1] - f[k]) + cs[q[k + i]]
      <4>1. f[k + i] \in Int
        BY <1>3, <3>1
      <4> QED BY <3>2, <3>4, <3>5, <4>1, Zenon
    <3> QED BY <3>3, <3>6, Zenon
  <2>5. g[m] = f[Len(q)] - f[k]
    OBVIOUS
  <2> HIDE DEF m, rest, g
  <2>6. Running(cs, rest, g)
    BY <2>1, <2>2, <2>3, <2>4 DEF Running
  <2> QED BY <2>1, <2>5, <2>6, BytesAre DEF rest
<1>6. Bytes(cs, q) = f[Len(q)]
  BY <1>1, BytesAre
<1> QED BY <1>3, <1>4, <1>5, <1>6

(* A chunk that the encoder makes changes nothing about the others.        *)
LEMMA BytesGrow ==
  ASSUME NEW cs \in Seq(Nat), NEW q \in Seq(1 .. Len(cs)), NEW size \in Nat
  PROVE  Bytes(Append(cs, size), q) = Bytes(cs, q)
<1>1. PICK f : Running(cs, q, f)
  BY RunningExists
<1>2. \A i \in 1 .. Len(q) : Append(cs, size)[q[i]] = cs[q[i]]
  OBVIOUS
<1>3. Running(Append(cs, size), q, f)
  BY <1>1, <1>2 DEF Running
<1> QED BY <1>1, <1>3, BytesAre

----------------------------------------------------------------------------
(* Sums over finite sets.  MapThenSumSet is what a function over the       *)
(* subsets says of the whole set; it takes its elements out one by one, in *)
(* the order in which CHOOSE picks them.                                   *)
Pick(s) == CHOOSE x \in s : TRUE

Totals(f, S, h) ==
  h = [s \in SUBSET S |-> IF s = {} THEN 0 ELSE f[Pick(s)] + h[s \ {Pick(s)}]]

Total(f, S) == (CHOOSE h : Totals(f, S, h))[S]

(* What is picked from a set is in it.                                     *)
LEMMA PickIn ==
  ASSUME NEW S, S # {}
  PROVE  Pick(S) \in S
BY Zenon DEF Pick

(* The community modules' sum is this one.                                 *)
LEMMA SumIsTotal ==
  ASSUME NEW f, NEW S
  PROVE  MapThenSumSet(LAMBDA x : f[x], S) = Total(f, S)
BY DEF MapThenSumSet, MapThenFoldSet, Total, Totals, Pick

(* Of some subsets of a finite set, one holds none of the others.          *)
LEMMA LeastSet ==
  ASSUME NEW S, IsFiniteSet(S), NEW U \in SUBSET (SUBSET S), U # {}
  PROVE  \E T \in U : \A s \in SUBSET T : s # T => s \notin U
<1>1. IsWellFoundedOn(StrictSubsetOrdering(S), SUBSET S)
  BY FS_StrictSubsetOrderingWellFounded, FS_FiniteSubsetsOfFinite
<1>2. PICK T \in U : \A s \in U : <<s, T>> \notin StrictSubsetOrdering(S)
  BY <1>1, WFMin
<1>3. ASSUME NEW s \in SUBSET T, s # T, s \in U
      PROVE  FALSE
  <2>1. <<s, T>> \in StrictSubsetOrdering(S)
    BY <1>3 DEF StrictSubsetOrdering
  <2> QED BY <1>2, <1>3, <2>1
<1> QED BY <1>3

(* The totals of a set's subsets restrict to those of a part of it.        *)
LEMMA TotalsPart ==
  ASSUME NEW f, NEW S, NEW h, Totals(f, S, h), NEW T \in SUBSET S
  PROVE  Totals(f, T, [s \in SUBSET T |-> h[s]])
<1> DEFINE g == [s \in SUBSET T |-> h[s]]
<1>1. ASSUME NEW s \in SUBSET T
      PROVE  g[s] = IF s = {} THEN 0 ELSE f[Pick(s)] + g[s \ {Pick(s)}]
  <2>1. s \in SUBSET S /\ s \ {Pick(s)} \in SUBSET T
    OBVIOUS
  <2>2. h[s] = IF s = {} THEN 0 ELSE f[Pick(s)] + h[s \ {Pick(s)}]
    BY <2>1, Zenon DEF Totals
  <2>3. g[s] = h[s] /\ g[s \ {Pick(s)}] = h[s \ {Pick(s)}]
    BY <2>1
  <2> QED BY <2>2, <2>3
<1>2. g = [s \in SUBSET T |-> IF s = {} THEN 0 ELSE f[Pick(s)] + g[s \ {Pick(s)}]]
  BY <1>1
<1> QED BY <1>2 DEF Totals

(* There is only one way to add up.                                        *)
LEMMA TotalsUnique ==
  ASSUME NEW f, NEW S, IsFiniteSet(S), NEW g, NEW h, Totals(f, S, g), Totals(f, S, h)
  PROVE  g = h
<1> DEFINE differ == {s \in SUBSET S : g[s] # h[s]}
<1>1. ASSUME NEW s \in SUBSET S
      PROVE  /\ g[s] = IF s = {} THEN 0 ELSE f[Pick(s)] + g[s \ {Pick(s)}]
             /\ h[s] = IF s = {} THEN 0 ELSE f[Pick(s)] + h[s \ {Pick(s)}]
  BY Zenon DEF Totals
<1>2. differ = {}
  <2> SUFFICES ASSUME differ # {}
               PROVE  FALSE
    OBVIOUS
  <2>1. PICK T \in differ : \A s \in SUBSET T : s # T => s \notin differ
    <3>1. differ \in SUBSET (SUBSET S)
      OBVIOUS
    <3> HIDE DEF differ
    <3> QED BY <3>1, LeastSet
  <2>2. T \in SUBSET S /\ T # {}
    BY <1>1
  <2>3. Pick(T) \in T
    BY <2>2, PickIn
  <2>4. g[T \ {Pick(T)}] = h[T \ {Pick(T)}]
    BY <2>1, <2>2, <2>3
  <2> QED BY <1>1, <2>2, <2>4
<1>3. g = [s \in SUBSET S |-> g[s]] /\ h = [s \in SUBSET S |-> h[s]]
  BY DEF Totals
<1>4. \A s \in SUBSET S : g[s] = h[s]
  BY <1>2
<1> QED BY <1>3, <1>4, Zenon

(* There is one: what is known of the smaller sets makes one for a least   *)
(* set without.                                                            *)
LEMMA TotalsExist ==
  ASSUME NEW f, NEW S, IsFiniteSet(S)
  PROVE  \E h : Totals(f, S, h)
<1> DEFINE without == {s \in SUBSET S : \A h : ~Totals(f, s, h)}
<1> SUFFICES ASSUME without # {}
             PROVE  FALSE
  OBVIOUS
<1>1. PICK T \in without : \A s \in SUBSET T : s # T => s \notin without
  <2>1. without \in SUBSET (SUBSET S)
    OBVIOUS
  <2> HIDE DEF without
  <2> QED BY <2>1, LeastSet
<1>2. T \in SUBSET S /\ \A h : ~Totals(f, T, h)
  BY Zenon
<1>3. ASSUME NEW s \in SUBSET T, s # T
      PROVE  Totals(f, s, CHOOSE h : Totals(f, s, h)) /\ IsFiniteSet(s)
  <2>1. s \notin without /\ s \in SUBSET S
    BY <1>1, <1>2, <1>3
  <2>2. \E h : Totals(f, s, h)
    BY <2>1, Zenon
  <2> QED BY <2>1, <2>2, FS_Subset, Zenon
<1>4. ASSUME NEW s \in SUBSET T, s # T, s # {}
      PROVE  Total(f, s) = f[Pick(s)] + Total(f, s \ {Pick(s)})
  <2> DEFINE h == CHOOSE k : Totals(f, s, k)
             r == s \ {Pick(s)}
  <2>1. Totals(f, s, h) /\ IsFiniteSet(s)
    BY <1>3, <1>4
  <2>2. Pick(s) \in s
    BY <1>4, PickIn
  <2>3. r \in SUBSET T /\ r # T /\ r \in SUBSET s
    BY <1>4, <2>2
  <2>4. Totals(f, r, CHOOSE k : Totals(f, r, k)) /\ IsFiniteSet(r)
    BY <1>3, <2>3
  <2>5. Totals(f, r, [q \in SUBSET r |-> h[q]])
    BY <2>1, <2>3, TotalsPart
  <2>6. (CHOOSE k : Totals(f, r, k)) = [q \in SUBSET r |-> h[q]]
    BY <2>4, <2>5, TotalsUnique
  <2>7. Total(f, r) = h[r]
    BY <2>6 DEF Total
  <2>8. Total(f, s) = h[s]
    BY DEF Total
  <2>9. h[s] = f[Pick(s)] + h[r]
    <3> HIDE DEF h
    <3> QED BY <1>4, <2>1 DEF Totals
  <2> QED BY <2>7, <2>8, <2>9
<1>5. ASSUME {} # T
      PROVE  Total(f, {}) = 0
  <2>1. Totals(f, {}, CHOOSE h : Totals(f, {}, h))
    BY <1>3, <1>5
  <2> DEFINE h == CHOOSE k : Totals(f, {}, k)
  <2>2. Total(f, {}) = h[{}] /\ Totals(f, {}, h)
    BY <2>1 DEF Total
  <2> HIDE DEF h
  <2>3. h[{}] = 0
    BY <2>2 DEF Totals
  <2> QED BY <2>2, <2>3
<1> DEFINE value(s) == IF s = {} THEN 0
                       ELSE IF s = T THEN f[Pick(s)] + Total(f, s \ {Pick(s)})
                       ELSE Total(f, s)
           g == [s \in SUBSET T |-> value(s)]
<1>6. ASSUME NEW s \in SUBSET T
      PROVE  g[s] = IF s = {} THEN 0 ELSE f[Pick(s)] + g[s \ {Pick(s)}]
  <2>1. CASE s = {}
    BY <2>1
  <2>2. CASE s # {}
    <3> DEFINE r == s \ {Pick(s)}
    <3>1. Pick(s) \in s
      BY <2>2, PickIn
    <3>2. r \in SUBSET T /\ r # T
      BY <3>1
    <3>3. g[r] = Total(f, r)
      BY <1>5, <3>2
    <3>4. g[s] = f[Pick(s)] + Total(f, r)
      BY <1>4, <2>2
    <3> QED BY <2>2, <3>3, <3>4
  <2> QED BY <2>1, <2>2
<1>7. Totals(f, T, g)
  <2> HIDE DEF value
  <2>1. g = [s \in SUBSET T |-> g[s]]
    OBVIOUS
  <2> HIDE DEF g
  <2>2. g = [s \in SUBSET T |-> IF s = {} THEN 0 ELSE f[Pick(s)] + g[s \ {Pick(s)}]]
    BY <1>6, <2>1
  <2> QED BY <2>2 DEF Totals
<1> QED BY <1>2, <1>7

(* The sum is that of one element and of the others.                       *)
LEMMA TotalStep ==
  ASSUME NEW f, NEW S, IsFiniteSet(S)
  PROVE  Total(f, S) = IF S = {} THEN 0 ELSE f[Pick(S)] + Total(f, S \ {Pick(S)})
<1> DEFINE h == CHOOSE k : Totals(f, S, k)
           r == S \ {Pick(S)}
<1>1. Totals(f, S, h)
  BY TotalsExist
<1>2. r \in SUBSET S /\ IsFiniteSet(r)
  BY FS_Subset
<1>3. Totals(f, r, CHOOSE k : Totals(f, r, k))
  BY <1>2, TotalsExist
<1>4. Totals(f, r, [q \in SUBSET r |-> h[q]])
  BY <1>1, <1>2, TotalsPart
<1>5. (CHOOSE k : Totals(f, r, k)) = [q \in SUBSET r |-> h[q]]
  BY <1>2, <1>3, <1>4, TotalsUnique
<1>6. Total(f, r) = h[r]
  BY <1>5 DEF Total
<1>7. Total(f, S) = h[S]
  BY DEF Total
<1>8. h[S] = IF S = {} THEN 0 ELSE f[Pick(S)] + h[r]
  <2> HIDE DEF h
  <2> QED BY <1>1 DEF Totals
<1> QED BY <1>6, <1>7, <1>8

(* A sum of integers is an integer.                                        *)
LEMMA TotalInt ==
  ASSUME NEW S, IsFiniteSet(S), NEW f, \A x \in S : f[x] \in Int
  PROVE  \A T \in SUBSET S : Total(f, T) \in Int
<1> DEFINE bad == {T \in SUBSET S : Total(f, T) \notin Int}
<1> SUFFICES ASSUME bad # {}
             PROVE  FALSE
  OBVIOUS
<1>1. PICK T \in bad : \A s \in SUBSET T : s # T => s \notin bad
  <2>1. bad \in SUBSET (SUBSET S)
    OBVIOUS
  <2> HIDE DEF bad
  <2> QED BY <2>1, LeastSet
<1>2. T \in SUBSET S /\ IsFiniteSet(T) /\ Total(f, T) \notin Int
  BY FS_Subset
<1>3. Total(f, T) = IF T = {} THEN 0 ELSE f[Pick(T)] + Total(f, T \ {Pick(T)})
  BY <1>2, TotalStep
<1>4. T # {} => Pick(T) \in T
  BY PickIn
<1>5. T # {} => f[Pick(T)] \in Int /\ Total(f, T \ {Pick(T)}) \in Int
  BY <1>1, <1>2, <1>4
<1> QED BY <1>2, <1>3, <1>5

(* The order does not matter: any element can be the one to take out.      *)
LEMMA TotalTakesOut ==
  ASSUME NEW S, IsFiniteSet(S), NEW f, \A x \in S : f[x] \in Int
  PROVE  \A T \in SUBSET S : \A x \in T : Total(f, T) = f[x] + Total(f, T \ {x})
<1> DEFINE bad == {T \in SUBSET S : \E x \in T : Total(f, T) # f[x] + Total(f, T \ {x})}
<1> SUFFICES ASSUME bad # {}
             PROVE  FALSE
  OBVIOUS
<1>1. PICK T \in bad : \A s \in SUBSET T : s # T => s \notin bad
  <2>1. bad \in SUBSET (SUBSET S)
    OBVIOUS
  <2> HIDE DEF bad
  <2> QED BY <2>1, LeastSet
<1>2. T \in SUBSET S /\ IsFiniteSet(T)
  BY FS_Subset
<1>3. PICK x \in T : Total(f, T) # f[x] + Total(f, T \ {x})
  OBVIOUS
<1> DEFINE p == Pick(T)
<1>4. p \in T
  BY <1>3, PickIn
<1>5. Total(f, T) = f[p] + Total(f, T \ {p})
  BY <1>2, <1>3, TotalStep
<1>6. p # x
  BY <1>3, <1>5
<1>7. T \ {p} \in SUBSET T /\ T \ {p} # T /\ T \ {x} \in SUBSET T /\ T \ {x} # T
  BY <1>4
<1>8. T \ {p} \notin bad /\ T \ {x} \notin bad
  <2> HIDE DEF bad, p
  <2> QED BY <1>1, <1>7
<1> HIDE DEF p
<1>9. Total(f, T \ {p}) = f[x] + Total(f, (T \ {p}) \ {x})
  BY <1>2, <1>6, <1>8
<1>10. Total(f, T \ {x}) = f[p] + Total(f, (T \ {x}) \ {p})
  BY <1>2, <1>4, <1>6, <1>8
<1>11. (T \ {p}) \ {x} = (T \ {x}) \ {p}
  OBVIOUS
<1>12. f[p] \in Int /\ f[x] \in Int /\ Total(f, (T \ {x}) \ {p}) \in Int
  <2>1. (T \ {x}) \ {p} \in SUBSET S
    BY <1>2
  <2> QED BY <1>2, <1>4, <2>1, TotalInt
<1>13. \A a, b, c \in Int : a + (b + c) = b + (a + c)
  OBVIOUS
<1>14. f[p] + (f[x] + Total(f, (T \ {x}) \ {p})) = f[x] + (f[p] + Total(f, (T \ {x}) \ {p}))
  BY <1>12, <1>13, Zenon
<1> QED BY <1>3, <1>5, <1>9, <1>10, <1>11, <1>14, Zenon

(* What is added to the terms is added to the sum; and so an empty one is  *)
(* none, and larger terms make a larger sum.                               *)
LEMMA TotalAdds ==
  ASSUME NEW S, IsFiniteSet(S), NEW f, NEW d, NEW g,
         \A x \in S : f[x] \in Int /\ d[x] \in Int /\ g[x] = f[x] + d[x]
  PROVE  Total(g, S) = Total(f, S) + Total(d, S)
<1> DEFINE bad == {T \in SUBSET S : Total(g, T) # Total(f, T) + Total(d, T)}
<1> SUFFICES ASSUME bad # {}
             PROVE  FALSE
  OBVIOUS
<1>1. PICK T \in bad : \A s \in SUBSET T : s # T => s \notin bad
  <2>1. bad \in SUBSET (SUBSET S)
    OBVIOUS
  <2> HIDE DEF bad
  <2> QED BY <2>1, LeastSet
<1>2. T \in SUBSET S /\ IsFiniteSet(T) /\ Total(g, T) # Total(f, T) + Total(d, T)
  BY FS_Subset
<1> DEFINE p == Pick(T)
           r == T \ {p}
<1>3. /\ Total(g, T) = IF T = {} THEN 0 ELSE g[p] + Total(g, r)
      /\ Total(f, T) = IF T = {} THEN 0 ELSE f[p] + Total(f, r)
      /\ Total(d, T) = IF T = {} THEN 0 ELSE d[p] + Total(d, r)
  BY <1>2, TotalStep
<1>4. T # {}
  BY <1>2, <1>3
<1>5. p \in T
  BY <1>4, PickIn
<1>6. Total(g, r) = Total(f, r) + Total(d, r)
  <2>1. r \in SUBSET T /\ r # T /\ r \in SUBSET S
    BY <1>2, <1>5
  <2> QED BY <1>1, <2>1
<1>7. f[p] \in Int /\ d[p] \in Int /\ g[p] = f[p] + d[p]
  BY <1>2, <1>5
<1>8. Total(f, r) \in Int /\ Total(d, r) \in Int
  <2>1. r \in SUBSET S
    BY <1>2
  <2>2. \A x \in S : f[x] \in Int
    OBVIOUS
  <2>3. \A x \in S : d[x] \in Int
    OBVIOUS
  <2> HIDE DEF r
  <2> QED BY <2>1, <2>2, <2>3, TotalInt
<1> HIDE DEF p, r, bad
<1> QED BY <1>2, <1>3, <1>4, <1>6, <1>7, <1>8

(* A sum of natural numbers is a natural number.                           *)
LEMMA TotalNat ==
  ASSUME NEW S, IsFiniteSet(S), NEW f, \A x \in S : f[x] \in Nat
  PROVE  Total(f, S) \in Nat
<1> DEFINE bad == {T \in SUBSET S : Total(f, T) \notin Nat}
<1> SUFFICES ASSUME bad # {}
             PROVE  FALSE
  <2>1. bad = {} => Total(f, S) \in Nat
    OBVIOUS
  <2> QED BY <2>1
<1>1. PICK T \in bad : \A s \in SUBSET T : s # T => s \notin bad
  <2>1. bad \in SUBSET (SUBSET S)
    OBVIOUS
  <2> HIDE DEF bad
  <2> QED BY <2>1, LeastSet
<1>2. T \in SUBSET S /\ IsFiniteSet(T) /\ Total(f, T) \notin Nat
  BY FS_Subset
<1>3. Total(f, T) = IF T = {} THEN 0 ELSE f[Pick(T)] + Total(f, T \ {Pick(T)})
  BY <1>2, TotalStep
<1>4. T # {} => Pick(T) \in T
  BY PickIn
<1>5. T # {} => f[Pick(T)] \in Nat /\ Total(f, T \ {Pick(T)}) \in Nat
  BY <1>1, <1>2, <1>4
<1> QED BY <1>2, <1>3, <1>5

(* Smaller terms have the smaller sum.                                     *)
LEMMA TotalAtMost ==
  ASSUME NEW S, IsFiniteSet(S), NEW f, NEW g,
         \A x \in S : f[x] \in Int /\ g[x] \in Int /\ f[x] <= g[x]
  PROVE  Total(f, S) <= Total(g, S)
<1> DEFINE d == [x \in S |-> g[x] - f[x]]
<1>1. \A x \in S : f[x] \in Int /\ d[x] \in Int /\ g[x] = f[x] + d[x]
  OBVIOUS
<1>2. \A x \in S : d[x] \in Nat
  OBVIOUS
<1> HIDE DEF d
<1>3. Total(g, S) = Total(f, S) + Total(d, S)
  BY <1>1, TotalAdds
<1>4. Total(d, S) \in Nat
  BY <1>2, TotalNat
<1>5. Total(f, S) \in Int
  BY TotalInt
<1> QED BY <1>3, <1>4, <1>5

(* Nothing is added outside of a part.                                     *)
LEMMA TotalOfPart ==
  ASSUME NEW S, IsFiniteSet(S), NEW A \in SUBSET S, NEW f, NEW g,
         \A x \in S : g[x] \in Int /\ g[x] = (IF x \in A THEN f[x] ELSE 0)
  PROVE  Total(g, S) = Total(f, A)
<1> DEFINE bad == {T \in SUBSET S : Total(g, T) # Total(f, T \cap A)}
<1> SUFFICES ASSUME bad # {}
             PROVE  FALSE
  <2>1. S \cap A = A
    OBVIOUS
  <2>2. bad = {} => Total(g, S) = Total(f, S \cap A)
    OBVIOUS
  <2> QED BY <2>1, <2>2
<1>1. PICK T \in bad : \A s \in SUBSET T : s # T => s \notin bad
  <2>1. bad \in SUBSET (SUBSET S)
    OBVIOUS
  <2> HIDE DEF bad
  <2> QED BY <2>1, LeastSet
<1>2. T \in SUBSET S /\ IsFiniteSet(T) /\ IsFiniteSet(A) /\ Total(g, T) # Total(f, T \cap A)
  BY FS_Subset
<1> DEFINE p == Pick(T)
           r == T \ {p}
<1>3. Total(g, T) = IF T = {} THEN 0 ELSE g[p] + Total(g, r)
  BY <1>2, TotalStep
<1>4. T # {}
  <2>1. SUFFICES ASSUME T = {}
                 PROVE  FALSE
    OBVIOUS
  <2>2. T \cap A = {} /\ IsFiniteSet({})
    BY <1>2, <2>1
  <2>3. Total(f, {}) = 0
    BY <2>2, TotalStep
  <2> QED BY <1>2, <1>3, <2>1, <2>2, <2>3
<1>5. p \in T
  BY <1>4, PickIn
<1>6. Total(g, r) = Total(f, r \cap A) /\ Total(g, r) \in Int
  <2>1. r \in SUBSET T /\ r # T /\ r \in SUBSET S
    BY <1>2, <1>5
  <2>2. Total(g, r) \in Int
    <3> HIDE DEF r
    <3> QED BY <2>1, TotalInt
  <2> QED BY <1>1, <2>1, <2>2
<1>7. CASE p \in A
  <2>1. \A x \in A : f[x] \in Int
    OBVIOUS
  <2>2. T \cap A \in SUBSET A /\ p \in T \cap A
    BY <1>5, <1>7
  <2>3. Total(f, T \cap A) = f[p] + Total(f, (T \cap A) \ {p})
    <3> HIDE DEF p
    <3> QED BY <1>2, <2>1, <2>2, TotalTakesOut
  <2>4. (T \cap A) \ {p} = r \cap A
    OBVIOUS
  <2>5. g[p] = f[p]
    BY <1>2, <1>5, <1>7
  <2> HIDE DEF p, r, bad
  <2> QED BY <1>2, <1>3, <1>4, <1>6, <2>3, <2>4, <2>5
<1>8. CASE p \notin A
  <2>1. T \cap A = r \cap A
    BY <1>8
  <2>2. g[p] = 0
    BY <1>2, <1>5, <1>8
  <2> HIDE DEF p, r, bad
  <2> QED BY <1>2, <1>3, <1>4, <1>6, <2>1, <2>2
<1> QED BY <1>7, <1>8

----------------------------------------------------------------------------
(* The inductive invariant, listener by listener.  A queue always ends with*)
(* the last chunk that was made, so its length says which chunks it has,   *)
(* and how far its player is behind.                                       *)
Latest(q) ==
  /\ q \in Seq(Nat) /\ Len(q) <= Len(chunks)
  /\ \A i \in 1 .. Len(q) : q[i] = Len(chunks) - Len(q) + i

Playable(s) ==
  /\ s # <<>> => s[1].cut \/ Aligned(s[1].chunk)
  /\ \A i \in 2 .. Len(s) :
       \/ s[i].chunk = s[i - 1].chunk + 1 /\ ~s[i].cut
       \/ s[i].chunk > s[i - 1].chunk + 1 /\ s[i].cut

(* The number of the chunk that comes next, and of the last that was sent. *)
Due(l) == Len(chunks) - Len(queue[l]) + 1
Heard(l) == IF sent[l] = <<>> THEN 0 ELSE sent[l][Len(sent[l])].chunk

(* A gap is due exactly when the mark to realign is set.                   *)
InStep(l) == IF l \in realign THEN Due(l) > Heard(l) + 1 ELSE Due(l) = Heard(l) + 1

Accounted(l) ==
  /\ buffered[l] = Bytes(chunks, queue[l])
  /\ buffered[l] <= MaxBuffer \/ Len(queue[l]) = 1

Serving(l) ==
  /\ conn[l] \in {"burst", "waiting", "writing"}
  /\ InStep(l) /\ Accounted(l)

Absent(l) ==
  /\ conn[l] \in {"closed", "request"}
  /\ sent[l] = <<>> /\ queue[l] = <<>> /\ buffered[l] = 0

Player(l) ==
  /\ Latest(queue[l])
  /\ \A i \in 1 .. Len(sent[l]) : sent[l][i].chunk \in 1 .. Len(chunks)
  /\ Playable(sent[l])
  /\ IF l \in attached THEN Serving(l) ELSE Absent(l)

Pieces == [chunk : Nat, cut : BOOLEAN]

(* A sync word is never far, and the preroll holds what it can.            *)
Synced ==
  /\ \A n \in unsynced :
       /\ n \in 2 .. Len(chunks)
       /\ \E i \in 1 .. MaxUnsynced : n - i >= 1 /\ n - i \notin unsynced
  /\ Len(preroll) = Len(chunks) \/ Len(preroll) >= PrerollChunks

Shape ==
  /\ chunks \in Seq(Sizes) /\ Len(chunks) <= MaxChunks
  /\ Latest(preroll) /\ Synced
  /\ attached \subseteq Listeners /\ realign \subseteq attached
  /\ queue \in [Listeners -> Seq(Nat)]
  /\ buffered \in [Listeners -> Int]
  /\ discarded \in Nat
  /\ conn \in [Listeners -> {"closed", "request", "burst", "waiting", "writing"}]
  /\ client \in [Listeners -> {"listening", "spoke", "gone"}]
  /\ sent \in [Listeners -> Seq(Pieces)]

HubInv == Shape /\ \A l \in Listeners : Player(l)

(* There is no listener to begin with.                                     *)
LEMMA HubInit == Init => HubInv
<1> SUFFICES ASSUME Init
             PROVE  HubInv
  OBVIOUS
<1> USE DEF Init
<1>1. Shape
  BY HubAssumption DEF Shape, Latest, Synced
<1>2. ASSUME NEW l \in Listeners
      PROVE  Player(l)
  BY DEF Player, Latest, Playable, Absent
<1> QED BY <1>1, <1>2 DEF HubInv

(* What concerns one listener does not concern another.                    *)
LEMMA OthersKeep ==
  ASSUME HubInv, UNCHANGED chunks, NEW l \in Listeners,
         l \in attached' <=> l \in attached, l \in realign' <=> l \in realign,
         queue'[l] = queue[l], buffered'[l] = buffered[l], conn'[l] = conn[l],
         sent'[l] = sent[l]
  PROVE  Player(l)'
BY DEF HubInv, Player, Latest, Serving, Absent, InStep, Due, Heard, Accounted

(* The sizes of chunks are natural numbers.                                *)
LEMMA SizesAreNat ==
  ASSUME NEW cs \in Seq(Sizes)
  PROVE  cs \in Seq(Nat)
<1>1. Sizes \subseteq Nat
  BY HubAssumption
<1>2. Len(cs) \in Nat /\ cs \in [1 .. Len(cs) -> Sizes]
  OBVIOUS
<1>3. cs \in [1 .. Len(cs) -> Nat]
  BY <1>1, <1>2
<1> QED BY <1>2, <1>3

(* A queue holds chunks that were made.                                    *)
LEMMA LatestInRange ==
  ASSUME NEW q, chunks \in Seq(Sizes), Latest(q)
  PROVE  q \in Seq(1 .. Len(chunks))
BY DEF Latest

(* What publish() drops of a queue that is not empty: not the last chunk,  *)
(* and no less than the bound demands.                                     *)
LEMMA OverflowFits ==
  ASSUME NEW total, NEW q \in Seq(Nat), q # <<>>, NEW cs
  PROVE  LET k == Overflow(total, q, cs) IN
         /\ k \in 0 .. Len(q) - 1
         /\ total - Bytes(cs, SubSeq(q, 1, k)) <= MaxBuffer \/ k = Len(q) - 1
<1> DEFINE fit == {k \in 0 .. Len(q) - 1 :
                     total - Bytes(cs, SubSeq(q, 1, k)) <= MaxBuffer \/ k = Len(q) - 1}
<1>1. Len(q) - 1 \in fit
  OBVIOUS
<1>2. fit \in SUBSET Nat
  OBVIOUS
<1>3. PICK least \in fit : \A k \in fit : least <= k
  <2> HIDE DEF fit
  <2> QED BY <1>1, <1>2, LeastNumber
<1>4. Min(fit) \in fit
  <2> HIDE DEF fit
  <2> QED BY <1>3, Zenon DEF Min
<1> QED BY <1>4 DEF Overflow

(* Another chunk after the latest.                                         *)
LEMMA LatestAppend ==
  ASSUME NEW q \in Seq(Nat), NEW c \in Nat, NEW n \in Nat, Len(q) = n, n <= c,
         \A i \in 1 .. n : q[i] = c - n + i
  PROVE  /\ Append(q, c + 1) \in Seq(1 .. c + 1)
         /\ Append(q, c + 1) \in Seq(Nat)
         /\ Len(Append(q, c + 1)) = n + 1
         /\ \A i \in 1 .. n + 1 : Append(q, c + 1)[i] = c - n + i
<1>1. Len(Append(q, c + 1)) = n + 1 /\ Append(q, c + 1) \in Seq(Nat)
  OBVIOUS
<1>2. \A i \in 1 .. n + 1 : Append(q, c + 1)[i] = c - n + i
  <2> TAKE i \in 1 .. n + 1
  <2>1. CASE i = n + 1
    BY <2>1
  <2>2. CASE i # n + 1
    BY <2>2
  <2> QED BY <2>1, <2>2
<1>3. \A i \in 1 .. n + 1 : Append(q, c + 1)[i] \in 1 .. c + 1
  BY <1>2
<1> QED BY <1>1, <1>2, <1>3

(* A queue cut in two.                                                     *)
LEMMA SubSeqParts ==
  ASSUME NEW S, NEW q \in Seq(S), NEW n \in Nat, Len(q) = n, NEW k \in 0 .. n
  PROVE  /\ SubSeq(q, 1, k) \in Seq(S)
         /\ SubSeq(q, k + 1, n) \in Seq(S) /\ Len(SubSeq(q, k + 1, n)) = n - k
         /\ \A i \in 1 .. n - k : SubSeq(q, k + 1, n)[i] = q[k + i]
OBVIOUS

(* The first of a queue, and the others.                                   *)
LEMMA HeadAndTail ==
  ASSUME NEW S, NEW q \in Seq(S), NEW n \in Nat, Len(q) = n, n > 0
  PROVE  /\ Head(q) = q[1] /\ Head(q) \in S /\ Append(<<>>, Head(q)) = SubSeq(q, 1, 1)
         /\ Tail(q) \in Seq(S) /\ Len(Tail(q)) = n - 1
         /\ \A i \in 1 .. n - 1 : Tail(q)[i] = q[i + 1]
         /\ Tail(q) = SubSeq(q, 2, n)
<1>1. Head(q) = q[1] /\ Head(q) \in S
  OBVIOUS
<1>2. Tail(q) \in Seq(S) /\ Len(Tail(q)) = n - 1
  OBVIOUS
<1>3. \A i \in 1 .. n - 1 : Tail(q)[i] = q[i + 1]
  OBVIOUS
<1>4. Append(<<>>, Head(q)) = SubSeq(q, 1, 1)
  OBVIOUS
<1>5. Tail(q) = SubSeq(q, 2, n)
  OBVIOUS
<1> QED BY <1>1, <1>2, <1>3, <1>4, <1>5

(* publish() for one listener that is attached.                            *)
Drops(l, size) ==
  Overflow(buffered[l] + size, Append(queue[l], Len(chunks) + 1), Append(chunks, size))

Published(l, size) ==
  LET extended == Append(queue[l], Len(chunks) + 1)
      k == Drops(l, size)
  IN /\ chunks' = Append(chunks, size)
     /\ queue'[l] = SubSeq(extended, k + 1, Len(extended))
     /\ buffered'[l] = (buffered[l] + size) - Bytes(Append(chunks, size), SubSeq(extended, 1, k))
     /\ (l \in realign') <=> (l \in realign \/ k > 0)
     /\ l \in attached' /\ conn'[l] = conn[l] /\ sent'[l] = sent[l]

(* publish(), for one listener: what it drops is what its player misses.   *)
LEMMA PublishedOne ==
  ASSUME HubInv, NEW l \in attached, NEW size \in Sizes, Published(l, size)
  PROVE  /\ Player(l)' /\ queue'[l] \in Seq(Nat) /\ buffered'[l] \in Int
         /\ Drops(l, size) \in Nat /\ Due(l)' = Due(l) + Drops(l, size)
<1> DEFINE c == Len(chunks)
           n == Len(queue[l])
           cs == Append(chunks, size)
           extended == Append(queue[l], c + 1)
           total == buffered[l] + size
           k == Overflow(total, extended, cs)
           head == SubSeq(extended, 1, k)
           left == SubSeq(extended, k + 1, n + 1)
<1>1. /\ l \in Listeners /\ chunks \in Seq(Sizes) /\ queue[l] \in Seq(Nat)
      /\ sent[l] \in Seq(Pieces) /\ Player(l)
  BY DEF HubInv, Shape
<1>2. size \in Nat /\ chunks \in Seq(Nat) /\ c \in Nat
  BY <1>1, SizesAreNat, HubAssumption
<1>3. cs \in Seq(Nat) /\ Len(cs) = c + 1 /\ cs[c + 1] = size
  BY <1>2
<1>4. /\ Latest(queue[l]) /\ Serving(l) /\ Playable(sent[l])
      /\ \A i \in 1 .. Len(sent[l]) : sent[l][i].chunk \in 1 .. c
  BY <1>1 DEF Player
<1>5. n \in Nat /\ n <= c /\ \A i \in 1 .. n : queue[l][i] = c - n + i
  <2>1. n \in Nat
    BY <1>1
  <2>2. Len(queue[l]) <= Len(chunks)
        /\ \A i \in 1 .. Len(queue[l]) : queue[l][i] = Len(chunks) - Len(queue[l]) + i
    BY <1>4 DEF Latest
  <2> QED BY <2>1, <2>2
<1>6. /\ extended \in Seq(1 .. c + 1) /\ extended \in Seq(Nat) /\ Len(extended) = n + 1
      /\ \A i \in 1 .. n + 1 : extended[i] = c - n + i
  <2> HIDE DEF c, n
  <2> QED BY <1>1, <1>2, <1>5, LatestAppend DEF n
<1>7. /\ k \in 0 .. n
      /\ total - Bytes(cs, head) <= MaxBuffer \/ k = n
  <2>1. extended # <<>>
    BY <1>5, <1>6
  <2>2. /\ k \in 0 .. Len(extended) - 1
        /\ total - Bytes(cs, head) <= MaxBuffer \/ k = Len(extended) - 1
    <3> HIDE DEF extended, total, cs
    <3> QED BY <1>6, <2>1, OverflowFits
  <2>3. Len(extended) - 1 = n
    BY <1>5, <1>6
  <2> QED BY <2>2, <2>3
<1>8. total = Bytes(cs, extended)
  <2>1. queue[l] \in Seq(1 .. Len(chunks)) /\ queue[l] \in Seq(1 .. c + 1)
    <3>1. queue[l] \in Seq(1 .. c)
      BY <1>1, <1>4, LatestInRange
    <3> QED BY <1>2, <3>1
  <2>2. buffered[l] = Bytes(chunks, queue[l])
    BY <1>4 DEF Serving, Accounted
  <2>3. Bytes(cs, queue[l]) = Bytes(chunks, queue[l])
    BY <1>2, <2>1, BytesGrow
  <2>4. Bytes(cs, extended) = Bytes(cs, queue[l]) + cs[c + 1]
    <3>1. queue[l] \in Seq(1 .. Len(cs)) /\ c + 1 \in 1 .. Len(cs)
      BY <1>2, <1>3, <2>1
    <3> HIDE DEF cs
    <3> QED BY <1>3, <3>1, BytesAppend
  <2> QED BY <1>3, <2>2, <2>3, <2>4
<1> HIDE DEF c, n, cs, extended, total, k
<1>9. /\ head \in Seq(1 .. c + 1) /\ left \in Seq(1 .. c + 1) /\ left \in Seq(Nat)
      /\ Len(left) = (n + 1) - k /\ \A i \in 1 .. ((n + 1) - k) : left[i] = extended[k + i]
  <2>1. n + 1 \in Nat /\ k \in 0 .. n + 1
    BY <1>5, <1>7
  <2> DEFINE m == n + 1  s == SubSeq(extended, 1, k)  r == SubSeq(extended, k + 1, m)
  <2>2. m \in Nat /\ k \in 0 .. m /\ Len(extended) = m
    BY <1>6, <2>1
  <2> HIDE DEF m
  <2>3. /\ s \in Seq(1 .. c + 1) /\ r \in Seq(1 .. c + 1)
        /\ Len(r) = m - k /\ \A i \in 1 .. m - k : r[i] = extended[k + i]
    <3>1. extended \in Seq(1 .. c + 1)
      BY <1>6
    <3>2. s \in Seq(1 .. c + 1) /\ r \in Seq(1 .. c + 1)
      BY <2>2, <3>1, SubSeqParts, Zenon
    <3>3. Len(r) = m - k /\ \A i \in 1 .. m - k : r[i] = extended[k + i]
      BY <2>2, <3>1, SubSeqParts, Zenon
    <3> QED BY <3>2, <3>3
  <2>4. r \in Seq(Nat)
    BY <1>6, <2>2, SubSeqParts, Zenon
  <2> HIDE DEF s, r
  <2>5. s = head /\ r = left
    BY DEF s, r, m
  <2> HIDE DEF head, left
  <2> QED BY <2>3, <2>4, <2>5 DEF m
<1>10. total - Bytes(cs, head) = Bytes(cs, left)
  <2>1. Bytes(cs, extended) = Bytes(cs, head) + Bytes(cs, left)
    <3>1. extended \in Seq(1 .. Len(cs)) /\ k \in 0 .. Len(extended)
      BY <1>3, <1>5, <1>6, <1>7
    <3> QED BY <1>3, <1>6, <3>1, BytesSplit
  <2>2. Bytes(cs, head) \in Nat /\ Bytes(cs, left) \in Nat
    <3>1. head \in Seq(1 .. Len(cs)) /\ left \in Seq(1 .. Len(cs))
      BY <1>3, <1>9
    <3> HIDE DEF head, left
    <3> QED BY <1>3, <3>1, BytesNat
  <2> HIDE DEF head, left
  <2> QED BY <1>8, <2>1, <2>2
<1>11. /\ chunks' = cs /\ queue'[l] = left /\ buffered'[l] = total - Bytes(cs, head)
       /\ (l \in realign') <=> (l \in realign \/ k > 0)
       /\ l \in attached' /\ conn'[l] = conn[l] /\ sent'[l] = sent[l]
  <2>1. chunks' = cs /\ buffered'[l] = total - Bytes(cs, head)
    BY Zenon DEF Published, Drops, c, cs, extended, total, k
  <2>2. queue'[l] = left
    <3>1. queue'[l] = SubSeq(extended, k + 1, Len(extended))
      BY DEF Published, Drops, c, cs, extended, total, k
    <3> QED BY <1>6, <3>1
  <2>3. (l \in realign') <=> (l \in realign \/ k > 0)
    BY DEF Published, Drops, c, cs, extended, total, k
  <2> QED BY <2>1, <2>2, <2>3 DEF Published
<1>12. buffered'[l] \in Int
  <2>1. left \in Seq(1 .. Len(cs))
    BY <1>3, <1>9
  <2> HIDE DEF head, left
  <2> QED BY <1>3, <1>10, <1>11, <2>1, BytesNat
<1> HIDE DEF head, left
<1>13. Latest(queue[l])'
  <2>1. \A i \in 1 .. ((n + 1) - k) : left[i] = (c + 1) - ((n + 1) - k) + i
    <3> TAKE i \in 1 .. ((n + 1) - k)
    <3>1. k + i \in 1 .. n + 1
      BY <1>5, <1>7
    <3>2. left[i] = c - n + (k + i)
      BY <1>6, <1>9, <3>1
    <3> QED BY <1>2, <1>5, <1>7, <3>2
  <2>2. Len(left) <= Len(cs)
    BY <1>2, <1>3, <1>5, <1>7, <1>9
  <2>3. Len(left) \in Nat /\ Len(left) <= Len(cs)
        /\ \A i \in 1 .. Len(left) : left[i] = Len(cs) - Len(left) + i
    <3>1. Len(left) \in Nat
      BY <1>9
    <3>2. Len(left) = (n + 1) - k /\ Len(cs) = c + 1
      BY <1>3, <1>9
    <3>3. \A i \in 1 .. Len(left) : left[i] = Len(cs) - Len(left) + i
      BY <2>1, <3>2, Zenon
    <3> QED BY <2>2, <3>1, <3>3
  <2> QED BY <1>9, <1>11, <2>3 DEF Latest
<1>14. \A i \in 1 .. Len(sent'[l]) : sent'[l][i].chunk \in 1 .. Len(chunks')
  <2>1. \A m \in 1 .. c : m \in 1 .. c + 1
    BY <1>2
  <2> QED BY <1>3, <1>4, <1>11, <2>1
<1>15. Accounted(l)'
  <2>1. Len(left) = 1 \/ buffered'[l] <= MaxBuffer
    BY <1>5, <1>7, <1>9, <1>11
  <2> QED BY <1>10, <1>11, <2>1 DEF Accounted
<1>16. Due(l)' = Due(l) + k /\ Due(l) \in Int /\ k \in Nat
  <2>1. Due(l) = c - n + 1
    BY DEF Due, c, n
  <2>2. Due(l)' = (c + 1) - ((n + 1) - k) + 1
    <3>1. Due(l)' = Len(chunks') - Len(queue'[l]) + 1
      BY DEF Due
    <3>2. Len(chunks') = c + 1 /\ Len(queue'[l]) = (n + 1) - k
      BY <1>3, <1>9, <1>11
    <3> QED BY <3>1, <3>2, Zenon
  <2>3. k \in Int /\ k >= 0 /\ n \in Int /\ c \in Int
    BY <1>2, <1>5, <1>7
  <2>4. \A a, b, d \in Int : (a + 1) - ((b + 1) - d) + 1 = (a - b + 1) + d
    OBVIOUS
  <2>5. Due(l)' = Due(l) + k
    <3>1. (c + 1) - ((n + 1) - k) + 1 = (c - n + 1) + k
      BY <2>3, <2>4, Zenon
    <3> QED BY <2>1, <2>2, <3>1, Zenon
  <2>6. Due(l) \in Int
    BY <2>1, <2>3
  <2> QED BY <2>3, <2>5, <2>6
<1>17. InStep(l)'
  <2>1. Heard(l)' = Heard(l)
    BY <1>11 DEF Heard
  <2>2. Heard(l) \in Nat
    <3>1. Len(sent[l]) \in 1 .. Len(sent[l]) \/ sent[l] = <<>>
      BY <1>1
    <3> QED BY <1>2, <1>4, <3>1 DEF Heard
  <2>3. InStep(l)
    BY <1>4 DEF Serving
  <2>4. CASE l \in realign
    BY <1>11, <1>16, <2>1, <2>2, <2>3, <2>4 DEF InStep
  <2>5. CASE l \notin realign
    BY <1>11, <1>16, <2>1, <2>2, <2>3, <2>5 DEF InStep
  <2> QED BY <2>4, <2>5
<1>18. Serving(l)'
  BY <1>4, <1>11, <1>15, <1>17 DEF Serving
<1>19. Playable(sent'[l])
  BY <1>4, <1>11
<1>20. Player(l)'
  BY <1>11, <1>13, <1>14, <1>18, <1>19 DEF Player
<1>21. k = Drops(l, size)
  BY Zenon DEF Drops, c, cs, extended, total, k
<1> QED BY <1>9, <1>11, <1>12, <1>16, <1>20, <1>21

(* publish(), for all of them.                                             *)
LEMMA PublishKeeps ==
  ASSUME HubInv, Publish
  PROVE  HubInv'
<1>1. Shape /\ \A l \in Listeners : Player(l)
  BY DEF HubInv
<1>2. PICK size \in Sizes :
        /\ chunks' = Append(chunks, size)
        /\ LET new      == Len(chunks')
               extended == [l \in attached |-> Append(queue[l], new)]
               total    == [l \in attached |-> buffered[l] + size]
               drops    == [l \in attached |-> Overflow(total[l], extended[l], chunks')]
               left(l)  == SubSeq(extended[l], drops[l] + 1, Len(extended[l]))
               lost(l)  == Bytes(chunks', SubSeq(extended[l], 1, drops[l]))
           IN /\ preroll' = Newest(Append(preroll, new), PrerollChunks)
              /\ queue' = [l \in Listeners |->
                             IF l \in attached THEN left(l) ELSE queue[l]]
              /\ buffered' = [l \in Listeners |->
                                IF l \in attached THEN total[l] - lost(l) ELSE buffered[l]]
              /\ realign' = realign \cup {l \in attached : drops[l] > 0}
  BY DEF Publish
<1>3. /\ Len(chunks) < MaxChunks /\ attached' = attached /\ conn' = conn
      /\ client' = client /\ sent' = sent /\ discarded' = discarded
      /\ \/ unsynced' = unsynced
         \/ SyncIsRecent /\ unsynced' = unsynced \cup {Len(chunks) + 1}
  BY DEF Publish
<1>4. /\ chunks \in Seq(Sizes) /\ Len(chunks) \in Nat /\ Len(chunks') = Len(chunks) + 1
      /\ chunks' \in Seq(Sizes) /\ chunks' # <<>>
  <2>1. chunks \in Seq(Sizes) /\ chunks' = Append(chunks, size)
    BY <1>1, <1>2 DEF Shape
  <2> QED BY <2>1
<1>5. ASSUME NEW l \in attached
      PROVE  Player(l)' /\ queue'[l] \in Seq(Nat) /\ buffered'[l] \in Int
  <2>1. l \in Listeners
    BY <1>1 DEF Shape
  <2>2. Published(l, size)
    BY <1>2, <1>3, <1>4, <2>1 DEF Published, Drops
  <2> QED BY <2>2, PublishedOne
<1>6. ASSUME NEW l \in Listeners, l \notin attached
      PROVE  Player(l)' /\ queue'[l] \in Seq(Nat) /\ buffered'[l] \in Int
  <2>1. /\ queue'[l] = queue[l] /\ buffered'[l] = buffered[l] /\ conn'[l] = conn[l]
        /\ sent'[l] = sent[l] /\ l \notin attached'
    BY <1>2, <1>3, <1>6
  <2>2. Absent(l)
    BY <1>1, <1>6 DEF Player
  <2> QED BY <1>4, <2>1, <2>2 DEF Player, Absent, Latest, Playable
<1>7. \A l \in Listeners : Player(l)' /\ queue'[l] \in Seq(Nat) /\ buffered'[l] \in Int
  BY <1>5, <1>6
<1>8. queue' \in [Listeners -> Seq(Nat)] /\ buffered' \in [Listeners -> Int]
  BY <1>2, <1>7
<1>9. /\ Latest(preroll)'
      /\ Len(preroll') = Len(chunks') \/ Len(preroll') >= PrerollChunks
  <2> DEFINE c == Len(chunks)
             n == Len(preroll)
             longer == Append(preroll, c + 1)
             from == IF n + 1 > PrerollChunks THEN n - PrerollChunks + 1 ELSE 0
  <2>1. preroll \in Seq(Nat) /\ n \in Nat /\ n <= c /\ c \in Nat
        /\ \A i \in 1 .. n : preroll[i] = c - n + i
    BY <1>1, <1>4 DEF Shape, Latest
  <2> HIDE DEF c
  <2>2. longer \in Seq(Nat) /\ Len(longer) = n + 1
        /\ \A i \in 1 .. n + 1 : longer[i] = c - n + i
    BY <2>1, LatestAppend
  <2>3. from \in 0 .. n
    BY <2>1, HubAssumption
  <2>4. preroll' = SubSeq(longer, from + 1, n + 1)
    <3>1. preroll' = Newest(longer, PrerollChunks)
      BY <1>2, <1>4 DEF c
    <3> HIDE DEF longer, n
    <3>2. (IF n + 1 > PrerollChunks THEN (n + 1) - PrerollChunks + 1 ELSE 1) = from + 1
      BY <2>1, HubAssumption
    <3>3. preroll' = SubSeq(longer, IF n + 1 > PrerollChunks
                                    THEN (n + 1) - PrerollChunks + 1 ELSE 1, n + 1)
      BY <2>2, <3>1 DEF Newest
    <3> QED BY <3>2, <3>3, Zenon
  <2> DEFINE m == n + 1
  <2>5. m \in Nat /\ Len(longer) = m /\ from \in 0 .. m /\ m - from > 0
    BY <2>1, <2>2, <2>3
  <2> HIDE DEF m, from, longer, n
  <2>6. preroll' \in Seq(Nat) /\ Len(preroll') = m - from
    BY <2>2, <2>4, <2>5, SubSeqParts DEF m
  <2>7. \A i \in 1 .. m - from : preroll'[i] = longer[from + i]
    BY <2>2, <2>4, <2>5, SubSeqParts DEF m
  <2>8. \A i \in 1 .. m - from : preroll'[i] = (c + 1) - (m - from) + i
    <3> TAKE i \in 1 .. m - from
    <3>1. from + i \in 1 .. n + 1
      BY <2>1, <2>3, <2>5 DEF m
    <3>2. preroll'[i] = c - n + (from + i)
      BY <2>2, <2>7, <3>1
    <3> QED BY <2>1, <2>3, <3>2 DEF m
  <2>9. m - from \in Nat /\ m - from <= c + 1 /\ Len(chunks') = c + 1
    BY <1>4, <2>1, <2>3, <2>5 DEF m, c
  <2>10. \A i \in 1 .. Len(preroll') : preroll'[i] = Len(chunks') - Len(preroll') + i
    BY <2>6, <2>8, <2>9, Zenon
  <2>11. Len(preroll') <= Len(chunks')
    BY <2>6, <2>9
  <2>12. Len(preroll') = Len(chunks') \/ Len(preroll') >= PrerollChunks
    <3>1. n = c \/ n >= PrerollChunks
      BY <1>1 DEF Shape, Synced, n, c
    <3>2. CASE n + 1 > PrerollChunks
      <4>1. from = n - PrerollChunks + 1
        BY <3>2 DEF from
      <4> QED BY <2>1, <2>6, <4>1, HubAssumption DEF m
    <3>3. CASE ~(n + 1 > PrerollChunks)
      <4>1. from = 0 /\ n = c
        BY <2>1, <3>1, <3>3, HubAssumption DEF from
      <4> QED BY <2>1, <2>6, <2>9, <4>1 DEF m
    <3> QED BY <3>2, <3>3
  <2> QED BY <2>6, <2>10, <2>11, <2>12 DEF Latest
<1>10. realign' \subseteq attached' /\ Len(chunks') <= MaxChunks
  BY <1>1, <1>2, <1>3, <1>4, HubAssumption DEF Shape
<1>11. Synced'
  <2>1. ASSUME NEW n \in unsynced
        PROVE  /\ n \in 2 .. Len(chunks)
               /\ \E i \in 1 .. MaxUnsynced : n - i >= 1 /\ n - i \notin unsynced
    BY <1>1 DEF Shape, Synced
  <2>2. ASSUME NEW n \in unsynced'
        PROVE  /\ n \in 2 .. Len(chunks')
               /\ \E i \in 1 .. MaxUnsynced : n - i >= 1 /\ n - i \notin unsynced'
    <3>1. CASE n \in unsynced
      <4>1. PICK i \in 1 .. MaxUnsynced : n - i >= 1 /\ n - i \notin unsynced
        BY <2>1, <3>1
      <4>2. n \in 2 .. Len(chunks) /\ n - i # Len(chunks) + 1
        BY <1>4, <2>1, <3>1, <4>1, HubAssumption
      <4> QED BY <1>3, <1>4, <4>1, <4>2
    <3>2. CASE n \notin unsynced
      <4>1. n = Len(chunks) + 1 /\ unsynced' = unsynced \cup {n} /\ SyncIsRecent
        BY <1>3, <2>2, <3>2
      <4>2. PICK i \in 1 .. MaxUnsynced : i <= Len(chunks) /\ n - i \notin unsynced
        BY <4>1 DEF SyncIsRecent
      <4>3. n - i >= 1 /\ n - i # n /\ n \in 2 .. Len(chunks')
        BY <1>4, <4>1, <4>2, HubAssumption
      <4> QED BY <4>1, <4>2, <4>3
    <3> QED BY <3>1, <3>2
  <2> QED BY <1>9, <2>2 DEF Synced
<1>12. Shape'
  BY <1>1, <1>3, <1>4, <1>8, <1>9, <1>10, <1>11 DEF Shape
<1> QED BY <1>7, <1>12 DEF HubInv

----------------------------------------------------------------------------
(* One connection.                                                         *)
LEMMA PieceFields ==
  ASSUME NEW n, NEW b \in BOOLEAN, NEW p, p = Piece(n, b)
  PROVE  p.chunk = n /\ p.cut = b
BY DEF Piece

(* There is a sync word in the preroll.                                    *)
LEMMA PrerollSynced ==
  ASSUME Shape, preroll # <<>>
  PROVE  \E i \in 1 .. Len(preroll) : preroll[i] \notin unsynced
<1> DEFINE c == Len(chunks)
           n == Len(preroll)
<1>1. /\ chunks \in Seq(Sizes) /\ preroll \in Seq(Nat) /\ n <= c
      /\ \A i \in 1 .. n : preroll[i] = c - n + i
  BY DEF Shape, Latest
<1>2. c \in Nat /\ n \in Nat /\ n > 0
  BY <1>1
<1>3. /\ n = c \/ n >= PrerollChunks
      /\ c \in unsynced => \E i \in 1 .. MaxUnsynced : c - i >= 1 /\ c - i \notin unsynced
  BY DEF Shape, Synced
<1>4. MaxUnsynced \in Nat /\ PrerollChunks \in Nat /\ MaxUnsynced < PrerollChunks
  BY HubAssumption, SyncAssumption
<1> HIDE DEF c, n
<1>5. CASE c \notin unsynced
  <2>1. n \in 1 .. n /\ preroll[n] = c
    BY <1>1, <1>2
  <2> QED BY <1>5, <2>1 DEF n
<1>6. CASE c \in unsynced
  <2>1. PICK i \in 1 .. MaxUnsynced : c - i >= 1 /\ c - i \notin unsynced
    BY <1>3, <1>6
  <2>2. n - i \in 1 .. n
    BY <1>2, <1>3, <1>4, <2>1
  <2>3. preroll[n - i] = c - i
    BY <1>1, <1>2, <1>4, <2>1, <2>2
  <2> QED BY <2>1, <2>2, <2>3 DEF n
<1> QED BY <1>5, <1>6

(* What a new listener is sent: the last k chunks, from a sync word on, or *)
(* nothing when there is nothing yet.                                      *)
Opening(k) ==
  /\ k <= Len(chunks) /\ (k = 0 => Len(chunks) = 0)
  /\ Burst \in Seq(Pieces) /\ Len(Burst) = k
  /\ \A i \in 1 .. k : Burst[i].chunk = Len(chunks) - k + i /\ (Burst[i].cut <=> i = 1)

LEMMA BurstOpens ==
  ASSUME Shape
  PROVE  \E k \in Nat : Opening(k)
<1> DEFINE c == Len(chunks)
           n == Len(preroll)
           synced == {i \in DOMAIN preroll : preroll[i] \notin unsynced}
<1>1. /\ chunks \in Seq(Sizes) /\ preroll \in Seq(Nat) /\ n <= c
      /\ \A i \in 1 .. n : preroll[i] = c - n + i
  BY DEF Shape, Latest
<1>2. c \in Nat /\ n \in Nat /\ DOMAIN preroll = 1 .. n
  BY <1>1
<1>3. CASE preroll = <<>>
  <2>1. Burst = <<>>
    BY <1>3 DEF Burst
  <2>2. c = 0
    BY <1>2, <1>3, HubAssumption DEF Shape, Synced
  <2>3. Opening(0)
    BY <2>1, <2>2 DEF Opening
  <2> QED BY <2>3
<1>4. CASE preroll # <<>>
  <2> DEFINE first == Min(synced)
             k == n - first + 1
  <2>1. synced # {} /\ synced \in SUBSET (1 .. n)
    BY <1>2, <1>4, PrerollSynced
  <2>2. first \in 1 .. n
    <3>1. PICK least \in synced : \A i \in synced : least <= i
      <4>1. synced \in SUBSET Nat
        BY <2>1
      <4> HIDE DEF synced
      <4> QED BY <2>1, <4>1, LeastNumber
    <3>2. Min(synced) \in synced
      <4> HIDE DEF synced
      <4> QED BY <3>1, Zenon DEF Min
    <3> HIDE DEF synced
    <3> QED BY <2>1, <3>2
  <2>3. Burst = [i \in 1 .. k |-> Piece(preroll[first + i - 1], i = 1)]
    <3> HIDE DEF n
    <3> QED BY <2>1, Zenon DEF Burst, n
  <2> HIDE DEF c, n, synced, first
  <2>4. k \in Nat /\ k > 0 /\ k <= n
    BY <1>2, <2>2
  <2>5. ASSUME NEW i \in 1 .. k
        PROVE  preroll[first + i - 1] = c - k + i /\ c - k + i \in Nat
    <3>1. first + i - 1 \in 1 .. n
      BY <1>2, <2>2, <2>4
    <3> QED BY <1>1, <1>2, <2>2, <2>4, <3>1
  <2>6. \A i \in 1 .. k : Piece(preroll[first + i - 1], i = 1) \in Pieces
    BY <2>5 DEF Piece, Pieces
  <2> HIDE DEF k
  <2>7. Burst \in [1 .. k -> Pieces]
    BY <2>3, <2>6
  <2>8. Burst \in Seq(Pieces) /\ Len(Burst) = k
    BY <2>4, <2>7
  <2>9. \A i \in 1 .. k : Burst[i].chunk = c - k + i /\ (Burst[i].cut <=> i = 1)
    <3> TAKE i \in 1 .. k
    <3>1. Burst[i] = Piece(preroll[first + i - 1], i = 1) /\ (i = 1) \in BOOLEAN
      BY <2>3
    <3>2. Burst[i].chunk = preroll[first + i - 1]
      BY <3>1 DEF Piece
    <3>3. Burst[i].cut = (i = 1)
      <4> DEFINE n0 == preroll[first + i - 1]  p == Burst[i]  b == i = 1
      <4>1. p = Piece(n0, b) /\ b \in BOOLEAN
        BY <3>1
      <4> HIDE DEF n0, p, b
      <4>2. p.cut = b
        BY <4>1, PieceFields, Zenon
      <4> QED BY <4>2 DEF p, b
    <3>4. Burst[i].chunk = c - k + i
      BY <2>5, <3>2
    <3> QED BY <3>3, <3>4, Zenon
  <2>10. Opening(k)
    BY <1>1, <1>2, <2>4, <2>8, <2>9 DEF Opening, c
  <2> QED BY <2>4, <2>10
<1> QED BY <1>3, <1>4

(* attach() and the preroll of a new listener.                             *)
LEMMA GreetKeeps ==
  ASSUME HubInv, NEW l \in Listeners, Greet(l)
  PROVE  HubInv'
<1>1. Shape /\ \A m \in Listeners : Player(m)
  BY DEF HubInv
<1>2. /\ conn[l] = "request" /\ attached' = attached \cup {l}
      /\ sent' = [sent EXCEPT ![l] = Burst]
      /\ conn' = [conn EXCEPT ![l] = IF Burst = <<>> THEN "waiting" ELSE "burst"]
      /\ UNCHANGED <<chunks, unsynced, preroll, queue, buffered, realign, dropped, discarded, client>>
  BY DEF Greet, outputVars
<1>3. l \notin attached /\ l \notin realign /\ Absent(l)
  BY <1>1, <1>2 DEF Shape, Player, Serving
<1>4. /\ chunks \in Seq(Sizes) /\ Latest(preroll)
      /\ sent \in [Listeners -> Seq(Pieces)]
      /\ conn \in [Listeners -> {"closed", "request", "burst", "waiting", "writing"}]
  BY <1>1 DEF Shape
<1> DEFINE c == Len(chunks)
<1>5. PICK n \in Nat : Opening(n)
  BY <1>1, BurstOpens
<1>6. c \in Nat /\ n <= c /\ (n = 0 => c = 0) /\ Burst \in Seq(Pieces) /\ Len(Burst) = n
  BY <1>4, <1>5 DEF Opening
<1>7. sent'[l] = Burst /\ queue'[l] = <<>> /\ buffered'[l] = 0
      /\ conn'[l] \in {"burst", "waiting"}
  BY <1>2, <1>3, <1>4 DEF Absent
<1>8. \A i \in 1 .. n : Burst[i].chunk = c - n + i /\ (Burst[i].cut <=> i = 1)
  BY <1>5 DEF Opening
<1> HIDE DEF c
<1>9. Playable(sent'[l])
  <2>1. Burst # <<>> => Burst[1].cut
    BY <1>6, <1>8
  <2>2. ASSUME NEW i \in 2 .. n
        PROVE  Burst[i].chunk = Burst[i - 1].chunk + 1 /\ ~Burst[i].cut
    <3>1. i \in 1 .. n /\ i - 1 \in 1 .. n /\ i # 1
      OBVIOUS
    <3>2. Burst[i].chunk = c - n + i /\ Burst[i - 1].chunk = c - n + (i - 1) /\ ~Burst[i].cut
      BY <1>8, <3>1
    <3> QED BY <1>6, <3>1, <3>2
  <2> QED BY <1>6, <1>7, <2>1, <2>2 DEF Playable
<1>10. \A i \in 1 .. Len(sent'[l]) : sent'[l][i].chunk \in 1 .. Len(chunks')
  <2>1. \A i \in 1 .. n : c - n + i \in 1 .. c
    BY <1>6
  <2> QED BY <1>2, <1>6, <1>7, <1>8, <2>1 DEF c
<1>11. Latest(queue[l])'
  BY <1>2, <1>6, <1>7 DEF Latest, c
<1>12. Accounted(l)'
  BY <1>2, <1>7, BytesEmpty, HubAssumption DEF Accounted
<1>13. InStep(l)'
  <2>1. Due(l)' = c + 1
    BY <1>2, <1>6, <1>7 DEF Due, c
  <2>2. Heard(l)' = c
    <3>1. CASE n = 0
      <4>1. sent'[l] = <<>>
        BY <1>6, <1>7, <3>1
      <4> QED BY <1>6, <3>1, <4>1 DEF Heard
    <3>2. CASE n # 0
      <4>1. sent'[l] # <<>> /\ Len(sent'[l]) = n /\ n \in 1 .. n
        BY <1>6, <1>7, <3>2
      <4>2. sent'[l][n].chunk = c - n + n
        BY <1>7, <1>8, <4>1
      <4>3. c - n + n = c
        BY <1>6
      <4>4. Heard(l)' = sent'[l][n].chunk
        BY <4>1 DEF Heard
      <4> QED BY <4>2, <4>3, <4>4
    <3> QED BY <3>1, <3>2
  <2>3. l \notin realign'
    BY <1>2, <1>3
  <2> QED BY <2>1, <2>2, <2>3 DEF InStep
<1>14. Player(l)'
  <2>1. l \in attached'
    BY <1>2
  <2> QED BY <1>7, <1>9, <1>10, <1>11, <1>12, <1>13, <2>1 DEF Player, Serving
<1>15. ASSUME NEW m \in Listeners, m # l
       PROVE  Player(m)'
  <2>1. /\ m \in attached' <=> m \in attached
        /\ conn'[m] = conn[m] /\ sent'[m] = sent[m]
    BY <1>2, <1>4, <1>15
  <2> QED BY <1>2, <2>1, OthersKeep
<1>16. Shape'
  BY <1>1, <1>2, <1>4, <1>6, <1>7 DEF Shape, Latest, Synced
<1> QED BY <1>14, <1>15, <1>16 DEF HubInv

(* A chunk is taken off a queue.                                           *)
LEMMA TakeKeeps ==
  ASSUME HubInv, NEW l \in Listeners, Take(l),
         UNCHANGED <<chunks, unsynced, preroll, attached>>
  PROVE  /\ l \in attached /\ Head(queue[l]) \in 1 .. Len(chunks)
         /\ Due(l) = Head(queue[l]) /\ Due(l)' = Head(queue[l]) + 1
         /\ Latest(queue[l])' /\ Accounted(l)'
         /\ queue' \in [Listeners -> Seq(Nat)] /\ buffered' \in [Listeners -> Int]
         /\ \A m \in Listeners : m # l => queue'[m] = queue[m] /\ buffered'[m] = buffered[m]
<1>1. Shape /\ \A m \in Listeners : Player(m)
  BY DEF HubInv
<1> DEFINE c == Len(chunks)
           n == Len(queue[l])
           h == Head(queue[l])
<1>2. /\ conn[l] = "waiting" /\ queue[l] # <<>>
      /\ queue' = [queue EXCEPT ![l] = Tail(queue[l])]
      /\ buffered' = [buffered EXCEPT ![l] = buffered[l] - chunks[h]]
  BY DEF Take
<1>3. l \in attached /\ Latest(queue[l]) /\ Accounted(l)
  BY <1>1, <1>2 DEF Player, Serving, Absent
<1>4. /\ chunks \in Seq(Sizes)
      /\ queue \in [Listeners -> Seq(Nat)] /\ buffered \in [Listeners -> Int]
  BY <1>1 DEF Shape
<1>5. chunks \in Seq(Nat) /\ c \in Nat
  BY <1>4, SizesAreNat
<1>6. /\ queue[l] \in Seq(Nat) /\ n \in Nat /\ n > 0 /\ n <= c
      /\ \A i \in 1 .. n : queue[l][i] = c - n + i
  <2>1. queue[l] \in Seq(Nat) /\ queue[l] # <<>>
    BY <1>2, <1>4
  <2>2. n \in Nat /\ n > 0
    BY <2>1
  <2>3. Len(queue[l]) <= Len(chunks)
        /\ \A i \in 1 .. Len(queue[l]) : queue[l][i] = Len(chunks) - Len(queue[l]) + i
    BY <1>3 DEF Latest
  <2> QED BY <2>1, <2>2, <2>3
<1>7. h = c - n + 1 /\ h \in 1 .. c /\ queue[l][1] = h
  <2>1. h = queue[l][1]
    BY <1>6, HeadAndTail
  <2> HIDE DEF c, n
  <2>2. queue[l][1] = c - n + 1
    BY <1>6
  <2> QED BY <1>5, <1>6, <2>1, <2>2
<1>8. queue[l] \in Seq(1 .. c)
  BY <1>3, <1>4, LatestInRange
<1>9. /\ Tail(queue[l]) \in Seq(1 .. c) /\ Len(Tail(queue[l])) = n - 1
      /\ \A i \in 1 .. n - 1 : Tail(queue[l])[i] = queue[l][i + 1]
  BY <1>6, <1>8, HeadAndTail
<1>10. Bytes(chunks, queue[l]) = chunks[h] + Bytes(chunks, Tail(queue[l]))
  <2>1. Bytes(chunks, queue[l]) = Bytes(chunks, SubSeq(queue[l], 1, 1))
                                    + Bytes(chunks, SubSeq(queue[l], 2, n))
    <3>1. 1 \in 0 .. Len(queue[l]) /\ 1 + 1 = 2
      BY <1>6
    <3> QED BY <1>5, <1>8, <3>1, BytesSplit
  <2>2. SubSeq(queue[l], 1, 1) = Append(<<>>, h) /\ SubSeq(queue[l], 2, n) = Tail(queue[l])
    BY <1>6, <1>8, HeadAndTail
  <2>3. Bytes(chunks, Append(<<>>, h)) = Bytes(chunks, <<>>) + chunks[h]
    <3>1. <<>> \in Seq(1 .. Len(chunks)) /\ h \in 1 .. Len(chunks)
      BY <1>7
    <3> HIDE DEF h
    <3> QED BY <1>5, <3>1, BytesAppend
  <2>4. chunks[h] \in Nat
    BY <1>5, <1>7
  <2>5. Bytes(chunks, SubSeq(queue[l], 1, 1)) = chunks[h]
    <3>1. Bytes(chunks, SubSeq(queue[l], 1, 1)) = Bytes(chunks, Append(<<>>, h))
      BY <2>2, Zenon
    <3>2. Bytes(chunks, <<>>) = 0
      BY BytesEmpty, Zenon
    <3> HIDE DEF h
    <3>3. Bytes(chunks, Append(<<>>, h)) = chunks[h]
      BY <2>3, <2>4, <3>2
    <3> QED BY <3>1, <3>3, Zenon
  <2> QED BY <2>1, <2>2, <2>5
<1>11. chunks[h] \in Nat /\ Bytes(chunks, Tail(queue[l])) \in Nat
  <2>1. chunks[h] \in Nat
    BY <1>5, <1>7
  <2> QED BY <1>5, <1>9, <2>1, BytesNat
<1>12. /\ queue'[l] = Tail(queue[l]) /\ buffered'[l] = buffered[l] - chunks[h]
       /\ l \in attached' /\ chunks' = chunks
  BY <1>2, <1>3, <1>4
<1> HIDE DEF c, n, h
<1>14. Latest(queue[l])'
  <2>1. \A i \in 1 .. n - 1 : Tail(queue[l])[i] = c - (n - 1) + i
    <3> TAKE i \in 1 .. n - 1
    <3>1. i + 1 \in 1 .. n
      BY <1>6
    <3>2. Tail(queue[l])[i] = c - n + (i + 1)
      BY <1>6, <1>9, <3>1
    <3>3. i \in Int
      BY <1>6
    <3> HIDE DEF c, n
    <3>4. \A a, b, d \in Int : a - b + (d + 1) = a - (b - 1) + d
      OBVIOUS
    <3>5. c \in Int /\ n \in Int
      BY <1>5, <1>6
    <3> QED BY <3>2, <3>3, <3>4, <3>5, Zenon
  <2>2. Len(queue'[l]) = n - 1 /\ Len(chunks') = c /\ n - 1 <= c
    BY <1>5, <1>6, <1>9, <1>12 DEF c
  <2>3. \A i \in 1 .. Len(queue'[l]) : queue'[l][i] = Len(chunks') - Len(queue'[l]) + i
    BY <1>12, <2>1, <2>2, Zenon
  <2>4. queue'[l] \in Seq(Nat)
    <3>1. Tail(queue[l]) \in Seq(Nat)
      BY <1>6, HeadAndTail DEF n
    <3> QED BY <1>12, <3>1
  <2> QED BY <2>2, <2>3, <2>4 DEF Latest
<1>15. Accounted(l)'
  <2>1. buffered[l] = Bytes(chunks, queue[l]) /\ (buffered[l] <= MaxBuffer \/ n = 1)
    BY <1>3 DEF Accounted, n
  <2>2. buffered'[l] = Bytes(chunks, Tail(queue[l]))
    BY <1>10, <1>11, <1>12, <2>1
  <2>3. CASE n = 1
    <3>1. Tail(queue[l]) = <<>>
      <4> DEFINE rest == Tail(queue[l])
      <4>1. rest \in Seq(Nat) /\ Len(rest) = n - 1
        BY <1>6, HeadAndTail DEF n
      <4> HIDE DEF rest
      <4>2. rest = <<>>
        BY <2>3, <4>1
      <4> QED BY <4>2 DEF rest
    <3>2. buffered'[l] = 0
      BY <2>2, <3>1, BytesEmpty
    <3>3. buffered'[l] <= MaxBuffer
      BY <3>2, HubAssumption
    <3> QED BY <1>12, <2>2, <3>3 DEF Accounted
  <2>4. CASE buffered[l] <= MaxBuffer
    <3>1. buffered'[l] <= MaxBuffer
      BY <1>10, <1>11, <2>1, <2>2, <2>4, HubAssumption
    <3> QED BY <1>12, <2>2, <3>1 DEF Accounted
  <2> QED BY <2>1, <2>3, <2>4
<1>16. Due(l) = h
  BY <1>7 DEF Due, c, n
<1>17. Due(l)' = h + 1
  <2>1. Due(l)' = Len(chunks') - Len(queue'[l]) + 1
    BY DEF Due
  <2>2. Len(chunks') = c /\ Len(queue'[l]) = n - 1
    BY <1>9, <1>12 DEF c
  <2> QED BY <1>5, <1>6, <1>7, <2>1, <2>2
<1>18. queue' \in [Listeners -> Seq(Nat)] /\ buffered' \in [Listeners -> Int]
  <2>1. Tail(queue[l]) \in Seq(Nat)
    BY <1>6, HeadAndTail DEF n
  <2>2. buffered[l] - chunks[h] \in Int
    BY <1>4, <1>11
  <2> QED BY <1>2, <1>4, <2>1, <2>2
<1>19. \A m \in Listeners : m # l => queue'[m] = queue[m] /\ buffered'[m] = buffered[m]
  BY <1>2, <1>4
<1> QED BY <1>3, <1>7, <1>14, <1>15, <1>16, <1>17, <1>18, <1>19 DEF c, h

(* What is written goes on where the last piece ended, or at a sync word.  *)
LEMMA PlayableOn ==
  ASSUME HubInv, NEW l \in attached, NEW h \in 1 .. Len(chunks), Due(l) = h,
         NEW t, t = Append(sent[l], Piece(h, l \in realign))
  PROVE  /\ Playable(t) /\ t \in Seq(Pieces)
         /\ \A i \in 1 .. Len(t) : t[i].chunk \in 1 .. Len(chunks)
         /\ t # <<>> /\ t[Len(t)].chunk = h
<1> DEFINE s == sent[l]
           k == Len(sent[l])
           piece == Piece(h, l \in realign)
<1>1. /\ l \in Listeners /\ s \in Seq(Pieces) /\ chunks \in Seq(Sizes)
      /\ Playable(s) /\ InStep(l) /\ \A i \in 1 .. Len(s) : s[i].chunk \in 1 .. Len(chunks)
  BY DEF HubInv, Shape, Player, Serving
<1>2. piece.chunk = h /\ (piece.cut <=> l \in realign) /\ piece \in Pieces
  <2>1. h \in Nat /\ (l \in realign) \in BOOLEAN
    BY <1>1
  <2>2. piece.chunk = h /\ piece.cut = (l \in realign)
    <3> HIDE DEF piece
    <3>1. piece = Piece(h, l \in realign)
      BY DEF piece
    <3> QED BY <2>1, <3>1, PieceFields, Zenon
  <2>3. piece \in Pieces
    BY <2>1 DEF Piece, Pieces
  <2> HIDE DEF piece
  <2> QED BY <2>2, <2>3, Zenon
<1> HIDE DEF piece
<1>3. t = Append(s, piece)
  BY DEF piece
<1>4. /\ k \in Nat /\ t \in Seq(Pieces) /\ Len(t) = k + 1 /\ t[k + 1] = piece
      /\ \A i \in 1 .. k : t[i] = s[i]
  BY <1>1, <1>2, <1>3
<1>5. \A i \in 1 .. Len(t) : t[i].chunk \in 1 .. Len(chunks)
  <2> TAKE i \in 1 .. Len(t)
  <2>1. CASE i = k + 1
    BY <1>2, <1>4, <2>1
  <2>2. CASE i # k + 1
    BY <1>1, <1>4, <2>2
  <2> QED BY <2>1, <2>2
<1>6. Playable(t)
  <2>2. /\ s # <<>> => s[1].cut \/ Aligned(s[1].chunk)
        /\ \A i \in 2 .. k : \/ s[i].chunk = s[i - 1].chunk + 1 /\ ~s[i].cut
                             \/ s[i].chunk > s[i - 1].chunk + 1 /\ s[i].cut
    BY <1>1 DEF Playable
  <2>3. k = 0 => Heard(l) = 0
    BY <1>4 DEF Heard
  <2>4. k > 0 => s # <<>> /\ Heard(l) = s[k].chunk
    BY DEF Heard
  <2>5. IF l \in realign THEN h > Heard(l) + 1 ELSE h = Heard(l) + 1
    BY <1>1 DEF InStep
  <2> HIDE DEF s, k
  <2>6. t[1].cut \/ Aligned(t[1].chunk)
    <3>1. CASE k = 0
      <4>1. t[1] = piece
        BY <1>4, <3>1
      <4>2. CASE l \in realign
        BY <1>2, <4>1, <4>2
      <4>3. CASE l \notin realign
        <5>1. h = 1
          BY <2>3, <2>5, <3>1, <4>3
        <5> QED BY <1>2, <4>1, <5>1 DEF Aligned
      <4> QED BY <4>2, <4>3
    <3>2. CASE k # 0
      <4>1. s # <<>> /\ t[1] = s[1]
        BY <1>4, <2>4, <3>2
      <4> QED BY <2>2, <4>1, Zenon
    <3> QED BY <3>1, <3>2
  <2>7. ASSUME NEW i \in 2 .. k + 1
        PROVE  \/ t[i].chunk = t[i - 1].chunk + 1 /\ ~t[i].cut
               \/ t[i].chunk > t[i - 1].chunk + 1 /\ t[i].cut
    <3>1. CASE i = k + 1
      <4>1. i - 1 = k /\ k \in 1 .. k /\ k > 0
        BY <1>4, <3>1
      <4>2. t[i] = piece /\ t[i - 1] = s[k]
        BY <1>4, <3>1, <4>1
      <4>3. Heard(l) = t[i - 1].chunk
        BY <2>4, <4>1, <4>2
      <4>4. CASE l \in realign
        <5>1. h > t[i - 1].chunk + 1
          BY <2>5, <4>3, <4>4
        <5> QED BY <1>2, <4>2, <4>4, <5>1, Zenon
      <4>5. CASE l \notin realign
        <5>1. h = t[i - 1].chunk + 1
          BY <2>5, <4>3, <4>5
        <5> QED BY <1>2, <4>2, <4>5, <5>1, Zenon
      <4> QED BY <4>4, <4>5
    <3>2. CASE i # k + 1
      <4>1. i \in 2 .. k /\ i \in 1 .. k /\ i - 1 \in 1 .. k
        BY <1>4, <3>2
      <4>2. t[i] = s[i] /\ t[i - 1] = s[i - 1]
        BY <1>4, <4>1, Zenon
      <4> QED BY <2>2, <4>1, <4>2, Zenon
    <3> QED BY <3>1, <3>2
  <2> QED BY <1>4, <2>6, <2>7 DEF Playable
<1> QED BY <1>2, <1>4, <1>5, <1>6

(* consume() and the write of what it returns, or the next chunk.          *)
LEMMA PumpKeeps ==
  ASSUME HubInv, NEW l \in Listeners, Pump(l)
  PROVE  HubInv'
<1>1. Shape /\ \A m \in Listeners : Player(m)
  BY DEF HubInv
<1> DEFINE h == Head(queue[l])
<1>2. Take(l) /\ UNCHANGED <<chunks, unsynced, preroll, attached, dropped, client>>
  BY DEF Pump, outputVars
<1>3. /\ l \in attached /\ h \in 1 .. Len(chunks) /\ Due(l) = h /\ Due(l)' = h + 1
      /\ Latest(queue[l])' /\ Accounted(l)'
      /\ queue' \in [Listeners -> Seq(Nat)] /\ buffered' \in [Listeners -> Int]
      /\ \A m \in Listeners : m # l => queue'[m] = queue[m] /\ buffered'[m] = buffered[m]
  BY <1>2, TakeKeeps
<1>4. /\ sent \in [Listeners -> Seq(Pieces)] /\ chunks \in Seq(Sizes)
      /\ conn \in [Listeners -> {"closed", "request", "burst", "waiting", "writing"}]
      /\ attached \subseteq Listeners /\ realign \subseteq attached
  BY <1>1 DEF Shape
<1> HIDE DEF h
<1>5. CASE /\ l \in realign /\ discarded' = discarded + 1 /\ UNCHANGED <<realign, sent, conn>>
  <2>1. Player(l) /\ conn[l] = "waiting"
    BY <1>1, <1>2 DEF Take
  <2>2. Heard(l)' = Heard(l) /\ Heard(l) \in Int
    <3>1. Heard(l)' = Heard(l)
      BY <1>5 DEF Heard
    <3>2. sent[l] # <<>> => Len(sent[l]) \in 1 .. Len(sent[l])
      BY <1>4
    <3>3. sent[l] # <<>> => sent[l][Len(sent[l])].chunk \in 1 .. Len(chunks)
      BY <2>1, <3>2 DEF Player
    <3>4. Heard(l) \in Int
      BY <1>4, <3>3 DEF Heard
    <3> QED BY <3>1, <3>4
  <2>3. InStep(l)'
    <3>1. Due(l) > Heard(l) + 1
      BY <1>3, <1>5, <2>1 DEF Player, Serving, InStep
    <3> QED BY <1>3, <1>4, <1>5, <2>2, <3>1 DEF InStep
  <2>4. Player(l)'
    BY <1>2, <1>3, <1>5, <2>1, <2>3 DEF Player, Serving
  <2>5. ASSUME NEW m \in Listeners, m # l
        PROVE  Player(m)'
    BY <1>2, <1>3, <1>5, <2>5, OthersKeep
  <2>6. Shape'
    BY <1>1, <1>2, <1>3, <1>5 DEF Shape, Latest, Synced
  <2> QED BY <2>4, <2>5, <2>6 DEF HubInv
<1>6. CASE /\ realign' = realign \ {l}
           /\ sent' = [sent EXCEPT ![l] = Append(sent[l], Piece(h, l \in realign))]
           /\ conn' = [conn EXCEPT ![l] = "writing"] /\ UNCHANGED discarded
  <2>1. /\ sent'[l] = Append(sent[l], Piece(h, l \in realign)) /\ conn'[l] = "writing"
        /\ l \notin realign'
    BY <1>4, <1>6
  <2>2. /\ Playable(sent'[l]) /\ sent'[l] \in Seq(Pieces)
        /\ \A i \in 1 .. Len(sent'[l]) : sent'[l][i].chunk \in 1 .. Len(chunks)
        /\ sent'[l] # <<>> /\ sent'[l][Len(sent'[l])].chunk = h
    <3> DEFINE t == sent'[l]
    <3>1. t = Append(sent[l], Piece(h, l \in realign))
      BY <2>1
    <3> HIDE DEF t
    <3>2. /\ Playable(t) /\ t \in Seq(Pieces)
          /\ \A i \in 1 .. Len(t) : t[i].chunk \in 1 .. Len(chunks)
          /\ t # <<>> /\ t[Len(t)].chunk = h
      BY <1>3, <3>1, PlayableOn
    <3> QED BY <3>2 DEF t
  <2>3. InStep(l)'
    <3>1. Heard(l)' = h
      BY <2>2 DEF Heard
    <3> QED BY <1>3, <2>1, <3>1 DEF InStep
  <2>4. Player(l)'
    BY <1>2, <1>3, <2>1, <2>2, <2>3 DEF Player, Serving
  <2>5. ASSUME NEW m \in Listeners, m # l
        PROVE  Player(m)'
    <3>1. /\ m \in realign' <=> m \in realign
          /\ conn'[m] = conn[m] /\ sent'[m] = sent[m]
      BY <1>4, <1>6, <2>5
    <3> QED BY <1>2, <1>3, <2>5, <3>1, OthersKeep
  <2>6. Shape'
    <3>1. sent' \in [Listeners -> Seq(Pieces)]
      BY <1>4, <1>6, <2>1, <2>2
    <3> QED BY <1>1, <1>2, <1>3, <1>4, <1>6, <3>1 DEF Shape, Latest, Synced
  <2> QED BY <2>4, <2>5, <2>6 DEF HubInv
<1> QED BY <1>5, <1>6 DEF Pump, h

(* detach(): nothing of the connection is left.                            *)
LEMMA EndKeeps ==
  ASSUME HubInv, NEW l \in Listeners, End(l)
  PROVE  HubInv'
<1>1. Shape /\ \A m \in Listeners : Player(m)
  BY DEF HubInv
<1>2. /\ attached' = attached \ {l} /\ queue' = [queue EXCEPT ![l] = <<>>]
      /\ buffered' = [buffered EXCEPT ![l] = 0] /\ realign' = realign \ {l}
      /\ conn' = [conn EXCEPT ![l] = "closed"] /\ client' = [client EXCEPT ![l] = "listening"]
      /\ sent' = [sent EXCEPT ![l] = <<>>] 
      /\ UNCHANGED <<chunks, unsynced, preroll, dropped, discarded>>
  BY DEF End, Detach, outputVars
<1>3. Shape'
  BY <1>1, <1>2 DEF Shape, Latest, Synced
<1>4. Player(l)'
  <2>1. /\ l \notin attached' /\ queue'[l] = <<>> /\ buffered'[l] = 0
        /\ conn'[l] = "closed" /\ sent'[l] = <<>> /\ Len(chunks') \in Nat
    BY <1>1, <1>2 DEF Shape
  <2> QED BY <2>1 DEF Player, Absent, Latest, Playable
<1>5. ASSUME NEW m \in Listeners, m # l
      PROVE  Player(m)'
  <2>1. /\ m \in attached' <=> m \in attached
        /\ m \in realign' <=> m \in realign
        /\ queue'[m] = queue[m] /\ buffered'[m] = buffered[m]
        /\ conn'[m] = conn[m] /\ sent'[m] = sent[m]
    BY <1>1, <1>2, <1>5 DEF Shape
  <2> QED BY <1>2, <2>1, OthersKeep
<1> QED BY <1>3, <1>4, <1>5 DEF HubInv

(* The steps that move one handler, within what it serves or has left.     *)
LEMMA HandlerKeeps ==
  ASSUME HubInv, NEW l \in Listeners, Connect(l) \/ Refuse(l) \/ Drained(l) \/ HangUp(l) \/ Speak(l)
  PROVE  HubInv'
<1>1. Shape /\ \A m \in Listeners : Player(m)
  BY DEF HubInv
<1>2. /\ UNCHANGED <<outputVars, hubVars, sent>>
      /\ client' \in [Listeners -> {"listening", "spoke", "gone"}]
  BY <1>1 DEF Shape, Connect, Refuse, Drained, HangUp, Speak
<1>3. /\ conn' \in [Listeners -> {"closed", "request", "burst", "waiting", "writing"}]
      /\ \A m \in Listeners : m # l => conn'[m] = conn[m]
      /\ \/ conn[l] \in {"closed", "request"} /\ conn'[l] \in {"closed", "request"}
         \/ conn[l] \in {"burst", "waiting", "writing"}
              /\ conn'[l] \in {"burst", "waiting", "writing"}
  BY <1>1 DEF Shape, Connect, Refuse, Drained, HangUp, Speak
<1>4. Shape'
  BY <1>1, <1>2, <1>3 DEF Shape, Latest, Synced, hubVars, outputVars
<1>5. ASSUME NEW m \in Listeners, m # l
      PROVE  Player(m)'
  BY <1>2, <1>3, <1>5, OthersKeep DEF hubVars, outputVars
<1>6. Player(l)'
  BY <1>1, <1>2, <1>3 DEF hubVars, outputVars, Player, Latest, Serving, Absent, InStep, Due, Heard,
                          Accounted
<1> QED BY <1>4, <1>5, <1>6 DEF HubInv

(* The invariant is inductive.                                             *)
LEMMA HubNext == HubInv /\ [Next]_vars => HubInv'
<1> SUFFICES ASSUME HubInv, [Next]_vars
             PROVE  HubInv'
  OBVIOUS
<1>1. CASE Publish
  BY <1>1, PublishKeeps
<1>2. ASSUME NEW l \in Listeners, Connect(l) \/ Handle(l) \/ HangUp(l) \/ Speak(l)
      PROVE  HubInv'
  BY <1>2, GreetKeeps, PumpKeeps, EndKeeps, HandlerKeeps DEF Handle
<1>3. CASE UNCHANGED vars
  BY <1>3 DEF vars, hubVars, outputVars, HubInv, Shape, Synced, Player, Latest, Serving, Absent, InStep, Due,
              Heard, Accounted
<1> QED BY <1>1, <1>2, <1>3 DEF Next

(* It holds in every state the hub can reach.                              *)
LEMMA HubKept == Spec => []HubInv
BY HubInit, HubNext, PTL DEF Spec

(* What a player receives starts at a sync word, comes in order, and after *)
(* every gap goes on at a sync word, whoever else listens and however the  *)
(* encoder and the handlers take turns.                                    *)
THEOREM FeedIsClean == Spec => []CleanFeed
<1>1. HubInv => CleanFeed
  BY DEF HubInv, Player, Playable, CleanFeed
<1> QED BY <1>1, HubKept, PTL

(* The account of a buffer, which decides what is dropped, is what its     *)
(* queue holds, and no listener costs more than the bound or one chunk.    *)
THEOREM BuffersAreBounded == Spec => []BoundedBuffers
<1>1. HubInv => BoundedBuffers
  BY DEF HubInv, Shape, Player, Serving, Accounted, BoundedBuffers
<1> QED BY <1>1, HubKept, PTL

----------------------------------------------------------------------------
(* What dropped_chunks counts, and what nothing counts.  The chunks a      *)
(* player has missed, up to the one that is due next: the gap it is about  *)
(* to hear is in it already.                                               *)
Skipped(l) == IF sent[l] = <<>> THEN 0 ELSE Due(l) - sent[l][1].chunk - Len(sent[l])

Skips == [l \in Listeners |-> Skipped(l)]

GapsInv ==
  /\ HubInv
  /\ dropped \in Nat
  /\ Total(Skips, Listeners) <= dropped + discarded

(* What a player has skipped is a number.                                  *)
LEMMA SkippedInt == HubInv => \A l \in Listeners : Skipped(l) \in Int
<1> SUFFICES ASSUME HubInv, NEW l \in Listeners
             PROVE  Skipped(l) \in Int
  OBVIOUS
<1>1. Shape /\ Player(l)
  BY DEF HubInv
<1>2. Due(l) \in Int
  BY <1>1 DEF Shape, Due
<1>3. CASE sent[l] = <<>>
  BY <1>3 DEF Skipped
<1>4. CASE sent[l] # <<>>
  <2>1. sent[l] \in Seq(Pieces)
    BY <1>1 DEF Shape
  <2>2. Len(sent[l]) \in Nat /\ 1 \in 1 .. Len(sent[l])
    BY <1>4, <2>1
  <2>3. sent[l][1].chunk \in 1 .. Len(chunks) /\ Len(chunks) \in Nat
    BY <1>1, <2>2 DEF Player, Shape
  <2> QED BY <1>2, <1>4, <2>2, <2>3 DEF Skipped
<1> QED BY <1>3, <1>4

(* And after the step.                                                     *)
LEMMA SkippedIntNext == HubInv' => \A l \in Listeners : Skipped(l)' \in Int
<1>1. HubInv' => (\A l \in Listeners : Skipped(l) \in Int)'
  BY SkippedInt, PTL
<1> QED BY <1>1

(* Nobody has missed anything to begin with.                               *)
LEMMA GapsInit == Init => GapsInv
<1> SUFFICES ASSUME Init
             PROVE  GapsInv
  OBVIOUS
<1>1. \A l \in Listeners : Skips[l] = 0
  BY DEF Init, Skips, Skipped
<1>2. Total(Skips, Listeners) = Total(Skips, Listeners) + Total(Skips, Listeners)
  BY <1>1, TotalAdds, HubAssumption
<1>3. \A l \in Listeners : Skips[l] \in Int
  BY <1>1
<1>4. Total(Skips, Listeners) \in Int
  BY <1>3, TotalInt, HubAssumption
<1>5. Total(Skips, Listeners) = 0
  <2>1. \A a \in Int : a = a + a => a = 0
    OBVIOUS
  <2> QED BY <1>2, <1>4, <2>1, Zenon
<1> QED BY <1>5, HubInit DEF GapsInv, Init

(* A step that drops nothing makes no player miss more.                    *)
LEMMA NothingMissed ==
  ASSUME GapsInv, HubInv', UNCHANGED <<dropped, discarded>>,
         \A l \in Listeners : Skipped(l)' <= Skipped(l)
  PROVE  GapsInv'
<1>1. \A l \in Listeners : Skips'[l] = Skipped(l)' /\ Skips[l] = Skipped(l)
  BY DEF Skips
<1>2. \A l \in Listeners : Skips'[l] \in Int /\ Skips[l] \in Int /\ Skips'[l] <= Skips[l]
  BY <1>1, SkippedInt, SkippedIntNext DEF GapsInv
<1>3. Total(Skips', Listeners) <= Total(Skips, Listeners)
  BY <1>2, TotalAtMost, HubAssumption
<1>4. Total(Skips', Listeners) \in Int /\ Total(Skips, Listeners) \in Int
  BY <1>2, TotalInt, HubAssumption
<1>5. Total(Skips, Listeners)' = Total(Skips', Listeners)
  BY DEF Total, Totals, Pick
<1> QED BY <1>3, <1>4, <1>5 DEF GapsInv, HubInv, Shape

(* A new listener has missed nothing.                                      *)
LEMMA GreetMisses ==
  ASSUME HubInv, NEW l \in Listeners, Greet(l), NEW m \in Listeners
  PROVE  Skipped(m)' <= Skipped(m)
<1>1. Shape /\ Player(l) /\ Skipped(m) \in Int
  BY SkippedInt DEF HubInv
<1>2. /\ conn[l] = "request" /\ sent' = [sent EXCEPT ![l] = Burst]
      /\ UNCHANGED <<chunks, queue>>
  BY DEF Greet, outputVars
<1>3. CASE m # l
  <2>1. sent'[m] = sent[m]
    BY <1>1, <1>2, <1>3 DEF Shape
  <2>2. Skipped(m)' = Skipped(m)
    <3>1. Due(m)' = Due(m)
      BY <1>2, <2>1 DEF Due
    <3>2. Skipped(m)' = IF sent'[m] = <<>> THEN 0
                        ELSE Due(m)' - sent'[m][1].chunk - Len(sent'[m])
      BY DEF Skipped
    <3> QED BY <2>1, <3>1, <3>2, Zenon DEF Skipped
  <2> QED BY <1>1, <2>2
<1>4. CASE m = l
  <2>1. sent[l] = <<>> /\ queue[l] = <<>>
    BY <1>1, <1>2 DEF Player, Serving, Absent
  <2> DEFINE c == Len(chunks)
  <2>2. PICK n \in Nat : Opening(n)
    BY <1>1, BurstOpens
  <2>3. sent'[l] = Burst /\ chunks \in Seq(Sizes)
    BY <1>1, <1>2 DEF Shape
  <2>4. Burst # <<>> => n > 0 /\ Len(Burst) = n /\ Burst[1].chunk = c - n + 1
    BY <2>2 DEF Opening
  <2>5. Due(l)' = c + 1
    BY <1>2, <2>1, <2>3 DEF Due
  <2>6. c \in Nat
    BY <2>3
  <2> HIDE DEF c
  <2>7. Skipped(l)' = 0
    BY <2>2, <2>3, <2>4, <2>5, <2>6 DEF Skipped
  <2>8. Skipped(l) = 0
    BY <2>1 DEF Skipped
  <2> QED BY <1>4, <2>7, <2>8
<1> QED BY <1>3, <1>4

(* A write makes no gap: it takes what is due next.  A chunk that is thrown*)
(* away makes the gap longer.                                              *)
LEMMA PumpMisses ==
  ASSUME HubInv, NEW l \in Listeners, Pump(l), NEW m \in Listeners
  PROVE  Skipped(m)' <= Skipped(m) + (IF m = l THEN discarded' - discarded ELSE 0)
<1> DEFINE h == Head(queue[l])
           piece == Piece(h, l \in realign)
<1>1. Shape /\ Player(m) /\ Skipped(m) \in Int
  BY SkippedInt DEF HubInv
<1>2. Take(l) /\ UNCHANGED <<chunks, unsynced, preroll, attached>>
  BY DEF Pump, outputVars
<1>3. /\ h \in 1 .. Len(chunks) /\ Due(l) = h /\ Due(l)' = h + 1
      /\ m # l => queue'[m] = queue[m]
  BY <1>2, TakeKeeps
<1>4. /\ sent \in [Listeners -> Seq(Pieces)] /\ chunks \in Seq(Sizes) /\ discarded \in Nat
  BY <1>1 DEF Shape
<1>5. Skipped(m)' = IF sent'[m] = <<>> THEN 0
                    ELSE Due(m)' - sent'[m][1].chunk - Len(sent'[m])
  BY DEF Skipped
<1>6. CASE m # l
  <2>1. sent'[m] = sent[m]
    BY <1>4, <1>6 DEF Pump
  <2>2. Due(m)' = Due(m)
    BY <1>2, <1>3, <1>6 DEF Due
  <2>3. Skipped(m)' = Skipped(m)
    BY <1>5, <2>1, <2>2, Zenon DEF Skipped
  <2> QED BY <1>1, <1>6, <2>3
<1> DEFINE k == Len(sent[l])
<1>l. Skipped(l)' = IF sent'[l] = <<>> THEN 0
                    ELSE Due(l)' - sent'[l][1].chunk - Len(sent'[l])
  BY DEF Skipped
<1>7. ASSUME m = l, sent[l] # <<>>
      PROVE  /\ k \in Nat /\ k > 0 /\ sent[l][1].chunk \in Int
             /\ Skipped(l) = h - sent[l][1].chunk - k
  <2>1. k \in Nat /\ k > 0 /\ 1 \in 1 .. k
    BY <1>4, <1>7
  <2>2. sent[l][1].chunk \in 1 .. Len(chunks)
    BY <1>1, <1>7, <2>1 DEF Player
  <2>3. Skipped(l) = Due(l) - sent[l][1].chunk - k
    BY <1>7 DEF Skipped
  <2> QED BY <1>3, <1>4, <2>1, <2>2, <2>3
<1> HIDE DEF h
<1>8. CASE m = l /\ discarded' = discarded + 1 /\ sent' = sent
  <2>1. CASE sent[l] = <<>>
    BY <1>4, <1>l, <1>8, <2>1 DEF Skipped
  <2>2. CASE sent[l] # <<>>
    <3>1. Skipped(l)' = (h + 1) - sent[l][1].chunk - k
      <4>1. sent'[l] = sent[l] /\ sent'[l] # <<>>
        BY <1>8, <2>2
      <4>2. Skipped(l)' = Due(l)' - sent'[l][1].chunk - Len(sent'[l])
        BY <1>l, <4>1
      <4> QED BY <1>3, <4>1, <4>2
    <3> QED BY <1>3, <1>4, <1>7, <1>8, <2>2, <3>1
  <2> QED BY <2>1, <2>2
<1>9. CASE m = l /\ discarded' = discarded /\ sent' = [sent EXCEPT ![l] = Append(sent[l], piece)]
  <2>1. piece \in Pieces /\ piece.chunk = h
    BY <1>3, <1>4 DEF Piece, Pieces
  <2> HIDE DEF piece
  <2>2. sent'[l] = Append(sent[l], piece)
    BY <1>4, <1>9
  <2>3. /\ sent'[l] # <<>> /\ Len(sent'[l]) = k + 1
        /\ sent'[l][1] = IF k = 0 THEN piece ELSE sent[l][1]
    <3> DEFINE s == sent[l]
    <3>1. s \in Seq(Pieces)
      BY <1>4
    <3>2. sent'[l] = Append(s, piece)
      BY <2>2
    <3> HIDE DEF s
    <3>3. sent'[l] # <<>> /\ Len(sent'[l]) = Len(s) + 1
      BY <2>1, <3>1, <3>2
    <3>4. Len(s) = 0 => sent'[l][1] = piece
      BY <2>1, <3>1, <3>2
    <3>5. Len(s) # 0 => sent'[l][1] = s[1]
      BY <2>1, <3>1, <3>2
    <3> QED BY <3>3, <3>4, <3>5 DEF s
  <2>4. Skipped(l)' = (h + 1) - sent'[l][1].chunk - (k + 1)
    <3>1. Skipped(l)' = Due(l)' - sent'[l][1].chunk - Len(sent'[l])
      BY <1>l, <2>3
    <3> QED BY <1>3, <2>3, <3>1
  <2>5. CASE sent[l] = <<>>
    BY <1>3, <1>4, <1>9, <2>1, <2>3, <2>4, <2>5 DEF Skipped
  <2>6. CASE sent[l] # <<>>
    BY <1>3, <1>4, <1>7, <1>9, <2>3, <2>4, <2>6
  <2> QED BY <2>5, <2>6
<1> QED BY <1>6, <1>8, <1>9 DEF Pump, h

(* The chunks that were sent are as far apart as their places, or further. *)
LEMMA ChunksSpread ==
  ASSUME NEW s, NEW n \in Nat, Len(s) = n, \A i \in 1 .. n : s[i].chunk \in Nat, Playable(s)
  PROVE  \A i \in 1 .. n : s[i].chunk >= s[1].chunk + (i - 1)
<1> DEFINE bad == {i \in 1 .. n : ~(s[i].chunk >= s[1].chunk + (i - 1))}
<1> SUFFICES ASSUME bad # {}
             PROVE  FALSE
  OBVIOUS
<1>1. PICK i \in bad : \A j \in bad : i <= j
  <2>1. bad \in SUBSET Nat
    OBVIOUS
  <2> HIDE DEF bad
  <2> QED BY <2>1, LeastNumber
<1>2. i \in 1 .. n /\ ~(s[i].chunk >= s[1].chunk + (i - 1))
  OBVIOUS
<1>3. s[1].chunk \in Nat /\ s[i].chunk \in Nat
  BY <1>2
<1>4. i # 1
  BY <1>2, <1>3
<1>5. i \in 2 .. n /\ i - 1 \in 1 .. n /\ i - 1 < i
  BY <1>2, <1>4
<1>6. i - 1 \notin bad
  <2> HIDE DEF bad
  <2> QED BY <1>1, <1>2, <1>5
<1>7. s[i - 1].chunk >= s[1].chunk + (i - 1 - 1) /\ s[i - 1].chunk \in Nat
  BY <1>5, <1>6
<1>8. s[i].chunk >= s[i - 1].chunk + 1
  <2>1. \/ s[i].chunk = s[i - 1].chunk + 1
        \/ s[i].chunk > s[i - 1].chunk + 1
    BY <1>5 DEF Playable
  <2> QED BY <1>3, <1>7, <2>1
<1> HIDE DEF bad
<1> QED BY <1>2, <1>3, <1>7, <1>8

(* A player cannot have missed more than it has skipped.                   *)
LEMMA SkippedNat ==
  ASSUME HubInv, NEW l \in Listeners, sent[l] # <<>>
  PROVE  Skipped(l) >= 0 /\ Missed(l) \in Int /\ Missed(l) <= Skipped(l)
<1> DEFINE s == sent[l]
           n == Len(s)
<1>1. Shape /\ Player(l)
  BY DEF HubInv
<1>2. s \in Seq(Pieces) /\ n \in Nat /\ n > 0 /\ Len(chunks) \in Nat /\ Due(l) \in Int
  BY <1>1 DEF Shape, Due
<1>3. Playable(s) /\ \A i \in 1 .. n : s[i].chunk \in 1 .. Len(chunks)
  BY <1>1 DEF Player
<1>4. \A i \in 1 .. n : s[i].chunk \in Nat
  BY <1>2, <1>3
<1>5. 1 \in 1 .. n /\ n \in 1 .. n
  BY <1>2
<1>6. Heard(l) = s[n].chunk
  BY DEF Heard
<1>7. Due(l) >= s[n].chunk + 1
  <2>1. InStep(l)
    BY <1>1 DEF Player, Serving, Absent
  <2>2. s[n].chunk \in Nat
    BY <1>4, <1>5
  <2> HIDE DEF s, n
  <2> QED BY <1>2, <1>6, <2>1, <2>2 DEF InStep
<1>8. Skipped(l) = Due(l) - s[1].chunk - n
  BY DEF Skipped
<1>9. Missed(l) = s[n].chunk - s[1].chunk + 1 - n
  <2>1. Head(s) = s[1] /\ Last(s) = s[n]
    BY <1>2 DEF Last
  <2> QED BY <2>1 DEF Missed
<1> HIDE DEF s, n
<1>10. s[n].chunk >= s[1].chunk + (n - 1)
  BY <1>2, <1>3, <1>4, <1>5, ChunksSpread DEF n
<1>11. s[1].chunk \in Nat /\ s[n].chunk \in Nat
  BY <1>4, <1>5
<1>12. ASSUME NEW d \in Int, NEW a \in Int, NEW b \in Int, NEW k \in Int,
              d >= b + 1, b >= a + (k - 1)
       PROVE  /\ d - a - k >= 0
              /\ b - a + 1 - k \in Int
              /\ b - a + 1 - k <= d - a - k
  BY <1>12
<1>13. Due(l) \in Int /\ n \in Int /\ s[1].chunk \in Int /\ s[n].chunk \in Int
  BY <1>2, <1>11
<1>14. /\ Due(l) - s[1].chunk - n >= 0
       /\ s[n].chunk - s[1].chunk + 1 - n \in Int
       /\ s[n].chunk - s[1].chunk + 1 - n <= Due(l) - s[1].chunk - n
  BY <1>7, <1>10, <1>12, <1>13, Zenon
<1> QED BY <1>8, <1>9, <1>14, Zenon

(* A listener that leaves has no gaps.                                     *)
LEMMA EndMisses ==
  ASSUME HubInv, NEW l \in Listeners, End(l), NEW m \in Listeners
  PROVE  Skipped(m)' <= Skipped(m)
<1>1. Shape /\ Player(l) /\ Skipped(m) \in Int
  BY SkippedInt DEF HubInv
<1>2. /\ sent' = [sent EXCEPT ![l] = <<>>] /\ queue' = [queue EXCEPT ![l] = <<>>]
      /\ UNCHANGED chunks
  BY DEF End, Detach, outputVars
<1>3. CASE m # l
  <2>1. sent'[m] = sent[m] /\ queue'[m] = queue[m]
    BY <1>1, <1>2, <1>3 DEF Shape
  <2>2. Due(m)' = Due(m)
    BY <1>2, <2>1 DEF Due
  <2>3. Skipped(m)' = IF sent'[m] = <<>> THEN 0
                      ELSE Due(m)' - sent'[m][1].chunk - Len(sent'[m])
    BY DEF Skipped
  <2>4. Skipped(m)' = Skipped(m)
    BY <2>1, <2>2, <2>3, Zenon DEF Skipped
  <2> QED BY <1>1, <2>4
<1>4. CASE m = l
  <2>1. sent'[l] = <<>>
    BY <1>1, <1>2 DEF Shape
  <2>2. Skipped(l)' = 0
    BY <2>1 DEF Skipped
  <2>3. Skipped(l) >= 0
    <3>1. CASE sent[l] = <<>>
      BY <3>1 DEF Skipped
    <3>2. CASE sent[l] # <<>>
      BY <1>1, <3>2, SkippedNat
    <3> QED BY <3>1, <3>2
  <2> QED BY <1>1, <1>4, <2>2, <2>3
<1> QED BY <1>3, <1>4

(* publish() counts what it drops.                                         *)
LEMMA PublishCounts ==
  ASSUME GapsInv, Publish
  PROVE  GapsInv'
<1>1. /\ HubInv /\ HubInv' /\ Shape /\ dropped \in Nat
      /\ Total(Skips, Listeners) <= dropped + discarded
  BY PublishKeeps DEF GapsInv, HubInv
<1>2. PICK size \in Sizes :
        /\ chunks' = Append(chunks, size)
        /\ LET new      == Len(chunks')
               extended == [l \in attached |-> Append(queue[l], new)]
               total    == [l \in attached |-> buffered[l] + size]
               drops    == [l \in attached |-> Overflow(total[l], extended[l], chunks')]
               left(l)  == SubSeq(extended[l], drops[l] + 1, Len(extended[l]))
               lost(l)  == Bytes(chunks', SubSeq(extended[l], 1, drops[l]))
           IN /\ queue' = [l \in Listeners |->
                             IF l \in attached THEN left(l) ELSE queue[l]]
              /\ buffered' = [l \in Listeners |->
                                IF l \in attached THEN total[l] - lost(l) ELSE buffered[l]]
              /\ realign' = realign \cup {l \in attached : drops[l] > 0}
              /\ dropped' = dropped + Counted(drops)
  BY DEF Publish
<1>3. attached' = attached /\ conn' = conn /\ sent' = sent /\ discarded' = discarded
  BY DEF Publish
<1>4. chunks \in Seq(Sizes) /\ Len(chunks) \in Nat /\ Len(chunks') = Len(chunks) + 1
      /\ attached \subseteq Listeners
  <2>1. chunks \in Seq(Sizes) /\ chunks' = Append(chunks, size) /\ attached \subseteq Listeners
    BY <1>1, <1>2 DEF Shape
  <2> QED BY <2>1
<1> DEFINE drops == [l \in attached |-> Drops(l, size)]
           more == [l \in Listeners |-> IF l \in attached THEN drops[l] ELSE 0]
           sum == [l \in Listeners |-> Skips[l] + more[l]]
<1>5. dropped' = dropped + Counted(drops)
  <2>1. drops = [l \in attached |-> Overflow([i \in attached |-> buffered[i] + size][l],
                                             [i \in attached |-> Append(queue[i], Len(chunks'))][l],
                                             chunks')]
    BY <1>2, <1>4 DEF Drops
  <2> QED BY <1>2, <2>1
<1>6. ASSUME NEW l \in attached
      PROVE  Drops(l, size) \in Nat /\ Due(l)' = Due(l) + Drops(l, size)
  <2>1. l \in Listeners
    BY <1>4
  <2>2. Published(l, size)
    BY <1>2, <1>3, <1>4, <2>1 DEF Published, Drops
  <2> QED BY <1>1, <2>2, PublishedOne
<1>7. \A l \in Listeners : /\ Skips[l] = Skipped(l) /\ Skips'[l] = Skipped(l)'
                           /\ Skips[l] \in Int /\ Skips'[l] \in Int
  BY <1>1, SkippedInt, SkippedIntNext DEF Skips
<1>8. \A l \in Listeners : more[l] \in Int /\ sum[l] = Skips[l] + more[l]
  BY <1>6
<1>9. ASSUME NEW l \in Listeners
      PROVE  Skips'[l] <= sum[l] /\ sum[l] \in Int
  <2>1. Skipped(l)' = IF sent[l] = <<>> THEN 0
                      ELSE Due(l)' - sent[l][1].chunk - Len(sent[l])
    BY <1>3 DEF Skipped
  <2>2. Skipped(l) \in Int /\ Skips[l] = Skipped(l) /\ Skips'[l] = Skipped(l)'
    BY <1>7
  <2>3. CASE sent[l] = <<>>
    <3>1. Skipped(l)' = 0 /\ Skipped(l) = 0
      BY <2>1, <2>3 DEF Skipped
    <3>2. more[l] \in Nat
      BY <1>6
    <3> HIDE DEF more
    <3> QED BY <2>2, <3>1, <3>2
  <2>4. CASE sent[l] # <<>>
    <3>1. l \in attached
      BY <1>1, <2>4 DEF HubInv, Player, Absent
    <3>2. Due(l)' = Due(l) + more[l] /\ more[l] \in Nat
      BY <1>6, <3>1
    <3>3. Skipped(l) = Due(l) - sent[l][1].chunk - Len(sent[l])
      BY <2>4 DEF Skipped
    <3>4. Due(l) \in Int /\ sent[l] \in Seq(Pieces) /\ Player(l)
      BY <1>1 DEF HubInv, Shape, Due
    <3>5. 1 \in 1 .. Len(sent[l]) /\ Len(sent[l]) \in Int
      BY <2>4, <3>4
    <3>6. sent[l][1].chunk \in Int
      BY <1>4, <3>4, <3>5 DEF Player
    <3> HIDE DEF more
    <3>7. Skipped(l)' = Skipped(l) + more[l]
      BY <2>1, <2>4, <3>2, <3>3, <3>4, <3>5, <3>6
    <3> QED BY <2>2, <3>2, <3>7
  <2> QED BY <2>3, <2>4
<1>10. Counted(drops) = Total(drops, attached)
  <2>1. DOMAIN drops = attached
    OBVIOUS
  <2> HIDE DEF drops
  <2> QED BY <2>1, SumIsTotal DEF Counted
<1>11. \A l \in attached : drops[l] \in Nat
  BY <1>6
<1>12. \A l \in Listeners : more[l] = (IF l \in attached THEN drops[l] ELSE 0)
  OBVIOUS
<1> HIDE DEF drops, more, sum
<1>13. Total(more, Listeners) = Total(drops, attached)
  BY <1>4, <1>8, <1>12, TotalOfPart, HubAssumption
<1>14. Total(sum, Listeners) = Total(Skips, Listeners) + Total(more, Listeners)
  BY <1>7, <1>8, TotalAdds, HubAssumption
<1>15. Total(Skips', Listeners) <= Total(sum, Listeners)
  BY <1>7, <1>9, TotalAtMost, HubAssumption
<1>16. /\ Total(Skips', Listeners) \in Int /\ Total(sum, Listeners) \in Int
       /\ Total(Skips, Listeners) \in Int /\ Counted(drops) \in Nat
  <2>1. IsFiniteSet(Listeners) /\ IsFiniteSet(attached)
    BY <1>4, FS_Subset, HubAssumption
  <2>2. Total(Skips', Listeners) \in Int
    BY <1>7, <2>1, TotalInt
  <2>3. Total(sum, Listeners) \in Int
    BY <1>9, <2>1, TotalInt
  <2>4. Total(Skips, Listeners) \in Int
    BY <1>7, <2>1, TotalInt
  <2>5. Counted(drops) \in Nat
    BY <1>10, <1>11, <2>1, TotalNat
  <2> QED BY <2>2, <2>3, <2>4, <2>5
<1>17. dropped' \in Nat /\ Total(Skips', Listeners) <= dropped' + discarded'
  BY <1>1, <1>3, <1>5, <1>10, <1>13, <1>14, <1>15, <1>16 DEF Shape
<1>18. Total(Skips, Listeners)' = Total(Skips', Listeners)
  BY DEF Total, Totals, Pick
<1> QED BY <1>1, <1>17, <1>18 DEF GapsInv

(* What is thrown away is counted by nothing but the history.              *)
LEMMA PumpCounts ==
  ASSUME GapsInv, NEW l \in Listeners, Pump(l)
  PROVE  GapsInv'
<1> DEFINE d == discarded' - discarded
           one == [m \in {l} |-> d]
           more == [m \in Listeners |-> IF m \in {l} THEN one[m] ELSE 0]
           sum == [m \in Listeners |-> Skips[m] + more[m]]
<1>1. /\ HubInv /\ HubInv' /\ dropped \in Nat /\ discarded \in Nat /\ discarded' \in Nat
      /\ Total(Skips, Listeners) <= dropped + discarded /\ dropped' = dropped
  BY PumpKeeps DEF GapsInv, HubInv, Shape, Pump
<1>2. d \in Int
  BY <1>1
<1> HIDE DEF d
<1>3. \A m \in Listeners : /\ Skips[m] = Skipped(m) /\ Skips'[m] = Skipped(m)'
                           /\ Skips[m] \in Int /\ Skips'[m] \in Int
  BY <1>1, SkippedInt, SkippedIntNext DEF Skips
<1>4. \A m \in Listeners :
        /\ more[m] \in Int /\ sum[m] = Skips[m] + more[m]
        /\ more[m] = (IF m \in {l} THEN one[m] ELSE 0)
        /\ more[m] = (IF m = l THEN d ELSE 0)
  BY <1>2
<1>5. ASSUME NEW m \in Listeners
      PROVE  Skips'[m] <= sum[m] /\ sum[m] \in Int
  <2>1. Skipped(m)' <= Skipped(m) + (IF m = l THEN d ELSE 0)
    BY <1>1, PumpMisses DEF d
  <2> HIDE DEF more, sum
  <2> QED BY <1>3, <1>4, <2>1
<1>6. one[l] = d /\ \A m \in {l} : one[m] \in Int
  BY <1>2
<1> HIDE DEF one, more, sum
<1>7. Total(one, {l}) = d
  <2>1. IsFiniteSet({l}) /\ IsFiniteSet({}) /\ {l} # {} /\ Pick({l}) = l /\ {l} \ {l} = {}
    BY PickIn, FS_EmptySet, FS_Singleton
  <2>2. Total(one, {}) = 0
    BY <2>1, TotalStep
  <2>3. Total(one, {l}) = one[l] + Total(one, {l} \ {l})
    BY <2>1, TotalStep
  <2> QED BY <1>2, <1>6, <2>1, <2>2, <2>3
<1>8. Total(more, Listeners) = Total(one, {l})
  BY <1>4, TotalOfPart, HubAssumption
<1>9. Total(sum, Listeners) = Total(Skips, Listeners) + Total(more, Listeners)
  BY <1>3, <1>4, TotalAdds, HubAssumption
<1>10. Total(Skips', Listeners) <= Total(sum, Listeners)
  BY <1>3, <1>5, TotalAtMost, HubAssumption
<1>11. /\ Total(Skips', Listeners) \in Int /\ Total(sum, Listeners) \in Int
       /\ Total(Skips, Listeners) \in Int
  BY <1>3, <1>5, TotalInt, HubAssumption
<1>12. Total(Skips', Listeners) <= dropped' + discarded'
  BY <1>1, <1>2, <1>7, <1>8, <1>9, <1>10, <1>11 DEF d
<1>13. Total(Skips, Listeners)' = Total(Skips', Listeners)
  BY DEF Total, Totals, Pick
<1> QED BY <1>1, <1>12, <1>13 DEF GapsInv

(* The invariant is inductive.                                             *)
LEMMA GapsNext == GapsInv /\ [Next]_vars => GapsInv'
<1> SUFFICES ASSUME GapsInv, [Next]_vars
             PROVE  GapsInv'
  OBVIOUS
<1>1. HubInv /\ HubInv'
  BY HubNext DEF GapsInv
<1>2. CASE Publish
  BY <1>2, PublishCounts
<1>3. CASE \E l \in Listeners : Pump(l)
  BY <1>3, PumpCounts
<1>4. CASE ~Publish /\ \A l \in Listeners : ~Pump(l)
  <2>1. UNCHANGED <<dropped, discarded>>
    BY <1>4 DEF Next, Handle, Connect, Refuse, Greet, Drained, End, HangUp, Speak, Detach,
                hubVars, vars
  <2>2. ASSUME NEW m \in Listeners
        PROVE  Skipped(m)' <= Skipped(m)
    <3>1. CASE \E l \in Listeners : Greet(l)
      BY <1>1, <3>1, GreetMisses
    <3>2. CASE \E l \in Listeners : End(l)
      BY <1>1, <3>2, EndMisses
    <3>3. CASE UNCHANGED <<chunks, queue, sent>>
      <4>1. Due(m)' = Due(m)
        BY <3>3 DEF Due
      <4>2. Skipped(m)' = IF sent'[m] = <<>> THEN 0
                          ELSE Due(m)' - sent'[m][1].chunk - Len(sent'[m])
        BY DEF Skipped
      <4>3. Skipped(m)' = Skipped(m)
        BY <3>3, <4>1, <4>2, Zenon DEF Skipped
      <4>4. Skipped(m) \in Int
        BY <1>1, SkippedInt
      <4> QED BY <4>3, <4>4
    <3> QED BY <1>4, <3>1, <3>2, <3>3
            DEF Next, Handle, Connect, Refuse, Drained, HangUp, Speak, hubVars, outputVars, vars
  <2> QED BY <1>1, <2>1, <2>2, NothingMissed
<1> QED BY <1>2, <1>3, <1>4

(* It holds in every state the hub can reach.                              *)
LEMMA GapsKept == Spec => []GapsInv
BY GapsInit, GapsNext, PTL DEF Spec

(* dropped_chunks misses nothing but what consume() throws away for want of*)
(* a sync word: the chunks that the players of this moment have not heard  *)
(* between their first and their last are no more than the two together.   *)
THEOREM GapsAreCounted == Spec => []GapsCounted
<1>1. ASSUME GapsInv
      PROVE  GapsCounted
  <2> DEFINE missed == [l \in Listeners |-> Missed(l)]
  <2>1. \A l \in Listeners :
          missed[l] \in Int /\ Skips[l] \in Int /\ missed[l] <= Skips[l]
    <3> TAKE l \in Listeners
    <3>1. Skipped(l) \in Int /\ Skips[l] = Skipped(l) /\ missed[l] = Missed(l)
      BY <1>1, SkippedInt DEF GapsInv, Skips
    <3>2. CASE sent[l] = <<>>
      BY <3>1, <3>2 DEF Missed, Skipped
    <3>3. CASE sent[l] # <<>>
      BY <1>1, <3>1, <3>3, SkippedNat DEF GapsInv
    <3> QED BY <3>2, <3>3
  <2>2. MapThenSumSet(Missed, Listeners) = Total(missed, Listeners)
    <3>1. ASSUME NEW h
          PROVE  (h = [s \in SUBSET Listeners |->
                         IF s = {} THEN 0 ELSE Missed(Pick(s)) + h[s \ {Pick(s)}]])
                   = Totals(missed, Listeners, h)
      <4>1. \A s \in SUBSET Listeners : s # {} => missed[Pick(s)] = Missed(Pick(s))
        BY PickIn
      <4> HIDE DEF missed
      <4> QED BY <4>1 DEF Totals
    <3> HIDE DEF missed
    <3> QED BY <3>1, Zenon DEF MapThenSumSet, MapThenFoldSet, Total, Pick
  <2> HIDE DEF missed
  <2>3. Total(missed, Listeners) <= Total(Skips, Listeners)
    BY <2>1, TotalAtMost, HubAssumption
  <2>4. Total(missed, Listeners) \in Int /\ Total(Skips, Listeners) \in Int
    BY <2>1, TotalInt, HubAssumption
  <2>5. dropped \in Nat /\ discarded \in Nat
    BY <1>1 DEF GapsInv, HubInv, Shape
  <2> QED BY <1>1, <2>2, <2>3, <2>4, <2>5 DEF GapsInv, GapsCounted
<1> QED BY <1>1, GapsKept, PTL

(* Everything the hub keeps has its type; a buffer's account and the count *)
(* of dropped chunks never go below zero.                                  *)
THEOREM HubTypes == Spec => []HubTypeOK
<1>1. ASSUME GapsInv
      PROVE  HubTypeOK
  <2>1. Shape /\ dropped \in Nat /\ \A l \in Listeners : Player(l)
    BY <1>1 DEF GapsInv, HubInv
  <2>2. chunks \in Seq(Sizes) /\ chunks \in Seq(Nat)
    BY <2>1, SizesAreNat DEF Shape
  <2>3. preroll \in Seq(1 .. Len(chunks))
    BY <2>1, LatestInRange DEF Shape
  <2>4. ASSUME NEW l \in Listeners
        PROVE  /\ queue[l] \in Seq(1 .. Len(chunks)) /\ buffered[l] \in Nat
               /\ sent[l] \in Seq([chunk : 1 .. Len(chunks), cut : BOOLEAN])
    <3>1. queue[l] \in Seq(1 .. Len(chunks))
      BY <2>1, <2>2, LatestInRange DEF Player
    <3>2. buffered[l] \in Nat
      <4>1. buffered[l] = Bytes(chunks, queue[l]) \/ buffered[l] = 0
        BY <2>1 DEF Player, Serving, Accounted, Absent
      <4> QED BY <2>2, <3>1, <4>1, BytesNat
    <3>3. sent[l] \in Seq([chunk : 1 .. Len(chunks), cut : BOOLEAN])
      <4>1. sent[l] \in Seq(Pieces) /\ \A i \in 1 .. Len(sent[l]) : sent[l][i].chunk \in 1 .. Len(chunks)
        BY <2>1 DEF Shape, Player
      <4>2. \A i \in 1 .. Len(sent[l]) : sent[l][i] \in [chunk : 1 .. Len(chunks), cut : BOOLEAN]
        <5> TAKE i \in 1 .. Len(sent[l])
        <5>1. sent[l][i] \in Pieces
          BY <4>1
        <5> QED BY <4>1, <5>1 DEF Pieces
      <4> DEFINE P == [chunk : 1 .. Len(chunks), cut : BOOLEAN]
                 s == sent[l]
      <4>3. s \in Seq(Pieces) /\ \A i \in 1 .. Len(s) : s[i] \in P
        BY <4>1, <4>2
      <4> HIDE DEF P, s
      <4>4. s \in Seq(P)
        BY <4>3
      <4> QED BY <4>4 DEF P, s
    <3> QED BY <3>1, <3>2, <3>3
  <2>5. /\ queue \in [Listeners -> Seq(1 .. Len(chunks))] /\ buffered \in [Listeners -> Nat]
        /\ sent \in [Listeners -> Seq([chunk : 1 .. Len(chunks), cut : BOOLEAN])]
    BY <2>1, <2>4 DEF Shape
  <2>6. unsynced \subseteq 2 .. Len(chunks)
    BY <2>1 DEF Shape, Synced
  <2> QED BY <2>1, <2>3, <2>5, <2>6 DEF Shape, HubTypeOK
<1> QED BY <1>1, GapsKept, PTL

============================================================================
