--------------------------- MODULE Aggregator_proofs ---------------------------
(***************************************************************************)
(* The numbers of the result, for every whitelist, every limit of hours    *)
(* and names, and files of any length.                                     *)
(***************************************************************************)
EXTENDS Aggregator, SequenceTheorems, FiniteSetTheorems,
        WellFoundedInduction, TLAPS

-----------------------------------------------------------------------------
(* Sums.  A sum over a finite set is the number of its units: pairs of an  *)
(* element and a number up to its value.                                   *)

Chosen(s) == CHOOSE x \in s : TRUE

\* g adds up f over each subset of S, one chosen element after the other.
AddsUp(g, f, S) ==
  g = [s \in SUBSET S |-> IF s = {} THEN 0 ELSE f[Chosen(s)] + g[s \ {Chosen(s)}]]

Units(S, f) == {p \in S \X Nat : p[2] \in 1 .. f[p[1]]}

\* There are finitely many units.
LEMMA UnitsFinite ==
  ASSUME NEW S, IsFiniteSet(S), NEW f \in [S -> Nat]
  PROVE  IsFiniteSet(Units(S, f))
<1> DEFINE h == [x \in S |-> {x} \X (1 .. f[x])]
           T == {h[x] : x \in S}
<1>1. IsFiniteSet(T)
  <2>1. h \in [S -> T] /\ \A u \in T : \E x \in S : h[x] = u
    OBVIOUS
  <2> HIDE DEF h, T
  <2>2. h \in Surjection(S, T)
    BY <2>1 DEF Surjection
  <2> QED
    BY <2>2, FS_Surjection
<1>2. ASSUME NEW t \in T PROVE IsFiniteSet(t)
  <2>1. PICK x \in S : t = {x} \X (1 .. f[x])
    OBVIOUS
  <2>2. IsFiniteSet({x})
    BY FS_Singleton
  <2>3. f[x] \in Int
    OBVIOUS
  <2>4. IsFiniteSet(1 .. f[x])
    BY <2>3, FS_Interval
  <2> QED
    BY <2>1, <2>2, <2>4, FS_Product
<1>3. IsFiniteSet(UNION T)
  <2> HIDE DEF T
  <2> QED
    BY <1>1, <1>2, FS_UNION
<1>4. Units(S, f) \subseteq UNION T
  <2> SUFFICES ASSUME NEW p \in Units(S, f) PROVE \E t \in T : p \in t
    OBVIOUS
  <2>1. p \in S \X Nat /\ p[2] \in 1 .. f[p[1]]
    BY DEF Units
  <2>2. p \in {p[1]} \X (1 .. f[p[1]]) /\ p[1] \in S
    BY <2>1
  <2> QED
    BY <2>2
<1> QED
  BY <1>3, <1>4, FS_Subset

\* One more element adds its value.
LEMMA UnitsAdd ==
  ASSUME NEW S, IsFiniteSet(S), NEW x, x \notin S, NEW f, f \in [S \cup {x} -> Nat]
  PROVE  /\ Cardinality(Units(S \cup {x}, f)) = Cardinality(Units(S, f)) + f[x]
         /\ Cardinality(Units(S, f)) \in Nat
<1> DEFINE U == Units(S, f)
           V == {x} \X (1 .. f[x])
<1>1. f[x] \in Nat
  OBVIOUS
<1>2. IsFiniteSet(U)
  <2> DEFINE g == [i \in S |-> f[i]]
  <2>1. g \in [S -> Nat] /\ Units(S, g) = U
    BY DEF Units
  <2> HIDE DEF g, U
  <2> QED
    BY <2>1, UnitsFinite
<1>3. IsFiniteSet(V) /\ Cardinality(V) = f[x]
  <2>1. IsFiniteSet({x}) /\ Cardinality({x}) = 1
    BY FS_Singleton
  <2>2. IsFiniteSet(1 .. f[x]) /\ Cardinality(1 .. f[x]) = f[x]
    BY <1>1, FS_Interval
  <2>3. IsFiniteSet(V) /\ Cardinality(V) = 1 * f[x]
    <3> DEFINE X == {x}
               Y == 1 .. f[x]
    <3>1. IsFiniteSet(X) /\ Cardinality(X) = 1 /\ IsFiniteSet(Y) /\ Cardinality(Y) = f[x]
      BY <2>1, <2>2
    <3> HIDE DEF X, Y
    <3>2. IsFiniteSet(X \X Y) /\ Cardinality(X \X Y) = 1 * f[x]
      BY <3>1, FS_Product
    <3> QED
      BY <3>2 DEF X, Y
  <2> QED
    BY <1>1, <2>3
<1>4. Units(S \cup {x}, f) = U \cup V
  BY <1>1 DEF Units
<1>5. U \cap V = {}
  BY DEF Units
<1>6. Cardinality(U) \in Nat
  BY <1>2, FS_CardinalityType
<1> HIDE DEF U, V
<1>7. Cardinality(U \cup V) = Cardinality(U) + f[x]
  <2>1. Cardinality(U \cup V) = Cardinality(U) + Cardinality(V) - Cardinality(U \cap V)
    BY <1>2, <1>3, FS_Union
  <2>2. Cardinality(U \cap V) = 0
    BY <1>5, FS_EmptySet
  <2> QED
    BY <1>1, <1>3, <1>6, <2>1, <2>2
<1> QED
  BY <1>4, <1>6, <1>7, Zenon DEF U

\* Counting units adds up.
LEMMA UnitsAddUp ==
  ASSUME NEW S, IsFiniteSet(S), NEW f \in [S -> Nat]
  PROVE  AddsUp([s \in SUBSET S |-> Cardinality(Units(s, f))], f, S)
<1> DEFINE g == [s \in SUBSET S |-> Cardinality(Units(s, f))]
<1>1. ASSUME NEW s \in SUBSET S, s # {}
      PROVE  g[s] = f[Chosen(s)] + g[s \ {Chosen(s)}]
  <2> DEFINE x == Chosen(s)
             t == s \ {x}
  <2>1. x \in s
    BY <1>1 DEF Chosen
  <2> HIDE DEF x
  <2>2. s = t \cup {x} /\ x \notin t /\ t \in SUBSET S
    BY <2>1
  <2>3. IsFiniteSet(t)
    BY <2>2, FS_Subset
  <2> DEFINE fs == [i \in s |-> f[i]]
  <2>4. fs \in [t \cup {x} -> Nat] /\ fs[x] = f[x] /\ f[x] \in Nat
    BY <2>1, <2>2
  <2>5. Units(s, fs) = Units(s, f) /\ Units(t, fs) = Units(t, f)
    <3>1. \A i \in s : fs[i] = f[i]
      OBVIOUS
    <3>2. t \subseteq s
      OBVIOUS
    <3> HIDE DEF fs, t
    <3>3. Units(s, fs) = Units(s, f)
      BY <3>1 DEF Units
    <3>4. Units(t, fs) = Units(t, f)
      BY <3>1, <3>2 DEF Units
    <3> QED
      BY <3>3, <3>4
  <2>6. g[s] = Cardinality(Units(s, fs)) /\ g[t] = Cardinality(Units(t, fs))
    <3> HIDE DEF t, fs
    <3> QED
      BY <2>2, <2>5
  <2> HIDE DEF fs, t, g
  <2>7. g[s] = g[t] + f[x] /\ g[t] \in Nat
    BY <2>2, <2>3, <2>4, <2>6, UnitsAdd
  <2> QED
    BY <2>4, <2>7 DEF x, t
<1>2. g[{}] = 0
  <2>1. Units({}, f) = {}
    BY DEF Units
  <2> QED
    BY <2>1, FS_EmptySet
<1> HIDE DEF g
<1>3. g = [s \in SUBSET S |-> g[s]]
  BY DEF g
<1>4. \A s \in SUBSET S : g[s] = IF s = {} THEN 0 ELSE f[Chosen(s)] + g[s \ {Chosen(s)}]
  BY <1>1, <1>2
<1>5. AddsUp(g, f, S)
  BY <1>3, <1>4 DEF AddsUp
<1> QED
  BY <1>5 DEF g

\* There is one way to add up: two that differ would differ first in a least
\* subset, whose sum is that of a smaller one and the same value.
LEMMA OneSum ==
  ASSUME NEW S, IsFiniteSet(S), NEW f, NEW g, NEW h, AddsUp(g, f, S), AddsUp(h, f, S)
  PROVE  g[S] = h[S]
<1> SUFFICES ASSUME g[S] # h[S] PROVE FALSE
  OBVIOUS
<1> DEFINE Differ == {s \in SUBSET S : g[s] # h[s]}
<1>1. Differ \subseteq FiniteSubsetsOf(S) /\ Differ # {}
  BY FS_FiniteSubsetsOfFinite
<1>2. IsWellFoundedOn(StrictSubsetOrdering(S), FiniteSubsetsOf(S))
  BY FS_StrictSubsetOrderingWellFounded
<1>3. PICK s \in Differ : \A t \in Differ : <<t, s>> \notin StrictSubsetOrdering(S)
  <2> HIDE DEF Differ
  <2> QED
    BY <1>1, <1>2, WFMin
<1>4. g[s] = IF s = {} THEN 0 ELSE f[Chosen(s)] + g[s \ {Chosen(s)}]
  BY DEF AddsUp
<1>5. h[s] = IF s = {} THEN 0 ELSE f[Chosen(s)] + h[s \ {Chosen(s)}]
  BY DEF AddsUp
<1>6. s # {}
  BY <1>4, <1>5
<1>7. Chosen(s) \in s
  BY <1>6 DEF Chosen
<1>8. <<s \ {Chosen(s)}, s>> \in StrictSubsetOrdering(S)
  BY <1>7 DEF StrictSubsetOrdering
<1>9. g[s \ {Chosen(s)}] = h[s \ {Chosen(s)}]
  BY <1>3, <1>8
<1> QED
  BY <1>4, <1>5, <1>6, <1>9

\* So a sum is the number of its units.
LEMMA SumIs ==
  ASSUME NEW S, IsFiniteSet(S), NEW f \in [S -> Nat], NEW g, AddsUp(g, f, S)
  PROVE  g[S] = Cardinality(Units(S, f))
<1> DEFINE h == [s \in SUBSET S |-> Cardinality(Units(s, f))]
<1>1. AddsUp(h, f, S)
  BY UnitsAddUp
<1>2. h[S] = Cardinality(Units(S, f))
  OBVIOUS
<1> HIDE DEF h
<1> QED
  BY <1>1, <1>2, OneSum

-----------------------------------------------------------------------------

\* The two sums of the model.
LEMMA SpeedSum ==
  ASSUME NEW S, IsFiniteSet(S), NEW sq, \A i \in S : Spd(sq[i]).v \in Nat
  PROVE  MapThenSumSet(LAMBDA i : Spd(sq[i]).v, S)
           = Cardinality(Units(S, [i \in S |-> Spd(sq[i]).v]))
<1> DEFINE f == [i \in S |-> Spd(sq[i]).v]
           P(g) == g = [s \in SUBSET S |->
                     IF s = {} THEN 0
                     ELSE Spd(sq[CHOOSE x \in s : TRUE]).v + g[s \ {CHOOSE x \in s : TRUE}]]
<1>1. MapThenSumSet(LAMBDA i : Spd(sq[i]).v, S) = (CHOOSE g : P(g))[S]
  BY DEF MapThenSumSet, MapThenFoldSet
<1>2. \A s \in SUBSET S : s # {} => f[Chosen(s)] = Spd(sq[CHOOSE x \in s : TRUE]).v
  <2> SUFFICES ASSUME NEW s \in SUBSET S, s # {}
               PROVE  f[Chosen(s)] = Spd(sq[CHOOSE x \in s : TRUE]).v
    OBVIOUS
  <2>1. Chosen(s) \in s
    BY DEF Chosen
  <2> QED
    BY <2>1 DEF Chosen
<1>3. f \in [S -> Nat]
  OBVIOUS
<1> HIDE DEF f
<1>4. \A g : P(g) <=> AddsUp(g, f, S)
  <2> SUFFICES ASSUME NEW g PROVE P(g) <=> AddsUp(g, f, S)
    OBVIOUS
  <2>1. \A s \in SUBSET S :
          (IF s = {} THEN 0
           ELSE Spd(sq[CHOOSE x \in s : TRUE]).v + g[s \ {CHOOSE x \in s : TRUE}])
          = (IF s = {} THEN 0 ELSE f[Chosen(s)] + g[s \ {Chosen(s)}])
    BY <1>2 DEF Chosen
  <2> QED
    BY <2>1 DEF AddsUp
<1> HIDE DEF P
<1>5. \E g : P(g)
  <2>1. AddsUp([s \in SUBSET S |-> Cardinality(Units(s, f))], f, S)
    BY <1>3, UnitsAddUp
  <2> QED
    BY <1>4, <2>1
<1>6. P(CHOOSE g : P(g))
  BY <1>5
<1>7. AddsUp(CHOOSE g : P(g), f, S)
  BY <1>4, <1>6
<1>8. (CHOOSE g : P(g))[S] = Cardinality(Units(S, f))
  BY <1>3, <1>7, SumIs
<1> QED
  BY <1>1, <1>8 DEF f

LEMMA RejectSum ==
  ASSUME NEW S, IsFiniteSet(S), NEW c, \A r \in S : c[r].count \in Nat
  PROVE  MapThenSumSet(LAMBDA r : c[r].count, S)
           = Cardinality(Units(S, [r \in S |-> c[r].count]))
<1> DEFINE f == [r \in S |-> c[r].count]
           P(g) == g = [s \in SUBSET S |->
                     IF s = {} THEN 0
                     ELSE c[CHOOSE x \in s : TRUE].count + g[s \ {CHOOSE x \in s : TRUE}]]
<1>1. MapThenSumSet(LAMBDA r : c[r].count, S) = (CHOOSE g : P(g))[S]
  BY DEF MapThenSumSet, MapThenFoldSet
<1>2. \A s \in SUBSET S : s # {} => f[Chosen(s)] = c[CHOOSE x \in s : TRUE].count
  <2> SUFFICES ASSUME NEW s \in SUBSET S, s # {}
               PROVE  f[Chosen(s)] = c[CHOOSE x \in s : TRUE].count
    OBVIOUS
  <2>1. Chosen(s) \in s
    BY DEF Chosen
  <2> QED
    BY <2>1 DEF Chosen
<1>3. f \in [S -> Nat]
  OBVIOUS
<1> HIDE DEF f
<1>4. \A g : P(g) <=> AddsUp(g, f, S)
  <2> SUFFICES ASSUME NEW g PROVE P(g) <=> AddsUp(g, f, S)
    OBVIOUS
  <2>1. \A s \in SUBSET S :
          (IF s = {} THEN 0
           ELSE c[CHOOSE x \in s : TRUE].count + g[s \ {CHOOSE x \in s : TRUE}])
          = (IF s = {} THEN 0 ELSE f[Chosen(s)] + g[s \ {Chosen(s)}])
    BY <1>2 DEF Chosen
  <2> QED
    BY <2>1 DEF AddsUp
<1> HIDE DEF P
<1>5. \E g : P(g)
  <2>1. AddsUp([s \in SUBSET S |-> Cardinality(Units(s, f))], f, S)
    BY <1>3, UnitsAddUp
  <2> QED
    BY <1>4, <2>1
<1>6. P(CHOOSE g : P(g))
  BY <1>5
<1>7. AddsUp(CHOOSE g : P(g), f, S)
  BY <1>4, <1>6
<1>8. (CHOOSE g : P(g))[S] = Cardinality(Units(S, f))
  BY <1>3, <1>7, SumIs
<1> QED
  BY <1>1, <1>8 DEF f

-----------------------------------------------------------------------------
(* The invariant.                                                          *)

\* The lines seen, by what is counted of them.
OfModule(m)   == {i \in GoodLines : seen[i].module = m}
OfHour(hour)  == {i \in GoodLines : seen[i].hour = hour}
OfBoth(hour, m) == {i \in GoodLines : seen[i].hour = hour /\ seen[i].module = m}
RejectedAs(r) == {i \in DOMAIN seen \ GoodLines : Reason(seen[i]) = r}
Named(n)      == {i \in RejectedAs("UnknownModule") : seen[i].module = n}

Bucket == [hour : Nat, count : [Modules -> Nat], total : Nat]

\* The types of what is counted.
Counters ==
  /\ total \in Nat /\ accepted \in Nat /\ oversize \in Nat /\ dropped \in Nat
  /\ moduleTotals \in [Modules -> Nat]
  /\ spdN \in Nat /\ spdSum \in Nat /\ spdMin \in Nat /\ spdMax \in Nat /\ spdOut \in Nat
  /\ corrupt \in [Reasons -> [count : Nat, first : Nat]]
  /\ done \in BOOLEAN
  /\ seen \in Seq(Lines) /\ total = Len(seen)

\* The hours and the cached one.
HoursFit ==
  /\ buckets \in Seq(Bucket)
  /\ Len(buckets) <= MaxBuckets
  /\ last \in [known : BOOLEAN, hour : Nat, index : Nat]
  /\ last.known => /\ last.index \in DOMAIN buckets
                   /\ buckets[last.index].hour = last.hour

NamesFit ==
  /\ names \in [DOMAIN names -> Nat]
  /\ IsFiniteSet(DOMAIN names)
  /\ Cardinality(DOMAIN names) <= MaxNames

Types == Counters /\ HoursFit /\ NamesFit

\* What the two sums add up.
Samples == [r \in Reasons |-> corrupt[r].count]
Speeds  == [i \in SpeedLines |-> Spd(seen[i]).v]

Dispositions ==
  /\ accepted = Cardinality(GoodLines)
  /\ total = accepted + Cardinality(Units(Reasons, Samples))
  /\ \A m \in Modules : moduleTotals[m] = Cardinality(OfModule(m))
  /\ \A r \in Reasons : corrupt[r].count = Cardinality(RejectedAs(r))

\* A sequence of buckets is sorted, and each counts the lines of its hour.
Sorted(b) == \A i \in DOMAIN b : \A j \in DOMAIN b : i < j => b[i].hour < b[j].hour

Exact(b) ==
  \A i \in DOMAIN b :
    /\ b[i].total = Cardinality(OfHour(b[i].hour))
    /\ \A m \in Modules : b[i].count[m] = Cardinality(OfBoth(b[i].hour, m))

HoursCounted ==
  /\ Sorted(buckets)
  /\ Exact(buckets)
  /\ \A k \in GoodLines : HasBucket(seen[k].hour) \/ Len(buckets) = MaxBuckets

NamesCounted ==
  /\ \A n \in DOMAIN names : names[n] = Cardinality(Named(n)) /\ Named(n) # {}
  /\ \A i \in RejectedAs("UnknownModule") :
       seen[i].module \in DOMAIN names \/ Cardinality(DOMAIN names) = MaxNames

FirstKept ==
  \A r \in Reasons : RejectedAs(r) # {} => corrupt[r].first = Min(RejectedAs(r))

SpeedsCounted ==
  /\ spdN = Cardinality(SpeedLines)
  /\ spdSum = Cardinality(Units(SpeedLines, Speeds))

\* The range is the one of the speeds, while every hour has its bucket.
Within == \A i \in GoodLines : HasBucket(seen[i].hour)

Bounds ==
  /\ \A i \in SpeedLines : spdMin <= Spd(seen[i]).v /\ Spd(seen[i]).v <= spdMax
  /\ SpeedLines # {} => /\ \E i \in SpeedLines : spdMin = Spd(seen[i]).v
                        /\ \E i \in SpeedLines : spdMax = Spd(seen[i]).v

RangeKept == Within => Bounds

AInv ==
  /\ Types /\ Dispositions /\ HoursCounted /\ NamesCounted /\ FirstKept
  /\ SpeedsCounted /\ RangeKept

-----------------------------------------------------------------------------
(* Least elements, one more element, lines.                                *)

\* A set of numbers has a least one: among the intervals that end in it one
\* is inside all others.
LEMMA MinIs ==
  ASSUME NEW S \in SUBSET Nat, S # {}
  PROVE  Min(S) \in S /\ \A j \in S : Min(S) <= j
<1> DEFINE Below(i) == 0 .. i
           Family == {Below(i) : i \in S}
<1>1. Family \subseteq FiniteSubsetsOf(Nat) /\ Family # {}
  <2>1. \A i \in S : IsFiniteSet(Below(i)) /\ Below(i) \subseteq Nat
    BY FS_Interval
  <2> QED
    BY <2>1 DEF FiniteSubsetsOf
<1>2. IsWellFoundedOn(StrictSubsetOrdering(Nat), FiniteSubsetsOf(Nat))
  BY FS_StrictSubsetOrderingWellFounded
<1>3. PICK x \in Family : \A y \in Family : <<y, x>> \notin StrictSubsetOrdering(Nat)
  <2> HIDE DEF Family
  <2> QED
    BY <1>1, <1>2, WFMin
<1>4. PICK i \in S : x = Below(i)
  OBVIOUS
<1>5. ASSUME NEW j \in S, ~(i <= j) PROVE FALSE
  <2>1. i \in Below(i) /\ i \notin Below(j) /\ Below(j) \subseteq Below(i)
        /\ Below(i) \subseteq Nat /\ Below(j) \subseteq Nat
    BY <1>5
  <2> HIDE DEF Below
  <2>2. <<Below(j), Below(i)>> \in StrictSubsetOrdering(Nat)
    BY <2>1 DEF StrictSubsetOrdering
  <2>3. Below(j) \in Family
    OBVIOUS
  <2> QED
    BY <1>3, <1>4, <2>2, <2>3
<1>6. \A j \in S : i <= j
  BY <1>5
<1> QED
  BY <1>6 DEF Min

\* The least element stays when a greater one joins.
LEMMA MinStays ==
  ASSUME NEW S \in SUBSET Nat, S # {}, NEW n \in Nat, \A j \in S : j <= n
  PROVE  Min(S \cup {n}) = Min(S)
<1>1. /\ Min(S) \in S /\ \A j \in S : Min(S) <= j
      /\ Min(S \cup {n}) \in S \cup {n} /\ \A j \in S \cup {n} : Min(S \cup {n}) <= j
  BY MinIs
<1> DEFINE a == Min(S)
           b == Min(S \cup {n})
<1>2. a \in Nat /\ b \in Nat /\ a <= b /\ b <= a
  BY <1>1
<1> HIDE DEF a, b
<1>3. a = b
  BY <1>2
<1> QED
  BY <1>3 DEF a, b

LEMMA MinOfOne == ASSUME NEW n \in Nat PROVE Min({n}) = n
<1>1. Min({n}) \in {n}
  BY MinIs
<1> QED
  BY <1>1

LEMMA OneMore ==
  ASSUME NEW S, IsFiniteSet(S), NEW n, n \notin S
  PROVE  Cardinality(S) \in Nat /\ Cardinality(S \cup {n}) = Cardinality(S) + 1
BY FS_CardinalityType, FS_AddElement

\* What is known of a line.
LEMMA LineFacts ==
  ASSUME NEW line \in Lines
  PROVE  /\ line.hour \in Nat /\ Spd(line).v \in Nat
         /\ Good(line) => line.module \in Modules
         /\ ~Good(line) => Reason(line) \in Reasons
<1>1. line.hour \in Nat /\ line.speeds \in Seq(Speed)
  BY AggregatorAssumption
<1>2. Spd(line).v \in Nat
  <2> DEFINE own == {i \in DOMAIN line.speeds : line.speeds[i].kind # "tail"}
  <2>1. CASE own = {}
    BY <2>1 DEF Spd
  <2>2. CASE own # {}
    <3>1. own \in SUBSET Nat
      BY <1>1, LenProperties
    <3>2. Min(own) \in own
      BY <2>2, <3>1, MinIs
    <3>3. Min(own) \in 1 .. Len(line.speeds)
      BY <1>1, <3>2, LenProperties
    <3>4. line.speeds[Min(own)] \in Speed
      BY <1>1, <3>3, ElementOfSeq
    <3>5. Spd(line) = line.speeds[Min(own)]
      BY <2>2 DEF Spd
    <3> HIDE DEF own
    <3> QED
      BY <3>4, <3>5 DEF Speed
  <2> QED
    BY <2>1, <2>2
<1>3. ASSUME Good(line) PROVE line.module \in Modules
  <2>1. 9 \in DOMAIN Checks /\ Checks[9][1] = "module"
    BY DEF Checks
  <2> QED
    BY <1>3, <2>1 DEF Good, Failed
<1>4. ASSUME ~Good(line) PROVE Reason(line) \in Reasons
  <2>1. Failed(line) # {} /\ Failed(line) \subseteq DOMAIN Checks
    BY <1>4 DEF Good, Failed
  <2>2. DOMAIN Checks \subseteq Nat
    BY DEF Checks
  <2>3. Min(Failed(line)) \in DOMAIN Checks
    BY <2>1, <2>2, MinIs
  <2> QED
    BY <2>3 DEF Reason, Reasons
<1> QED
  BY <1>1, <1>2, <1>3, <1>4

LEMMA ReasonsFinite == IsFiniteSet(Reasons)
<1> DEFINE h == [i \in 1 .. 10 |-> Checks[i][2]]
<1>1. h \in [1 .. 10 -> Reasons] /\ \A r \in Reasons : \E i \in 1 .. 10 : h[i] = r
  <2>1. DOMAIN Checks = 1 .. 10
    BY DEF Checks
  <2> QED
    BY <2>1 DEF Reasons
<1> HIDE DEF h
<1>2. h \in Surjection(1 .. 10, Reasons)
  BY <1>1 DEF Surjection
<1>3. IsFiniteSet(1 .. 10)
  <2>1. \A n \in Int : IsFiniteSet(1 .. n)
    BY FS_Interval
  <2>2. 10 \in Int
    OBVIOUS
  <2> QED
    BY <2>1, <2>2, Zenon
<1> QED
  BY <1>2, <1>3, FS_Surjection

-----------------------------------------------------------------------------
(* The sets of lines, before and after a line is added.                    *)

LEMMA Finite ==
  ASSUME Types
  PROVE  /\ IsFiniteSet(DOMAIN seen) /\ DOMAIN seen = 1 .. total
         /\ total \in Nat /\ DOMAIN seen \subseteq Nat
         /\ \A i \in DOMAIN seen : seen[i] \in Lines
         /\ IsFiniteSet(GoodLines) /\ GoodLines \subseteq DOMAIN seen
         /\ \A m : IsFiniteSet(OfModule(m))
         /\ \A h : IsFiniteSet(OfHour(h)) /\ \A m : IsFiniteSet(OfBoth(h, m))
         /\ \A r : IsFiniteSet(RejectedAs(r)) /\ RejectedAs(r) \subseteq DOMAIN seen
         /\ \A n : IsFiniteSet(Named(n))
         /\ IsFiniteSet(SpeedLines) /\ SpeedLines \subseteq GoodLines
<1>1. /\ total \in Nat /\ DOMAIN seen = 1 .. total /\ seen \in Seq(Lines)
  BY LenProperties DEF Types, Counters
<1>2. IsFiniteSet(DOMAIN seen) /\ DOMAIN seen \subseteq Nat
  BY <1>1, FS_Interval
<1>3. \A i \in DOMAIN seen : seen[i] \in Lines
  BY <1>1, ElementOfSeq
<1>4. \A T \in SUBSET DOMAIN seen : IsFiniteSet(T)
  BY <1>2, FS_Subset
<1>5. /\ GoodLines \subseteq DOMAIN seen /\ SpeedLines \subseteq GoodLines
      /\ \A m : OfModule(m) \subseteq DOMAIN seen
      /\ \A h : OfHour(h) \subseteq DOMAIN seen
      /\ \A h, m : OfBoth(h, m) \subseteq DOMAIN seen
      /\ \A r : RejectedAs(r) \subseteq DOMAIN seen
      /\ \A n : Named(n) \subseteq DOMAIN seen
  BY DEF GoodLines, Where, SpeedLines, OfModule, OfHour, OfBoth, RejectedAs, Named
<1> QED
  BY <1>1, <1>2, <1>3, <1>4, <1>5

LEMMA Grown ==
  ASSUME Types, NEW line \in Lines, Adding(line)
  PROVE  /\ total' = total + 1 /\ DOMAIN seen' = DOMAIN seen \cup {total + 1}
         /\ total + 1 \in Nat /\ total + 1 \notin DOMAIN seen
         /\ seen'[total + 1] = line
         /\ \A i \in DOMAIN seen : seen'[i] = seen[i]
         /\ seen' \in Seq(Lines) /\ total' = Len(seen')
<1>1. seen \in Seq(Lines) /\ total = Len(seen) /\ total \in Nat
  BY DEF Types, Counters
<1>2. seen' = Append(seen, line) /\ total' = total + 1
  BY DEF Adding
<1>3. /\ seen' \in Seq(Lines) /\ Len(seen') = total + 1
      /\ \A i \in 1 .. total : seen'[i] = seen[i]
      /\ seen'[total + 1] = line
  BY <1>1, <1>2, AppendProperties
<1>4. DOMAIN seen = 1 .. total /\ DOMAIN seen' = 1 .. total + 1
  BY <1>1, <1>3, LenProperties
<1> QED
  BY <1>1, <1>2, <1>3, <1>4

LEMMA AcceptSets ==
  ASSUME Types, NEW line \in Lines, Adding(line), Good(line)
  PROVE  /\ GoodLines' = GoodLines \cup {total + 1}
         /\ \A m : OfModule(m)' = IF line.module = m THEN OfModule(m) \cup {total + 1}
                                                     ELSE OfModule(m)
         /\ \A h : OfHour(h)' = IF line.hour = h THEN OfHour(h) \cup {total + 1}
                                                 ELSE OfHour(h)
         /\ \A h, m : OfBoth(h, m)' = IF line.hour = h /\ line.module = m
                                      THEN OfBoth(h, m) \cup {total + 1}
                                      ELSE OfBoth(h, m)
         /\ \A r : RejectedAs(r)' = RejectedAs(r)
         /\ \A n : Named(n)' = Named(n)
         /\ SpeedLines' = IF HasSpd(line) THEN SpeedLines \cup {total + 1} ELSE SpeedLines
<1> DEFINE n == total + 1
<1>1. /\ DOMAIN seen' = DOMAIN seen \cup {n} /\ n \notin DOMAIN seen /\ seen'[n] = line
      /\ \A i \in DOMAIN seen : seen'[i] = seen[i]
  BY Grown
<1> HIDE DEF n
<1>2. GoodLines' = GoodLines \cup {n}
  BY <1>1 DEF GoodLines, Where
<1>3. GoodLines \subseteq DOMAIN seen
  BY DEF GoodLines, Where
<1>4. ASSUME NEW m PROVE OfModule(m)' = IF line.module = m THEN OfModule(m) \cup {n} ELSE OfModule(m)
  BY <1>1, <1>2, <1>3 DEF OfModule
<1>5. ASSUME NEW h PROVE OfHour(h)' = IF line.hour = h THEN OfHour(h) \cup {n} ELSE OfHour(h)
  BY <1>1, <1>2, <1>3 DEF OfHour
<1>6. ASSUME NEW h, NEW m
      PROVE  OfBoth(h, m)' = IF line.hour = h /\ line.module = m THEN OfBoth(h, m) \cup {n}
                                                                 ELSE OfBoth(h, m)
  BY <1>1, <1>2, <1>3 DEF OfBoth
<1>7. DOMAIN seen' \ GoodLines' = DOMAIN seen \ GoodLines
  BY <1>1, <1>2
<1>8. \A r : RejectedAs(r)' = RejectedAs(r)
  BY <1>1, <1>7 DEF RejectedAs
<1>9. \A r : RejectedAs(r) \subseteq DOMAIN seen
  BY DEF RejectedAs
<1>10. \A x : Named(x)' = Named(x)
  BY <1>1, <1>8, <1>9 DEF Named
<1>11. SpeedLines' = IF HasSpd(line) THEN SpeedLines \cup {n} ELSE SpeedLines
  BY <1>1, <1>2, <1>3 DEF SpeedLines
<1> QED
  BY <1>2, <1>4, <1>5, <1>6, <1>8, <1>10, <1>11 DEF n

LEMMA RejectSets ==
  ASSUME Types, NEW line \in Lines, Adding(line), ~Good(line)
  PROVE  /\ GoodLines' = GoodLines
         /\ \A m : OfModule(m)' = OfModule(m)
         /\ \A h : OfHour(h)' = OfHour(h)
         /\ \A h, m : OfBoth(h, m)' = OfBoth(h, m)
         /\ \A r : RejectedAs(r)' = IF Reason(line) = r THEN RejectedAs(r) \cup {total + 1}
                                                        ELSE RejectedAs(r)
         /\ \A n : Named(n)' = IF Reason(line) = "UnknownModule" /\ line.module = n
                               THEN Named(n) \cup {total + 1} ELSE Named(n)
         /\ SpeedLines' = SpeedLines
<1> DEFINE n == total + 1
<1>1. /\ DOMAIN seen' = DOMAIN seen \cup {n} /\ n \notin DOMAIN seen /\ seen'[n] = line
      /\ \A i \in DOMAIN seen : seen'[i] = seen[i]
  BY Grown
<1> HIDE DEF n
<1>2. GoodLines' = GoodLines
  BY <1>1 DEF GoodLines, Where
<1>3. GoodLines \subseteq DOMAIN seen
  BY DEF GoodLines, Where
<1>4. \A m : OfModule(m)' = OfModule(m)
  BY <1>1, <1>2, <1>3 DEF OfModule
<1>5. \A h : OfHour(h)' = OfHour(h)
  BY <1>1, <1>2, <1>3 DEF OfHour
<1>6. \A h, m : OfBoth(h, m)' = OfBoth(h, m)
  BY <1>1, <1>2, <1>3 DEF OfBoth
<1>7. DOMAIN seen' \ GoodLines' = (DOMAIN seen \ GoodLines) \cup {n}
  BY <1>1, <1>2, <1>3
<1>8. ASSUME NEW r PROVE RejectedAs(r)' = IF Reason(line) = r THEN RejectedAs(r) \cup {n} ELSE RejectedAs(r)
  BY <1>1, <1>7 DEF RejectedAs
<1>9. \A r : RejectedAs(r) \subseteq DOMAIN seen
  BY DEF RejectedAs
<1>10. ASSUME NEW x
       PROVE  Named(x)' = IF Reason(line) = "UnknownModule" /\ line.module = x
                          THEN Named(x) \cup {n} ELSE Named(x)
  <2> DEFINE u == "UnknownModule"
  <2>1. RejectedAs(u)' = IF Reason(line) = u THEN RejectedAs(u) \cup {n} ELSE RejectedAs(u)
    BY <1>8
  <2>2. RejectedAs(u) \subseteq DOMAIN seen
    BY <1>9
  <2> QED
    BY <1>1, <2>1, <2>2 DEF Named
<1>11. SpeedLines' = SpeedLines
  BY <1>1, <1>2, <1>3 DEF SpeedLines
<1> QED
  BY <1>2, <1>4, <1>5, <1>6, <1>8, <1>10, <1>11 DEF n

-----------------------------------------------------------------------------
(* Steps that count no line.                                               *)

LEMMA NoLines ==
  ASSUME seen = << >>
  PROVE  /\ DOMAIN seen = {} /\ GoodLines = {} /\ SpeedLines = {}
         /\ \A m : OfModule(m) = {}
         /\ \A h : OfHour(h) = {} /\ \A m : OfBoth(h, m) = {}
         /\ \A r : RejectedAs(r) = {}
BY DEF GoodLines, Where, SpeedLines, OfModule, OfHour, OfBoth, RejectedAs

LEMMA InitInv == Init => AInv
<1> SUFFICES ASSUME Init PROVE AInv
  OBVIOUS
<1>1. seen = << >> /\ total = 0 /\ accepted = 0 /\ buckets = << >> /\ names = << >>
  BY DEF Init
<1>2. /\ DOMAIN seen = {} /\ GoodLines = {} /\ SpeedLines = {}
      /\ \A m : OfModule(m) = {}
      /\ \A h : OfHour(h) = {} /\ \A m : OfBoth(h, m) = {}
      /\ \A r : RejectedAs(r) = {}
  BY <1>1, NoLines
<1>3. IsFiniteSet({}) /\ Cardinality({}) = 0
  BY FS_EmptySet
<1>4. DOMAIN names = {} /\ DOMAIN buckets = {} /\ Len(buckets) = 0
  BY <1>1
<1>5. MaxBuckets \in Nat /\ MaxNames \in Nat
  BY AggregatorAssumption
<1>6. corrupt = [r \in Reasons |-> NoSample]
  BY DEF Init
<1>7. Counters
  <2>1. seen \in Seq(Lines) /\ total = Len(seen)
    BY <1>1
  <2>2. corrupt \in [Reasons -> [count : Nat, first : Nat]]
    BY <1>6 DEF NoSample
  <2>3. moduleTotals \in [Modules -> Nat]
    BY DEF Init
  <2>4. /\ oversize = 0 /\ dropped = 0 /\ done = FALSE
        /\ spdN = 0 /\ spdSum = 0 /\ spdMin = 0 /\ spdMax = 0 /\ spdOut = 0
    BY DEF Init
  <2>5. total \in Nat /\ accepted \in Nat
    BY <1>1
  <2>6. /\ oversize \in Nat /\ dropped \in Nat /\ done \in BOOLEAN
        /\ spdN \in Nat /\ spdSum \in Nat /\ spdMin \in Nat /\ spdMax \in Nat
        /\ spdOut \in Nat
    BY <2>4
  <2> QED
    BY <2>1, <2>2, <2>3, <2>5, <2>6, Zenon DEF Counters
<1>8. HoursFit
  <2>1. last = NoCache
    BY DEF Init
  <2>2. last \in [known : BOOLEAN, hour : Nat, index : Nat] /\ ~last.known
    BY <2>1 DEF NoCache
  <2>3. buckets \in Seq(Bucket)
    BY <1>1
  <2> QED
    BY <1>4, <1>5, <2>2, <2>3 DEF HoursFit
<1>9. NamesFit
  <2>1. names \in [DOMAIN names -> Nat]
    BY <1>1
  <2> QED
    BY <1>3, <1>4, <1>5, <2>1 DEF NamesFit
<1>10. Dispositions
  <2>1. Units(Reasons, Samples) = {}
    BY <1>6 DEF Units, Samples, NoSample
  <2>2. Cardinality(Units(Reasons, Samples)) = 0
    BY <1>3, <2>1
  <2>3. \A m \in Modules : moduleTotals[m] = 0
    BY DEF Init
  <2>4. \A r \in Reasons : corrupt[r].count = 0
    BY <1>6 DEF NoSample
  <2>5. \A m \in Modules : moduleTotals[m] = Cardinality(OfModule(m))
    BY <1>2, <1>3, <2>3, Zenon
  <2>6. \A r \in Reasons : corrupt[r].count = Cardinality(RejectedAs(r))
    BY <1>2, <1>3, <2>4, Zenon
  <2>7. /\ accepted = Cardinality(GoodLines)
        /\ total = accepted + Cardinality(Units(Reasons, Samples))
    BY <1>1, <1>2, <1>3, <2>2
  <2> QED
    BY <2>5, <2>6, <2>7 DEF Dispositions
<1>11. HoursCounted
  BY <1>2, <1>4 DEF HoursCounted, Sorted, Exact
<1>12. NamesCounted /\ FirstKept /\ RangeKept
  BY <1>2, <1>4 DEF NamesCounted, FirstKept, RangeKept, Bounds
<1>13. SpeedsCounted
  <2>1. spdN = 0 /\ spdSum = 0
    BY DEF Init
  <2>2. Units(SpeedLines, Speeds) = {}
    BY <1>2 DEF Units
  <2> QED
    BY <1>2, <1>3, <2>1, <2>2, Zenon DEF SpeedsCounted
<1> QED
  BY <1>7, <1>8, <1>9, <1>10, <1>11, <1>12, <1>13 DEF AInv, Types

\* Begin leaves what Init finds.
LEMMA BeginInv == Begin => AInv'
<1>1. Begin => Init'
  BY DEF Begin, Init, ResetRejects
<1>2. Init' => AInv'
  BY InitInv, PTL
<1> QED
  BY <1>1, <1>2

\* The lines and what is counted of them stay.
Uncounted == UNCHANGED <<speedVars, countVars, hourVars, rejectVars, total, seen>>

LEMMA UncountedInv ==
  ASSUME AInv, Uncounted, Counters' PROVE AInv'
<1>1. /\ UNCHANGED <<spdN, spdSum, spdMin, spdMax>>
      /\ UNCHANGED <<accepted, moduleTotals, spdOut>>
      /\ UNCHANGED <<buckets, last, corrupt, names, total, seen>>
  BY DEF Uncounted, speedVars, countVars, hourVars, rejectVars
<1>2. GoodLines' = GoodLines
  BY <1>1 DEF GoodLines, Where
<1>3. /\ \A m : OfModule(m)' = OfModule(m)
      /\ \A h : OfHour(h)' = OfHour(h) /\ \A m : OfBoth(h, m)' = OfBoth(h, m)
      /\ \A r : RejectedAs(r)' = RejectedAs(r)
      /\ \A n : Named(n)' = Named(n)
      /\ SpeedLines' = SpeedLines
  BY <1>1, <1>2 DEF OfModule, OfHour, OfBoth, RejectedAs, Named, SpeedLines
<1>4. \A h : HasBucket(h)' <=> HasBucket(h)
  BY <1>1 DEF HasBucket
<1>5. HoursFit' /\ NamesFit'
  BY <1>1 DEF AInv, Types, HoursFit, NamesFit
<1>6. Dispositions'
  <2>1. Samples' = Samples
    BY <1>1 DEF Samples
  <2> QED
    BY <1>1, <1>2, <1>3, <2>1 DEF AInv, Dispositions
<1>7. HoursCounted'
  BY <1>1, <1>2, <1>3, <1>4 DEF AInv, HoursCounted, Sorted, Exact
<1>8. NamesCounted' /\ FirstKept'
  BY <1>1, <1>3 DEF AInv, NamesCounted, FirstKept
<1>9. SpeedsCounted'
  <2>1. Speeds' = Speeds
    BY <1>1, <1>3 DEF Speeds
  <2> QED
    BY <1>1, <1>3, <2>1 DEF AInv, SpeedsCounted
<1>10. RangeKept'
  <2>1. Within' <=> Within
    BY <1>1, <1>2 DEF Within, HasBucket
  <2> QED
    BY <1>1, <1>3, <2>1 DEF AInv, RangeKept, Bounds
<1> QED
  BY <1>5, <1>6, <1>7, <1>8, <1>9, <1>10 DEF AInv, Types

LEMMA DropInv == AInv /\ DropLine => AInv'
<1> SUFFICES ASSUME AInv, DropLine PROVE AInv'
  OBVIOUS
<1>1. Uncounted /\ dropped' = dropped + 1 /\ UNCHANGED <<oversize, done>>
  BY DEF DropLine, Uncounted
<1>2. Counters'
  BY <1>1 DEF AInv, Types, Counters, Uncounted, speedVars, countVars, hourVars, rejectVars
<1> QED
  BY <1>1, <1>2, UncountedInv

LEMMA FinishInv == AInv /\ Finish => AInv'
<1> SUFFICES ASSUME AInv, Finish PROVE AInv'
  OBVIOUS
<1>1. Uncounted /\ oversize' = oversize + dropped /\ done' = TRUE /\ UNCHANGED dropped
  BY DEF Finish, Uncounted
<1>2. Counters'
  BY <1>1 DEF AInv, Types, Counters, Uncounted, speedVars, countVars, hourVars, rejectVars
<1> QED
  BY <1>1, <1>2, UncountedInv

LEMMA StutterInv == AInv /\ UNCHANGED vars => AInv'
<1> SUFFICES ASSUME AInv, UNCHANGED vars PROVE AInv'
  OBVIOUS
<1>1. Uncounted /\ UNCHANGED <<oversize, dropped, done>>
  BY DEF vars, Uncounted
<1>2. Counters'
  BY <1>1 DEF AInv, Types, Counters, Uncounted, speedVars, countVars, hourVars, rejectVars
<1> QED
  BY <1>1, <1>2, UncountedInv


-----------------------------------------------------------------------------
(* A line is rejected.                                                     *)

\* One more unit of one element.
LEMMA UnitsGrow ==
  ASSUME NEW S, IsFiniteSet(S), NEW f \in [S -> Nat], NEW g \in [S -> Nat], NEW x \in S,
         g[x] = f[x] + 1, \A y \in S : y # x => g[y] = f[y]
  PROVE  /\ Cardinality(Units(S, g)) = Cardinality(Units(S, f)) + 1
         /\ Cardinality(Units(S, f)) \in Nat
<1> DEFINE u == <<x, f[x] + 1>>
<1>1. \A p \in S \X Nat : p[2] \in 1 .. g[p[1]] <=> p[2] \in 1 .. f[p[1]] \/ p = u
  <2> SUFFICES ASSUME NEW p \in S \X Nat
               PROVE  p[2] \in 1 .. g[p[1]] <=> p[2] \in 1 .. f[p[1]] \/ p = u
    OBVIOUS
  <2>1. CASE p[1] = x
    <3>1. p = u <=> p[2] = f[x] + 1
      BY <2>1
    <3>2. p[2] \in Nat /\ f[x] \in Nat
      OBVIOUS
    <3> QED
      BY <2>1, <3>1, <3>2
  <2>2. CASE p[1] # x
    <3>1. p # u /\ g[p[1]] = f[p[1]]
      BY <2>2
    <3> QED
      BY <3>1
  <2> QED
    BY <2>1, <2>2
<1>2. u \in S \X Nat /\ ~(u[2] \in 1 .. f[u[1]])
  OBVIOUS
<1> HIDE DEF u
<1>3. Units(S, g) = Units(S, f) \cup {u}
  BY <1>1, <1>2 DEF Units
<1>4. u \notin Units(S, f)
  BY <1>2 DEF Units
<1>5. IsFiniteSet(Units(S, f))
  BY UnitsFinite
<1> QED
  BY <1>3, <1>4, <1>5, OneMore

\* What record_reject does to the samples.
LEMMA SampleStep ==
  ASSUME AInv, NEW line \in Lines, RejectLine(line)
  PROVE  /\ Reason(line) \in Reasons
         /\ corrupt' \in [Reasons -> [count : Nat, first : Nat]]
         /\ \A r \in Reasons : r # Reason(line) => corrupt'[r] = corrupt[r]
         /\ corrupt'[Reason(line)].count = corrupt[Reason(line)].count + 1
         /\ corrupt'[Reason(line)].first =
              IF corrupt[Reason(line)].count = 0 THEN total + 1
              ELSE corrupt[Reason(line)].first
<1> DEFINE reason == Reason(line)
           sample == corrupt[reason]
<1>1. Reason(line) \in Reasons
  BY LineFacts DEF RejectLine
<1>2. corrupt \in [Reasons -> [count : Nat, first : Nat]]
  BY DEF AInv, Types, Counters
<1>3. total' = total + 1 /\ total + 1 \in Nat
  BY Grown DEF RejectLine, AInv
<1>4. corrupt' = [corrupt EXCEPT ![reason] =
           [count |-> sample.count + 1,
            first |-> IF sample.count = 0 THEN total + 1 ELSE sample.first]]
  BY <1>3 DEF RejectLine
<1> QED
  BY <1>1, <1>2, <1>3, <1>4

\* What stays when a line is rejected, and the lines it joins.
LEMMA RejectStays ==
  ASSUME AInv, NEW line \in Lines, RejectLine(line)
  PROVE  /\ Types /\ Adding(line) /\ ~Good(line)
         /\ UNCHANGED <<accepted, moduleTotals, spdOut>>
         /\ UNCHANGED <<spdN, spdSum, spdMin, spdMax>>
         /\ UNCHANGED <<buckets, last>>
         /\ UNCHANGED <<oversize, dropped, done>>
BY DEF AInv, RejectLine, Adding, countVars, speedVars, hourVars

LEMMA RejectTypes ==
  ASSUME AInv, NEW line \in Lines, RejectLine(line)
  PROVE  Counters' /\ HoursFit'
<1>1. Counters /\ HoursFit
  BY DEF AInv, Types
<1>2. /\ total' = total + 1 /\ total + 1 \in Nat
      /\ seen' \in Seq(Lines) /\ total' = Len(seen')
  BY RejectStays, Grown
<1>3. corrupt' \in [Reasons -> [count : Nat, first : Nat]]
  BY SampleStep
<1>4. Counters'
  BY <1>1, <1>2, <1>3, RejectStays DEF Counters
<1>5. HoursFit'
  BY <1>1, RejectStays DEF HoursFit
<1> QED
  BY <1>4, <1>5

LEMMA RejectDispositions ==
  ASSUME AInv, NEW line \in Lines, RejectLine(line)
  PROVE  Dispositions'
<1> DEFINE reason == Reason(line)
           n == total + 1
<1>1. Types /\ Dispositions
  BY DEF AInv
<1>2. Adding(line) /\ ~Good(line) /\ accepted' = accepted /\ moduleTotals' = moduleTotals
  BY RejectStays
<1>3. /\ GoodLines' = GoodLines
      /\ \A m : OfModule(m)' = OfModule(m)
      /\ \A r : RejectedAs(r)' = IF reason = r THEN RejectedAs(r) \cup {n} ELSE RejectedAs(r)
  BY <1>1, <1>2, RejectSets
<1>4. total' = total + 1 /\ n \notin DOMAIN seen /\ total \in Nat
  BY <1>1, <1>2, Grown DEF Types, Counters
<1>5. /\ reason \in Reasons
      /\ corrupt \in [Reasons -> [count : Nat, first : Nat]]
      /\ corrupt' \in [Reasons -> [count : Nat, first : Nat]]
      /\ \A r \in Reasons : r # reason => corrupt'[r] = corrupt[r]
      /\ corrupt'[reason].count = corrupt[reason].count + 1
  BY <1>1, SampleStep DEF Types, Counters
<1> HIDE DEF reason, n
<1>6. total' = accepted' + Cardinality(Units(Reasons, Samples'))
  <2>1. Samples \in [Reasons -> Nat] /\ Samples' \in [Reasons -> Nat]
    BY <1>5 DEF Samples
  <2>2. Samples'[reason] = Samples[reason] + 1
        /\ \A r \in Reasons : r # reason => Samples'[r] = Samples[r]
    BY <1>5 DEF Samples
  <2> DEFINE f == Samples
             g == Samples'
  <2> HIDE DEF f, g
  <2>3. f \in [Reasons -> Nat] /\ g \in [Reasons -> Nat]
    BY <2>1 DEF f, g
  <2>4. g[reason] = f[reason] + 1 /\ \A r \in Reasons : r # reason => g[r] = f[r]
    BY <2>2 DEF f, g
  <2>5. /\ Cardinality(Units(Reasons, g)) = Cardinality(Units(Reasons, f)) + 1
        /\ Cardinality(Units(Reasons, f)) \in Nat
    BY <1>5, <2>3, <2>4, ReasonsFinite, UnitsGrow
  <2>6. total = accepted + Cardinality(Units(Reasons, f)) /\ accepted \in Nat
    BY <1>1 DEF Dispositions, Types, Counters, f
  <2>7. total' = accepted' + Cardinality(Units(Reasons, g))
    BY <1>2, <1>4, <2>5, <2>6
  <2> QED
    BY <2>7 DEF g
<1>7. \A r \in Reasons : corrupt'[r].count = Cardinality(RejectedAs(r)')
  <2> SUFFICES ASSUME NEW r \in Reasons
               PROVE  corrupt'[r].count = Cardinality(RejectedAs(r)')
    OBVIOUS
  <2>1. corrupt[r].count = Cardinality(RejectedAs(r))
    BY <1>1 DEF Dispositions
  <2>2. IsFiniteSet(RejectedAs(r)) /\ n \notin RejectedAs(r)
    BY <1>1, <1>4, Finite
  <2>3. Cardinality(RejectedAs(r) \cup {n}) = Cardinality(RejectedAs(r)) + 1
    BY <2>2, OneMore
  <2> QED
    BY <1>3, <1>5, <2>1, <2>3
<1> QED
  BY <1>1, <1>2, <1>3, <1>6, <1>7 DEF Dispositions

LEMMA RejectHours ==
  ASSUME AInv, NEW line \in Lines, RejectLine(line)
  PROVE  HoursCounted' /\ SpeedsCounted' /\ RangeKept'
<1>1. Types /\ HoursCounted /\ SpeedsCounted /\ RangeKept
  BY DEF AInv
<1>2. /\ Adding(line) /\ ~Good(line) /\ buckets' = buckets
      /\ UNCHANGED <<spdN, spdSum, spdMin, spdMax>>
  BY RejectStays
<1>3. /\ GoodLines' = GoodLines
      /\ \A h : OfHour(h)' = OfHour(h) /\ \A m : OfBoth(h, m)' = OfBoth(h, m)
      /\ SpeedLines' = SpeedLines
  BY <1>1, <1>2, RejectSets
<1>4. \A i \in DOMAIN seen : seen'[i] = seen[i]
  BY <1>1, <1>2, Grown
<1>5. GoodLines \subseteq DOMAIN seen /\ SpeedLines \subseteq GoodLines
  BY <1>1, Finite
<1>6. \A h : HasBucket(h)' <=> HasBucket(h)
  BY <1>2 DEF HasBucket
<1>7. HoursCounted'
  BY <1>1, <1>2, <1>3, <1>4, <1>5, <1>6 DEF HoursCounted, Sorted, Exact
<1>8. SpeedsCounted'
  <2>1. Speeds' = Speeds
    BY <1>3, <1>4, <1>5 DEF Speeds
  <2> QED
    BY <1>1, <1>2, <1>3, <2>1 DEF SpeedsCounted
<1>9. RangeKept'
  <2>1. Within' <=> Within
    BY <1>2, <1>3, <1>4, <1>5 DEF Within, HasBucket
  <2>2. \A i \in SpeedLines : seen'[i] = seen[i]
    BY <1>4, <1>5
  <2> QED
    BY <1>1, <1>2, <1>3, <2>1, <2>2 DEF RangeKept, Bounds
<1> QED
  BY <1>7, <1>8, <1>9

LEMMA RejectFirst ==
  ASSUME AInv, NEW line \in Lines, RejectLine(line)
  PROVE  FirstKept'
<1> DEFINE reason == Reason(line)
           n == total + 1
<1>1. Types /\ Dispositions /\ FirstKept
  BY DEF AInv
<1>2. Adding(line) /\ ~Good(line)
  BY RejectStays
<1>3. \A r : RejectedAs(r)' = IF reason = r THEN RejectedAs(r) \cup {n} ELSE RejectedAs(r)
  BY <1>1, <1>2, RejectSets
<1>4. n \in Nat /\ DOMAIN seen = 1 .. total /\ total \in Nat
  BY <1>1, <1>2, Grown, Finite
<1>5. /\ reason \in Reasons
      /\ \A r \in Reasons : r # reason => corrupt'[r] = corrupt[r]
      /\ corrupt'[reason].first = IF corrupt[reason].count = 0 THEN n
                                  ELSE corrupt[reason].first
  BY SampleStep
<1>6. /\ IsFiniteSet(RejectedAs(reason)) /\ RejectedAs(reason) \subseteq DOMAIN seen
      /\ corrupt[reason].count = Cardinality(RejectedAs(reason))
  BY <1>1, <1>5, Finite DEF Dispositions
<1>7. \A j \in RejectedAs(reason) : j \in Nat /\ j <= n
  BY <1>4, <1>6
<1> HIDE DEF reason, n
<1>8. corrupt'[reason].first = Min(RejectedAs(reason) \cup {n})
  <2>1. CASE RejectedAs(reason) = {}
    <3>1. corrupt'[reason].first = n
      BY <1>5, <1>6, <2>1, FS_EmptySet
    <3>2. RejectedAs(reason) \cup {n} = {n}
      BY <2>1
    <3> QED
      BY <1>4, <3>1, <3>2, MinOfOne
  <2>2. CASE RejectedAs(reason) # {}
    <3>1. corrupt'[reason].first = corrupt[reason].first
      BY <1>5, <1>6, <2>2, FS_EmptySet
    <3>2. corrupt[reason].first = Min(RejectedAs(reason))
      BY <1>1, <1>5, <2>2 DEF FirstKept
    <3>3. RejectedAs(reason) \in SUBSET Nat
      BY <1>7
    <3>4. Min(RejectedAs(reason) \cup {n}) = Min(RejectedAs(reason))
      BY <1>4, <1>7, <2>2, <3>3, MinStays
    <3> QED
      BY <3>1, <3>2, <3>4
  <2> QED
    BY <2>1, <2>2
<1>9. \A r \in Reasons : RejectedAs(r)' # {} => corrupt'[r].first = Min(RejectedAs(r)')
  BY <1>1, <1>3, <1>5, <1>8 DEF FirstKept
<1> QED
  BY <1>9 DEF FirstKept


\* What record_reject does to the names.
Counts(line) == Reason(line) = "UnknownModule" /\ NameHasRoom(line.module)

LEMMA NamesStep ==
  ASSUME AInv, NEW line \in Lines, RejectLine(line)
  PROVE  /\ Counts(line) =>
              names' = [k \in DOMAIN names \cup {line.module} |->
                          CountOf(k) + (IF k = line.module THEN 1 ELSE 0)]
         /\ ~Counts(line) => names' = names
BY DEF RejectLine, Counts

\* A name with no entry, and room for one, has not been rejected before.
LEMMA NewName ==
  ASSUME AInv, NEW x, NameHasRoom(x)
  PROVE  /\ CountOf(x) = Cardinality(Named(x))
         /\ x \in DOMAIN names \/ Cardinality(DOMAIN names) # MaxNames
<1>1. NamesFit /\ NamesCounted
  BY DEF AInv, Types
<1>2. x \in DOMAIN names \/ Cardinality(DOMAIN names) # MaxNames
  <2>1. Cardinality(DOMAIN names) \in Nat /\ MaxNames \in Nat
    BY <1>1, FS_CardinalityType, AggregatorAssumption DEF NamesFit
  <2> QED
    BY <2>1 DEF NameHasRoom
<1>3. CASE x \in DOMAIN names
  BY <1>1, <1>2, <1>3 DEF CountOf, NamesCounted
<1>4. CASE x \notin DOMAIN names
  <2>1. Named(x) = {}
    BY <1>1, <1>2, <1>4 DEF NamesCounted, Named
  <2> QED
    BY <1>2, <1>4, <2>1, FS_EmptySet DEF CountOf
<1> QED
  BY <1>3, <1>4

LEMMA RejectNames ==
  ASSUME AInv, NEW line \in Lines, RejectLine(line)
  PROVE  NamesFit' /\ NamesCounted'
<1> DEFINE n == total + 1
           x == line.module
           u == "UnknownModule"
           D == DOMAIN names
<1>1. Types /\ NamesFit /\ NamesCounted
  BY DEF AInv, Types
<1>2. Adding(line) /\ ~Good(line)
  BY RejectStays
<1>3. /\ RejectedAs(u)' = IF Reason(line) = u THEN RejectedAs(u) \cup {n} ELSE RejectedAs(u)
      /\ \A k : Named(k)' = IF Reason(line) = u /\ x = k THEN Named(k) \cup {n} ELSE Named(k)
  BY <1>1, <1>2, RejectSets
<1>4. /\ n \notin DOMAIN seen /\ seen'[n] = line
      /\ \A i \in DOMAIN seen : seen'[i] = seen[i]
  BY <1>1, <1>2, Grown
<1>5. /\ RejectedAs(u) \subseteq DOMAIN seen
      /\ \A k : IsFiniteSet(Named(k)) /\ n \notin Named(k)
  <2>1. RejectedAs(u) \subseteq DOMAIN seen /\ \A k : IsFiniteSet(Named(k))
    BY <1>1, Finite
  <2> QED
    BY <1>4, <2>1 DEF Named
<1>6. /\ IsFiniteSet(D) /\ Cardinality(D) \in Nat /\ MaxNames \in Nat
      /\ Cardinality(D) <= MaxNames
      /\ names \in [D -> Nat]
  BY <1>1, FS_CardinalityType, AggregatorAssumption DEF NamesFit
<1>7. /\ \A k \in D : names[k] = Cardinality(Named(k)) /\ Named(k) # {}
      /\ \A i \in RejectedAs(u) : seen[i].module \in D \/ Cardinality(D) = MaxNames
  BY <1>1 DEF NamesCounted
<1>8. \A k : Cardinality(Named(k)) \in Nat /\ Cardinality(Named(k) \cup {n}) = Cardinality(Named(k)) + 1
  BY <1>5, OneMore
<1>9. CASE Counts(line)
  <2>1. Reason(line) = u /\ NameHasRoom(x)
    BY <1>9 DEF Counts
  <2>2. names' = [k \in D \cup {x} |-> CountOf(k) + (IF k = x THEN 1 ELSE 0)]
    BY <1>9, NamesStep
  <2>3. /\ CountOf(x) = Cardinality(Named(x))
        /\ x \in D \/ Cardinality(D) # MaxNames
    BY <2>1, NewName
  <2>4. \A k \in D \cup {x} : CountOf(k) = Cardinality(Named(k))
    <3>1. \A k \in D : CountOf(k) = Cardinality(Named(k))
      BY <1>7 DEF CountOf
    <3> QED
      BY <2>3, <3>1
  <2> HIDE DEF n, x, D, u
  <2>5. DOMAIN names' = D \cup {x}
    BY <2>2
  <2>6. \A k \in D \cup {x} : names'[k] = Cardinality(Named(k)')
    <3> SUFFICES ASSUME NEW k \in D \cup {x} PROVE names'[k] = Cardinality(Named(k)')
      OBVIOUS
    <3>1. names'[k] = Cardinality(Named(k)) + (IF k = x THEN 1 ELSE 0)
      BY <2>2, <2>4
    <3>2. Cardinality(Named(k)) \in Nat
      BY <1>8
    <3>3. CASE k = x
      BY <1>3, <1>8, <2>1, <3>1, <3>3
    <3>4. CASE k # x
      BY <1>3, <3>1, <3>2, <3>4
    <3> QED
      BY <3>3, <3>4
  <2>7. \A k \in D \cup {x} : Named(k)' # {}
    BY <1>3, <1>7, <2>1
  <2>8. NamesFit'
    <3>1. IsFiniteSet(D \cup {x}) /\ Cardinality(D \cup {x}) <= MaxNames
      <4>1. CASE x \in D
        <5>1. D \cup {x} = D
          BY <4>1
        <5> QED
          BY <1>6, <5>1
      <4>2. CASE x \notin D
        <5>1. IsFiniteSet(D \cup {x}) /\ Cardinality(D \cup {x}) = Cardinality(D) + 1
          BY <1>6, <4>2, FS_AddElement
        <5> QED
          BY <1>6, <2>3, <4>2, <5>1
      <4> QED
        BY <4>1, <4>2
    <3>2. \A k \in D \cup {x} : CountOf(k) + (IF k = x THEN 1 ELSE 0) \in Nat
      BY <1>8, <2>4
    <3>3. names' \in [D \cup {x} -> Nat]
      BY <2>2, <3>2
    <3> QED
      BY <2>5, <3>1, <3>3 DEF NamesFit
  <2>9. \A i \in RejectedAs(u)' : seen'[i].module \in DOMAIN names' \/ Cardinality(DOMAIN names') = MaxNames
    <3> SUFFICES ASSUME NEW i \in RejectedAs(u)', seen'[i].module \notin D \cup {x}
                 PROVE  Cardinality(D \cup {x}) = MaxNames
      BY <2>5
    <3>1. i # n
      BY <1>4 DEF x
    <3>2. i \in RejectedAs(u) /\ seen'[i] = seen[i]
      BY <1>3, <1>4, <1>5, <2>1, <3>1
    <3>3. Cardinality(D) = MaxNames
      BY <1>7, <3>2
    <3>4. D \cup {x} = D
      BY <2>3, <3>3
    <3> QED
      BY <3>3, <3>4
  <2>10. NamesCounted'
    BY <2>5, <2>6, <2>7, <2>9 DEF NamesCounted, u
  <2> QED
    BY <2>8, <2>10
<1>10. CASE ~Counts(line)
  <2>1. names' = names
    BY <1>10, NamesStep
  <2>2. NamesFit'
    BY <1>1, <2>1 DEF NamesFit
  <2>3. CASE Reason(line) = u
    <3>1. x \notin D /\ Cardinality(D) = MaxNames
      BY <1>6, <1>10, <2>3 DEF Counts, NameHasRoom
    <3>2. \A k \in D : Named(k)' = Named(k)
      BY <1>3, <3>1
    <3>3. \A k \in DOMAIN names' : names'[k] = Cardinality(Named(k)') /\ Named(k)' # {}
      BY <1>7, <2>1, <3>2
    <3> QED
      BY <2>1, <2>2, <3>1, <3>3 DEF NamesCounted
  <2>4. CASE Reason(line) # u
    <3>1. RejectedAs(u)' = RejectedAs(u) /\ \A k : Named(k)' = Named(k)
      BY <1>3, <2>4
    <3>2. \A i \in RejectedAs(u) : seen'[i] = seen[i]
      BY <1>4, <1>5
    <3>3. \A k \in DOMAIN names' : names'[k] = Cardinality(Named(k)') /\ Named(k)' # {}
      BY <1>7, <2>1, <3>1
    <3>4. \A i \in RejectedAs(u)' :
            seen'[i].module \in DOMAIN names' \/ Cardinality(DOMAIN names') = MaxNames
      BY <1>7, <2>1, <3>1, <3>2
    <3> QED
      BY <2>2, <3>3, <3>4 DEF NamesCounted
  <2> QED
    BY <2>2, <2>3, <2>4
<1> QED
  BY <1>9, <1>10

LEMMA RejectInv ==
  ASSUME AInv, NEW line \in Lines, RejectLine(line) PROVE AInv'
BY RejectTypes, RejectDispositions, RejectHours, RejectFirst, RejectNames DEF AInv, Types


-----------------------------------------------------------------------------
(* A line is accepted: what is counted outside the hours.                  *)

\* What AcceptLine assigns, but for the hours.
LEMMA AcceptStep ==
  ASSUME AInv, NEW line \in Lines, AcceptLine(line)
  PROVE  /\ Types /\ Adding(line) /\ Good(line)
         /\ accepted' = accepted + 1
         /\ moduleTotals' = [moduleTotals EXCEPT ![line.module] = @ + 1]
         /\ spdOut' = IF Spd(line).kind = "range" THEN spdOut + 1 ELSE spdOut
         /\ UNCHANGED <<oversize, dropped, done>>
         /\ UNCHANGED <<corrupt, names>>
         /\ HasSpd(line) => spdN' = spdN + 1 /\ spdSum' = spdSum + Spd(line).v
         /\ ~HasSpd(line) => UNCHANGED <<spdN, spdSum>>
BY DEF AInv, AcceptLine, Adding, CountModule, AddSpeed, rejectVars

\* What it does to the hours, and to the least and the greatest speed.
LEMMA AcceptHourStep ==
  ASSUME NEW line \in Lines, AcceptLine(line)
  PROVE  /\ NoRoom(line.hour) => UNCHANGED <<buckets, last, spdMin, spdMax>>
         /\ ~NoRoom(line.hour) => CountInBucket(line) /\ WidenRange(line)
BY DEF AcceptLine, hourVars

LEMMA AcceptTypes ==
  ASSUME AInv, NEW line \in Lines, AcceptLine(line)
  PROVE  Counters'
<1>1. Counters
  BY DEF AInv, Types
<1>2. /\ total' = total + 1 /\ total + 1 \in Nat
      /\ seen' \in Seq(Lines) /\ total' = Len(seen')
  BY AcceptStep, Grown
<1>3. Spd(line).v \in Nat /\ line.module \in Modules
  BY AcceptStep, LineFacts
<1>4. spdN' \in Nat /\ spdSum' \in Nat
  <2>1. spdN \in Nat /\ spdSum \in Nat
    BY <1>1 DEF Counters
  <2> QED
    BY <1>3, <2>1, AcceptStep
<1>5. spdMin' \in Nat /\ spdMax' \in Nat
  <2>1. spdMin \in Nat /\ spdMax \in Nat
    BY <1>1 DEF Counters
  <2>2. CASE NoRoom(line.hour)
    BY <2>1, <2>2, AcceptHourStep
  <2>3. CASE ~NoRoom(line.hour)
    <3>1. WidenRange(line)
      BY <2>3, AcceptHourStep
    <3> QED
      BY <1>3, <2>1, <3>1 DEF WidenRange
  <2> QED
    BY <2>2, <2>3
<1>6. accepted' \in Nat /\ spdOut' \in Nat
  <2>1. accepted \in Nat /\ spdOut \in Nat
    BY <1>1 DEF Counters
  <2>2. accepted' = accepted + 1 /\ (spdOut' = spdOut + 1 \/ spdOut' = spdOut)
    BY AcceptStep
  <2> QED
    BY <2>1, <2>2
<1>7. moduleTotals' \in [Modules -> Nat]
  <2>1. moduleTotals \in [Modules -> Nat]
    BY <1>1 DEF Counters
  <2> QED
    BY <1>3, <2>1, AcceptStep
<1>8. /\ oversize' \in Nat /\ dropped' \in Nat /\ done' \in BOOLEAN
      /\ corrupt' \in [Reasons -> [count : Nat, first : Nat]]
  BY <1>1, AcceptStep DEF Counters
<1> QED
  BY <1>2, <1>4, <1>5, <1>6, <1>7, <1>8 DEF Counters

LEMMA AcceptDispositions ==
  ASSUME AInv, NEW line \in Lines, AcceptLine(line)
  PROVE  Dispositions'
<1> DEFINE n == total + 1
<1>1. Types /\ Dispositions /\ Adding(line) /\ Good(line)
  BY AcceptStep DEF AInv
<1>2. /\ GoodLines' = GoodLines \cup {n}
      /\ \A m : OfModule(m)' = IF line.module = m THEN OfModule(m) \cup {n} ELSE OfModule(m)
      /\ \A r : RejectedAs(r)' = RejectedAs(r)
  BY <1>1, AcceptSets
<1>3. total' = total + 1 /\ n \notin DOMAIN seen /\ total \in Nat /\ accepted \in Nat
  BY <1>1, Grown DEF Types, Counters
<1>4. /\ accepted' = accepted + 1 /\ corrupt' = corrupt
      /\ moduleTotals' = [moduleTotals EXCEPT ![line.module] = @ + 1]
  BY AcceptStep
<1>5. line.module \in Modules /\ moduleTotals \in [Modules -> Nat]
  BY <1>1, LineFacts DEF Types, Counters
<1>6. /\ IsFiniteSet(GoodLines) /\ n \notin GoodLines
      /\ \A m : IsFiniteSet(OfModule(m)) /\ n \notin OfModule(m)
  <2>1. /\ IsFiniteSet(GoodLines) /\ GoodLines \subseteq DOMAIN seen
        /\ \A m : IsFiniteSet(OfModule(m))
    BY <1>1, Finite
  <2> QED
    BY <1>3, <2>1 DEF OfModule
<1> HIDE DEF n
<1>7. accepted' = Cardinality(GoodLines')
  <2>1. accepted = Cardinality(GoodLines)
    BY <1>1 DEF Dispositions
  <2> QED
    BY <1>2, <1>4, <1>6, <2>1, OneMore
<1>8. total' = accepted' + Cardinality(Units(Reasons, Samples'))
  <2>1. Samples' = Samples
    BY <1>4 DEF Samples
  <2>2. total = accepted + Cardinality(Units(Reasons, Samples))
    BY <1>1 DEF Dispositions
  <2>3. Samples \in [Reasons -> Nat]
    BY <1>1 DEF Samples, Types, Counters
  <2>4. Cardinality(Units(Reasons, Samples)) \in Nat
    BY <2>3, ReasonsFinite, UnitsFinite, FS_CardinalityType
  <2> QED
    BY <1>3, <1>4, <2>1, <2>2, <2>4
<1>9. \A m \in Modules : moduleTotals'[m] = Cardinality(OfModule(m)')
  <2> SUFFICES ASSUME NEW m \in Modules
               PROVE  moduleTotals'[m] = Cardinality(OfModule(m)')
    OBVIOUS
  <2>1. moduleTotals[m] = Cardinality(OfModule(m))
    BY <1>1 DEF Dispositions
  <2>2. Cardinality(OfModule(m) \cup {n}) = Cardinality(OfModule(m)) + 1
    BY <1>6, OneMore
  <2> QED
    BY <1>2, <1>4, <1>5, <2>1, <2>2
<1>10. \A r \in Reasons : corrupt'[r].count = Cardinality(RejectedAs(r)')
  BY <1>1, <1>2, <1>4 DEF Dispositions
<1> QED
  BY <1>7, <1>8, <1>9, <1>10 DEF Dispositions

LEMMA AcceptSpeeds ==
  ASSUME AInv, NEW line \in Lines, AcceptLine(line)
  PROVE  SpeedsCounted'
<1> DEFINE n == total + 1
<1>1. Types /\ SpeedsCounted /\ Adding(line) /\ Good(line)
  BY AcceptStep DEF AInv
<1>2. SpeedLines' = IF HasSpd(line) THEN SpeedLines \cup {n} ELSE SpeedLines
  BY <1>1, AcceptSets
<1>3. /\ n \notin DOMAIN seen /\ seen'[n] = line
      /\ \A i \in DOMAIN seen : seen'[i] = seen[i]
  BY <1>1, Grown
<1>4. /\ IsFiniteSet(SpeedLines) /\ SpeedLines \subseteq DOMAIN seen
      /\ \A i \in DOMAIN seen : seen[i] \in Lines
  BY <1>1, Finite
<1>5. Spd(line).v \in Nat /\ \A i \in SpeedLines : Spd(seen[i]).v \in Nat
  BY <1>4, LineFacts
<1> HIDE DEF n
<1>6. CASE ~HasSpd(line)
  <2>1. SpeedLines' = SpeedLines /\ Speeds' = Speeds
    BY <1>2, <1>3, <1>4, <1>6 DEF Speeds
  <2>2. UNCHANGED <<spdN, spdSum>>
    BY <1>6, AcceptStep
  <2> QED
    BY <1>1, <2>1, <2>2 DEF SpeedsCounted
<1>7. CASE HasSpd(line)
  <2>1. SpeedLines' = SpeedLines \cup {n} /\ n \notin SpeedLines
    BY <1>2, <1>3, <1>4, <1>7
  <2>2. spdN' = spdN + 1 /\ spdSum' = spdSum + Spd(line).v
    BY <1>7, AcceptStep
  <2> DEFINE f == Speeds'
  <2>3. f = [i \in SpeedLines \cup {n} |-> IF i = n THEN Spd(line).v ELSE Speeds[i]]
    BY <1>3, <1>4, <2>1 DEF Speeds
  <2> HIDE DEF f
  <2>4. \A i \in SpeedLines : Speeds[i] \in Nat
    BY <1>5 DEF Speeds
  <2>5. f \in [SpeedLines \cup {n} -> Nat] /\ f[n] = Spd(line).v
    BY <1>5, <2>3, <2>4
  <2>6. Units(SpeedLines, f) = Units(SpeedLines, Speeds)
    BY <2>1, <2>3 DEF Units
  <2>7. /\ Cardinality(Units(SpeedLines \cup {n}, f)) = Cardinality(Units(SpeedLines, f)) + f[n]
        /\ Cardinality(Units(SpeedLines, f)) \in Nat
    BY <1>4, <2>1, <2>5, UnitsAdd
  <2>8. Cardinality(SpeedLines \cup {n}) = Cardinality(SpeedLines) + 1
    BY <1>4, <2>1, OneMore
  <2>9. spdN = Cardinality(SpeedLines) /\ spdSum = Cardinality(Units(SpeedLines, Speeds))
    BY <1>1 DEF SpeedsCounted
  <2>10. spdN' = Cardinality(SpeedLines')
    BY <2>1, <2>2, <2>8, <2>9
  <2>11. spdSum' = Cardinality(Units(SpeedLines', f))
    BY <2>1, <2>2, <2>5, <2>6, <2>7, <2>9
  <2> QED
    BY <2>10, <2>11 DEF SpeedsCounted, f
<1> QED
  BY <1>6, <1>7

LEMMA AcceptRejects ==
  ASSUME AInv, NEW line \in Lines, AcceptLine(line)
  PROVE  NamesFit' /\ NamesCounted' /\ FirstKept'
<1> DEFINE u == "UnknownModule"
<1>1. Types /\ NamesFit /\ NamesCounted /\ FirstKept /\ Adding(line) /\ Good(line)
  BY AcceptStep DEF AInv, Types
<1>2. \A r : RejectedAs(r)' = RejectedAs(r)
  BY <1>1, AcceptSets
<1>3. \A k : Named(k)' = Named(k)
  BY <1>1, AcceptSets
<1>4. \A i \in DOMAIN seen : seen'[i] = seen[i]
  BY <1>1, Grown
<1>5. RejectedAs(u) \subseteq DOMAIN seen
  BY <1>1, Finite
<1>6. names' = names /\ corrupt' = corrupt
  BY AcceptStep
<1>7. \A k \in DOMAIN names' : names'[k] = Cardinality(Named(k)') /\ Named(k)' # {}
  BY <1>1, <1>3, <1>6 DEF NamesCounted
<1>8. \A i \in RejectedAs(u)' :
        seen'[i].module \in DOMAIN names' \/ Cardinality(DOMAIN names') = MaxNames
  BY <1>1, <1>2, <1>4, <1>5, <1>6 DEF NamesCounted
<1>9. NamesFit'
  BY <1>1, <1>6 DEF NamesFit
<1>10. FirstKept'
  BY <1>1, <1>2, <1>6 DEF FirstKept
<1> QED
  BY <1>7, <1>8, <1>9, <1>10 DEF NamesCounted


-----------------------------------------------------------------------------
(* A line is accepted: its hour.                                           *)

\* A set of positions that holds all before any of its own is an interval.
LEMMA DownSet ==
  ASSUME NEW L \in Nat, NEW S \in SUBSET (1 .. L),
         \A a \in S : \A b \in 1 .. L : b < a => b \in S
  PROVE  Cardinality(S) \in 0 .. L /\ S = 1 .. Cardinality(S)
<1> DEFINE T == (1 .. L + 1) \ S
           q == Min(T)
<1>1. q \in T /\ \A j \in T : q <= j
  <2>1. T \in SUBSET Nat /\ T # {}
    <3>1. L + 1 \in T
      OBVIOUS
    <3> QED
      BY <3>1
  <2> HIDE DEF T
  <2> QED
    BY <2>1, MinIs
<1> HIDE DEF q
<1>2. q \in 1 .. L + 1 /\ q \notin S
  BY <1>1
<1>3. S = 1 .. q - 1
  <2>1. \A a \in 1 .. q - 1 : a \in S
    BY <1>1, <1>2
  <2>2. \A a \in S : a \in 1 .. q - 1
    <3> SUFFICES ASSUME NEW a \in S, ~(a < q) PROVE FALSE
      BY <1>2
    <3>1. q < a /\ q \in 1 .. L
      BY <1>2
    <3> QED
      BY <1>2, <3>1
  <2> QED
    BY <2>1, <2>2
<1>4. Cardinality(1 .. q - 1) = q - 1
  <2> DEFINE k == q - 1
  <2>1. k \in Nat
    BY <1>2
  <2> HIDE DEF k
  <2>2. Cardinality(1 .. k) = k
    <3>1. 1 \in Int /\ k \in Int
      BY <2>1
    <3>2. Cardinality(1 .. k) = IF 1 > k THEN 0 ELSE k - 1 + 1
      BY <3>1, FS_Interval
    <3> QED
      BY <2>1, <3>2
  <2> QED
    BY <2>2 DEF k
<1> QED
  BY <1>2, <1>3, <1>4

\* What InsertAt returns.
LEMMA InsertIs ==
  ASSUME NEW T, NEW s \in Seq(T), NEW i \in 1 .. Len(s) + 1, NEW e \in T
  PROVE  /\ InsertAt(s, i, e) \in Seq(T)
         /\ Len(InsertAt(s, i, e)) = Len(s) + 1
         /\ InsertAt(s, i, e)[i] = e
         /\ \A j \in 1 .. Len(s) + 1 : j < i => InsertAt(s, i, e)[j] = s[j]
         /\ \A j \in 1 .. Len(s) + 1 : j > i => InsertAt(s, i, e)[j] = s[j - 1]
<1> DEFINE a == SubSeq(s, 1, i - 1)
           b == SubSeq(s, i, Len(s))
           c == a \o <<e>>
           n == Len(s)
<1>1. n \in Nat /\ i \in Nat /\ i >= 1 /\ i <= n + 1 /\ \A j \in 1 .. n : s[j] \in T
  BY LenProperties, ElementOfSeq
<1>2. /\ a \in Seq(T) /\ Len(a) = i - 1
      /\ \A j \in 1 .. i - 1 : a[j] = s[j]
  <2>1. \A j \in 1 .. i - 1 : s[j] \in T
    BY <1>1
  <2>2. /\ SubSeq(s, 1, i - 1) \in Seq(T)
        /\ Len(SubSeq(s, 1, i - 1)) = IF 1 <= i - 1 THEN i - 1 - 1 + 1 ELSE 0
        /\ \A j \in 1 .. i - 1 - 1 + 1 : SubSeq(s, 1, i - 1)[j] = s[1 + j - 1]
    BY <1>1, <2>1, SubSeqProperties
  <2> QED
    BY <1>1, <2>2
<1>3. /\ b \in Seq(T) /\ Len(b) = n - i + 1
      /\ \A j \in 1 .. n - i + 1 : b[j] = s[i + j - 1]
  <2>1. \A j \in i .. n : s[j] \in T
    BY <1>1
  <2>2. /\ SubSeq(s, i, n) \in Seq(T)
        /\ Len(SubSeq(s, i, n)) = IF i <= n THEN n - i + 1 ELSE 0
        /\ \A j \in 1 .. n - i + 1 : SubSeq(s, i, n)[j] = s[i + j - 1]
    BY <1>1, <2>1, SubSeqProperties
  <2> QED
    BY <1>1, <2>2
<1>4. <<e>> \in Seq(T) /\ Len(<<e>>) = 1 /\ <<e>>[1] = e
  OBVIOUS
<1> HIDE DEF a, b, n
<1>5. /\ c \in Seq(T) /\ Len(c) = i
      /\ \A j \in 1 .. i : c[j] = IF j <= i - 1 THEN a[j] ELSE <<e>>[j - (i - 1)]
  <2>1. /\ c \in Seq(T) /\ Len(c) = Len(a) + Len(<<e>>)
        /\ \A j \in 1 .. Len(a) + Len(<<e>>) :
             c[j] = IF j <= Len(a) THEN a[j] ELSE <<e>>[j - Len(a)]
    BY <1>2, <1>4, ConcatProperties
  <2> QED
    BY <1>1, <1>2, <1>4, <2>1
<1>6. c[i] = e /\ \A j \in 1 .. i - 1 : c[j] = s[j]
  BY <1>1, <1>2, <1>4, <1>5
<1> HIDE DEF c
<1>7. /\ c \o b \in Seq(T) /\ Len(c \o b) = i + (n - i + 1)
      /\ \A j \in 1 .. i + (n - i + 1) : (c \o b)[j] = IF j <= i THEN c[j] ELSE b[j - i]
  <2>1. /\ c \o b \in Seq(T) /\ Len(c \o b) = Len(c) + Len(b)
        /\ \A j \in 1 .. Len(c) + Len(b) :
             (c \o b)[j] = IF j <= Len(c) THEN c[j] ELSE b[j - Len(c)]
    BY <1>3, <1>5, ConcatProperties
  <2>2. Len(c) = i /\ Len(b) = n - i + 1
    BY <1>3, <1>5
  <2> QED
    BY <2>1, <2>2
<1>8. InsertAt(s, i, e) = c \o b
  BY DEF InsertAt, a, b, c, n
<1>9. i + (n - i + 1) = n + 1
  BY <1>1
<1>10. \A j \in 1 .. n + 1 : j > i => (c \o b)[j] = s[j - 1]
  <2> SUFFICES ASSUME NEW j \in 1 .. n + 1, j > i PROVE (c \o b)[j] = s[j - 1]
    OBVIOUS
  <2>1. (c \o b)[j] = b[j - i]
    BY <1>1, <1>7, <1>9
  <2>2. j - i \in 1 .. n - i + 1 /\ i + (j - i) - 1 = j - 1
    BY <1>1
  <2> QED
    BY <1>3, <2>1, <2>2
<1> DEFINE r == c \o b
<1> HIDE DEF r
<1>11. r[i] = e /\ \A j \in 1 .. n + 1 : j < i => r[j] = s[j]
  <2>1. \A j \in 1 .. n + 1 : j <= i => r[j] = c[j]
    BY <1>7, <1>9 DEF r
  <2> QED
    BY <1>1, <1>6, <2>1
<1>12. /\ r \in Seq(T) /\ Len(r) = n + 1 /\ r[i] = e
       /\ \A j \in 1 .. n + 1 : j < i => r[j] = s[j]
       /\ \A j \in 1 .. n + 1 : j > i => r[j] = s[j - 1]
  BY <1>7, <1>9, <1>10, <1>11 DEF r
<1>13. InsertAt(s, i, e) = r
  BY <1>8 DEF r
<1> QED
  BY <1>12, <1>13 DEF n


\* The position that CountInBucket finds or makes, and the buckets with it.
At(line) == IF Cached(line.hour) THEN last.index ELSE LowerBound(line.hour)

There(line) ==
  IF Cached(line.hour) \/ HasBucket(line.hour) THEN buckets
  ELSE InsertAt(buckets, At(line), EmptyBucket(line.hour))

\* The positions before lower_bound are those of the smaller hours.
LEMMA LowerBoundIs ==
  ASSUME AInv, NEW hour \in Nat
  PROVE  /\ LowerBound(hour) \in 1 .. Len(buckets) + 1
         /\ \A i \in DOMAIN buckets : i < LowerBound(hour) <=> buckets[i].hour < hour
<1> DEFINE S == {i \in DOMAIN buckets : buckets[i].hour < hour}
           L == Len(buckets)
<1>1. buckets \in Seq(Bucket) /\ Sorted(buckets)
  BY DEF AInv, Types, HoursFit, HoursCounted
<1>2. L \in Nat /\ DOMAIN buckets = 1 .. L
  BY <1>1, LenProperties
<1>3. \A i \in DOMAIN buckets : buckets[i].hour \in Nat
  <2>1. \A i \in DOMAIN buckets : buckets[i] \in Bucket
    BY <1>1, <1>2, ElementOfSeq
  <2> QED
    BY <2>1 DEF Bucket
<1>4. \A a \in S : \A b \in 1 .. L : b < a => b \in S
  <2> SUFFICES ASSUME NEW a \in S, NEW b \in 1 .. L, b < a PROVE b \in S
    OBVIOUS
  <2>1. buckets[b].hour < buckets[a].hour /\ buckets[a].hour < hour
    BY <1>1, <1>2 DEF Sorted
  <2>2. buckets[b].hour \in Nat /\ buckets[a].hour \in Nat
    BY <1>2, <1>3
  <2> QED
    BY <1>2, <2>1, <2>2
<1>5. S \in SUBSET (1 .. L)
  BY <1>2
<1>6. LowerBound(hour) = Cardinality(S) + 1
  BY DEF LowerBound
<1> HIDE DEF S, L
<1>7. Cardinality(S) \in 0 .. L /\ S = 1 .. Cardinality(S)
  BY <1>2, <1>4, <1>5, DownSet
<1>8. \A i \in 1 .. L : i < LowerBound(hour) <=> i \in S
  BY <1>2, <1>6, <1>7
<1>9. \A i \in DOMAIN buckets : i \in S <=> buckets[i].hour < hour
  BY DEF S
<1> QED
  BY <1>2, <1>6, <1>7, <1>8, <1>9 DEF L

\* An hour with no bucket, and room for one, has no line yet.
LEMMA NewHour ==
  ASSUME AInv, NEW hour, ~NoRoom(hour), ~HasBucket(hour)
  PROVE  /\ Len(buckets) < MaxBuckets
         /\ Cardinality(OfHour(hour)) = 0 /\ \A m : Cardinality(OfBoth(hour, m)) = 0
<1>1. /\ Len(buckets) \in Nat /\ MaxBuckets \in Nat
      /\ \A k \in GoodLines : HasBucket(seen[k].hour) \/ Len(buckets) = MaxBuckets
  BY LenProperties, AggregatorAssumption DEF AInv, Types, HoursFit, HoursCounted
<1>2. Len(buckets) < MaxBuckets
  BY <1>1 DEF NoRoom
<1>3. OfHour(hour) = {} /\ \A m : OfBoth(hour, m) = {}
  BY <1>1, <1>2 DEF OfHour, OfBoth
<1> QED
  BY <1>2, <1>3, FS_EmptySet

LEMMA BucketThere ==
  ASSUME AInv, NEW line \in Lines, ~NoRoom(line.hour)
  PROVE  /\ There(line) \in Seq(Bucket)
         /\ Len(There(line)) <= MaxBuckets /\ Len(buckets) <= Len(There(line))
         /\ At(line) \in DOMAIN There(line) /\ There(line)[At(line)].hour = line.hour
         /\ Sorted(There(line)) /\ Exact(There(line))
         /\ \A i \in DOMAIN buckets :
              \E j \in DOMAIN There(line) : There(line)[j].hour = buckets[i].hour
         /\ \A j \in DOMAIN There(line) :
              There(line)[j].hour = line.hour \/ HasBucket(There(line)[j].hour)
<1> DEFINE h == line.hour
           L == Len(buckets)
           p == LowerBound(h)
<1>1. /\ buckets \in Seq(Bucket) /\ L <= MaxBuckets
      /\ Sorted(buckets) /\ Exact(buckets)
      /\ last.known => last.index \in DOMAIN buckets /\ buckets[last.index].hour = last.hour
  BY DEF AInv, Types, HoursFit, HoursCounted
<1>2. L \in Nat /\ DOMAIN buckets = 1 .. L /\ MaxBuckets \in Nat
  BY <1>1, LenProperties, AggregatorAssumption
<1>3. \A i \in 1 .. L : buckets[i] \in Bucket /\ buckets[i].hour \in Nat
  <2>1. \A i \in 1 .. L : buckets[i] \in Bucket
    BY <1>1, ElementOfSeq
  <2> QED
    BY <2>1 DEF Bucket
<1>4. h \in Nat
  BY LineFacts
<1>5. p \in 1 .. L + 1 /\ \A i \in 1 .. L : i < p <=> buckets[i].hour < h
  BY <1>2, <1>4, LowerBoundIs
<1>6. \A i \in 1 .. L : HasBucket(buckets[i].hour)
  BY <1>2 DEF HasBucket
<1> HIDE DEF h, L, p
<1>7. CASE Cached(h) \/ HasBucket(h)
  <2>1. There(line) = buckets
    BY <1>7 DEF There, h
  <2>2. At(line) \in DOMAIN buckets /\ buckets[At(line)].hour = h
    <3>1. CASE Cached(h)
      <4>1. At(line) = last.index
        BY <3>1 DEF At, h
      <4> QED
        BY <1>1, <3>1, <4>1 DEF Cached
    <3>2. CASE ~Cached(h)
      <4>1. At(line) = p
        BY <3>2 DEF At, h, p
      <4>2. PICK i \in 1 .. L : buckets[i].hour = h
        BY <1>2, <1>7, <3>2 DEF HasBucket
      <4>3. ~(i < p)
        BY <1>3, <1>4, <1>5, <4>2
      <4>4. p \in 1 .. L
        BY <1>2, <1>5, <4>3
      <4>5. ~(p < i)
        <5> SUFFICES ASSUME p < i PROVE FALSE
          OBVIOUS
        <5>1. buckets[p].hour < h
          BY <1>1, <1>2, <4>2, <4>4 DEF Sorted
        <5> QED
          BY <1>5, <4>4, <5>1
      <4>6. p = i
        BY <1>5, <4>3, <4>4, <4>5
      <4> QED
        BY <1>2, <4>1, <4>2, <4>6
    <3> QED
      BY <3>1, <3>2
  <2>3. L <= L
    BY <1>2
  <2> QED
    BY <1>1, <1>2, <1>6, <2>1, <2>2, <2>3 DEF h, L
<1>8. CASE ~Cached(h) /\ ~HasBucket(h)
  <2> DEFINE t == There(line)
             e == EmptyBucket(h)
  <2>1. At(line) = p /\ t = InsertAt(buckets, p, e)
    BY <1>8 DEF At, There, h, p
  <2>2. e \in Bucket /\ e.hour = h /\ e.total = 0 /\ \A m \in Modules : e.count[m] = 0
    BY <1>4 DEF EmptyBucket, Bucket
  <2>3. /\ L < MaxBuckets
        /\ Cardinality(OfHour(h)) = 0 /\ \A m : Cardinality(OfBoth(h, m)) = 0
    BY <1>8, NewHour DEF h, L
  <2> HIDE DEF t, e
  <2>4. /\ t \in Seq(Bucket) /\ Len(t) = L + 1
        /\ t[p] = e
        /\ \A j \in 1 .. L + 1 : j < p => t[j] = buckets[j]
        /\ \A j \in 1 .. L + 1 : j > p => t[j] = buckets[j - 1]
    <3> DEFINE r == InsertAt(buckets, p, e)
    <3>1. p \in 1 .. Len(buckets) + 1 /\ buckets \in Seq(Bucket) /\ e \in Bucket
      BY <1>1, <1>5, <2>2 DEF L
    <3>2. /\ r \in Seq(Bucket) /\ Len(r) = Len(buckets) + 1
          /\ r[p] = e
          /\ \A j \in 1 .. Len(buckets) + 1 : j < p => r[j] = buckets[j]
          /\ \A j \in 1 .. Len(buckets) + 1 : j > p => r[j] = buckets[j - 1]
      BY <3>1, InsertIs
    <3> HIDE DEF r
    <3>3. t = r
      BY <2>1 DEF r
    <3> QED
      BY <3>2, <3>3 DEF L
  <2>5. DOMAIN t = 1 .. L + 1
    BY <2>4, LenProperties
  \* Each bucket is the new one or an old one, at its place or one further on.
  <2>6. \A j \in 1 .. L + 1 :
          \/ j = p
          \/ j < p /\ j \in 1 .. L /\ t[j] = buckets[j] /\ buckets[j].hour < h
          \/ j > p /\ j - 1 \in 1 .. L /\ t[j] = buckets[j - 1] /\ h < buckets[j - 1].hour
    <3> SUFFICES ASSUME NEW j \in 1 .. L + 1, j # p
                 PROVE  \/ j < p /\ j \in 1 .. L /\ t[j] = buckets[j] /\ buckets[j].hour < h
                        \/ j > p /\ j - 1 \in 1 .. L /\ t[j] = buckets[j - 1]
                           /\ h < buckets[j - 1].hour
      OBVIOUS
    <3>1. CASE j < p
      <4>1. j \in 1 .. L
        BY <1>2, <1>5, <3>1
      <4> QED
        BY <1>5, <2>4, <3>1, <4>1
    <3>2. CASE ~(j < p)
      <4>1. j > p /\ j - 1 \in 1 .. L /\ ~(j - 1 < p)
        BY <1>2, <1>5, <3>2
      <4>2. ~(buckets[j - 1].hour < h) /\ buckets[j - 1].hour # h
        BY <1>2, <1>5, <1>8, <4>1 DEF HasBucket
      <4>3. h < buckets[j - 1].hour
        BY <1>3, <1>4, <4>1, <4>2
      <4> QED
        BY <2>4, <4>1, <4>3
    <3> QED
      BY <3>1, <3>2
  <2>7. Sorted(t)
    <3> SUFFICES ASSUME NEW i \in 1 .. L + 1, NEW j \in 1 .. L + 1, i < j
                 PROVE  t[i].hour < t[j].hour
      BY <2>5 DEF Sorted
    <3>1. \A a \in 1 .. L : \A b \in 1 .. L : a < b => buckets[a].hour < buckets[b].hour
      BY <1>1, <1>2 DEF Sorted
    <3>2. CASE j < p
      <4>1. i < p /\ i # p /\ ~(i > p) /\ j # p /\ ~(j > p)
        BY <1>5, <3>2
      <4> QED
        BY <2>6, <3>1, <4>1
    <3>3. CASE j = p
      <4>1. i # p /\ ~(i > p)
        BY <1>5, <3>3
      <4> QED
        BY <2>2, <2>4, <2>6, <3>3, <4>1
    <3>4. CASE j > p
      <4>1. j # p /\ ~(j < p)
        BY <1>5, <3>4
      <4>2. j - 1 \in 1 .. L /\ t[j] = buckets[j - 1] /\ h < buckets[j - 1].hour
        BY <2>6, <4>1
      <4>3. CASE i = p
        BY <2>2, <2>4, <4>2, <4>3
      <4>4. CASE i > p
        <5>1. i # p /\ ~(i < p) /\ i - 1 < j - 1
          BY <1>5, <4>4
        <5>2. i - 1 \in 1 .. L /\ t[i] = buckets[i - 1]
          BY <2>6, <5>1
        <5> QED
          BY <3>1, <4>2, <5>1, <5>2
      <4>5. CASE i < p
        <5>1. i # p /\ ~(i > p)
          BY <1>5, <4>5
        <5>2. i \in 1 .. L /\ t[i] = buckets[i] /\ buckets[i].hour < h
          BY <2>6, <5>1
        <5> QED
          BY <1>3, <1>4, <4>2, <5>2
      <4> QED
        BY <1>5, <4>3, <4>4, <4>5
    <3> QED
      BY <1>5, <3>2, <3>3, <3>4
  <2>8. Exact(t)
    <3> SUFFICES ASSUME NEW j \in 1 .. L + 1
                 PROVE  /\ t[j].total = Cardinality(OfHour(t[j].hour))
                        /\ \A m \in Modules :
                             t[j].count[m] = Cardinality(OfBoth(t[j].hour, m))
      BY <2>5 DEF Exact
    <3>1. CASE j = p
      BY <2>2, <2>3, <2>4, <3>1
    <3>2. CASE j # p
      <4>1. \E k \in 1 .. L : t[j] = buckets[k]
        BY <2>6, <3>2
      <4> QED
        BY <1>1, <1>2, <4>1 DEF Exact
    <3> QED
      BY <3>1, <3>2
  <2>9. ASSUME NEW i \in 1 .. L PROVE \E j \in 1 .. L + 1 : t[j].hour = buckets[i].hour
    <3>1. CASE i < p
      <4>1. i \in 1 .. L + 1 /\ t[i] = buckets[i]
        BY <1>2, <2>4, <3>1
      <4> QED
        BY <4>1
    <3>2. CASE ~(i < p)
      <4>1. i + 1 \in 1 .. L + 1 /\ i + 1 > p /\ (i + 1) - 1 = i
        BY <1>2, <1>5, <3>2
      <4>2. t[i + 1] = buckets[i]
        BY <2>4, <4>1
      <4> QED
        BY <4>1, <4>2
    <3> QED
      BY <3>1, <3>2
  <2>10. ASSUME NEW j \in 1 .. L + 1 PROVE t[j].hour = h \/ HasBucket(t[j].hour)
    <3>1. CASE j = p
      BY <2>2, <2>4, <3>1
    <3>2. CASE j # p
      <4>1. \E k \in 1 .. L : t[j] = buckets[k]
        BY <2>6, <3>2
      <4> QED
        BY <1>6, <4>1
    <3> QED
      BY <3>1, <3>2
  <2>11. Len(t) <= MaxBuckets /\ L <= Len(t) /\ p \in DOMAIN t /\ t[p].hour = h
    BY <1>2, <1>5, <2>2, <2>3, <2>4, <2>5
  <2> QED
    BY <1>2, <2>1, <2>4, <2>5, <2>7, <2>8, <2>9, <2>10, <2>11 DEF t, h, L
<1> QED
  BY <1>7, <1>8


\* One more line in one of the buckets.
CountIn(t, i, m) == [t EXCEPT ![i].count[m] = @ + 1, ![i].total = @ + 1]

LEMMA CountOne ==
  ASSUME NEW t \in Seq(Bucket), NEW i \in DOMAIN t, NEW m \in Modules
  PROVE  /\ CountIn(t, i, m) \in Seq(Bucket) /\ Len(CountIn(t, i, m)) = Len(t)
         /\ DOMAIN CountIn(t, i, m) = DOMAIN t
         /\ \A j \in DOMAIN t : CountIn(t, i, m)[j].hour = t[j].hour
         /\ \A j \in DOMAIN t : j # i => CountIn(t, i, m)[j] = t[j]
         /\ CountIn(t, i, m)[i].total = t[i].total + 1
         /\ \A k \in Modules : CountIn(t, i, m)[i].count[k]
                                 = IF k = m THEN t[i].count[k] + 1 ELSE t[i].count[k]
<1>1. Len(t) \in Nat /\ DOMAIN t = 1 .. Len(t)
  BY LenProperties
<1>2. \A j \in DOMAIN t : t[j] \in Bucket
  BY <1>1, ElementOfSeq
<1> DEFINE c == [hour |-> t[i].hour, count |-> [t[i].count EXCEPT ![m] = @ + 1],
                 total |-> t[i].total + 1]
           b == CountIn(t, i, m)
<1>3. t[i] \in Bucket
  BY <1>2
<1>4. /\ c \in Bucket /\ c.hour = t[i].hour /\ c.total = t[i].total + 1
      /\ \A k \in Modules :
           c.count[k] = IF k = m THEN t[i].count[k] + 1 ELSE t[i].count[k]
  <2> DEFINE n == [t[i].count EXCEPT ![m] = @ + 1]
  <2>1. t[i].hour \in Nat /\ t[i].count \in [Modules -> Nat] /\ t[i].total \in Nat
    BY <1>3 DEF Bucket
  <2>2. /\ n \in [Modules -> Nat]
        /\ \A k \in Modules : n[k] = IF k = m THEN t[i].count[k] + 1 ELSE t[i].count[k]
    BY <2>1
  <2> HIDE DEF n
  <2>3. [hour |-> t[i].hour, count |-> n, total |-> t[i].total + 1] \in Bucket
    <3>1. t[i].total + 1 \in Nat
      BY <2>1
    <3> QED
      BY <2>1, <2>2, <3>1, Zenon DEF Bucket
  <2> QED
    BY <2>2, <2>3 DEF n
<1>5. b = [t EXCEPT ![i] = c]
  <2> DEFINE d == [t[i] EXCEPT !.count = [t[i].count EXCEPT ![m] = t[i].count[m] + 1]]
             s == [t EXCEPT ![i] = d]
  <2>1. b = [s EXCEPT ![i] = [s[i] EXCEPT !.total = t[i].total + 1]]
    BY DEF CountIn
  <2>2. s[i] = d
    OBVIOUS
  <2>3. [d EXCEPT !.total = t[i].total + 1] = c
    <3> DEFINE w == [t[i].count EXCEPT ![m] = t[i].count[m] + 1]
               v == t[i].total + 1
               e == t[i]
    <3>1. c = [hour |-> e.hour, count |-> w, total |-> v]
      OBVIOUS
    <3>2. d = [e EXCEPT !.count = w]
      OBVIOUS
    <3> HIDE DEF w, v, c, d, e
    <3>3. e = [hour |-> e.hour, count |-> e.count, total |-> e.total]
      BY <1>3 DEF Bucket, e
    <3>4. d = [hour |-> e.hour, count |-> w, total |-> e.total]
      BY <3>2, <3>3
    <3>5. [d EXCEPT !.total = v] = c
      BY <3>1, <3>4
    <3> QED
      BY <3>5 DEF v
  <2> HIDE DEF d, c, b
  <2>4. b = [s EXCEPT ![i] = c]
    BY <2>1, <2>2, <2>3
  <2>5. b = [j \in DOMAIN t |-> IF j = i THEN c ELSE t[j]]
    <3>1. b = [j \in DOMAIN s |-> IF j = i THEN c ELSE s[j]]
      BY <2>4
    <3>2. DOMAIN s = DOMAIN t /\ \A j \in DOMAIN t : j # i => s[j] = t[j]
      OBVIOUS
    <3> HIDE DEF s
    <3> QED
      BY <3>1, <3>2
  <2> QED
    BY <2>5
<1> HIDE DEF c
<1>6. b \in Seq(Bucket) /\ Len(b) = Len(t)
  <2>1. i \in 1 .. Len(t) /\ c \in Bucket
    BY <1>1, <1>4
  <2>2. [t EXCEPT ![i] = c] \in Seq(Bucket) /\ Len([t EXCEPT ![i] = c]) = Len(t)
    BY <2>1, ExceptSeq
  <2> QED
    BY <1>5, <2>2
<1> HIDE DEF b
<1>7. DOMAIN b = DOMAIN t /\ b[i] = c /\ \A j \in DOMAIN t : j # i => b[j] = t[j]
  BY <1>5
<1>8. \A j \in DOMAIN t : b[j].hour = t[j].hour
  BY <1>4, <1>7
<1> QED
  BY <1>4, <1>6, <1>7, <1>8 DEF b

\* The line is counted in the bucket of its hour and in no other.
LEMMA AcceptHours ==
  ASSUME AInv, NEW line \in Lines, AcceptLine(line)
  PROVE  HoursFit' /\ HoursCounted'
<1> DEFINE n == total + 1
           h == line.hour
           x == line.module
<1>1. Types /\ Adding(line) /\ Good(line) /\ HoursFit /\ HoursCounted
  BY AcceptStep DEF AInv, Types
<1>2. /\ GoodLines' = GoodLines \cup {n}
      /\ \A a : OfHour(a)' = IF h = a THEN OfHour(a) \cup {n} ELSE OfHour(a)
      /\ \A a, m : OfBoth(a, m)' = IF h = a /\ x = m THEN OfBoth(a, m) \cup {n}
                                                     ELSE OfBoth(a, m)
  BY <1>1, AcceptSets
<1>3. /\ n \notin DOMAIN seen /\ seen'[n] = line
      /\ \A i \in DOMAIN seen : seen'[i] = seen[i]
  BY <1>1, Grown
<1>4. /\ GoodLines \subseteq DOMAIN seen
      /\ \A a : IsFiniteSet(OfHour(a)) /\ n \notin OfHour(a)
      /\ \A a, m : IsFiniteSet(OfBoth(a, m)) /\ n \notin OfBoth(a, m)
  <2>1. /\ GoodLines \subseteq DOMAIN seen
        /\ \A a : IsFiniteSet(OfHour(a)) /\ \A m : IsFiniteSet(OfBoth(a, m))
    BY <1>1, Finite
  <2>2. \A a : OfHour(a) \subseteq GoodLines
    BY DEF OfHour
  <2>3. \A a, m : OfBoth(a, m) \subseteq GoodLines
    BY DEF OfBoth
  <2> QED
    BY <1>3, <2>1, <2>2, <2>3
<1>5. /\ \A a : Cardinality(OfHour(a) \cup {n}) = Cardinality(OfHour(a)) + 1
      /\ \A a, m : Cardinality(OfBoth(a, m) \cup {n}) = Cardinality(OfBoth(a, m)) + 1
  BY <1>4, OneMore
<1>6. h \in Nat /\ x \in Modules
  BY <1>1, LineFacts
<1> HIDE DEF n
<1>7. CASE NoRoom(h)
  <2>1. buckets' = buckets /\ last' = last
    BY <1>7, AcceptHourStep
  <2>2. HoursFit'
    BY <1>1, <2>1 DEF HoursFit
  <2>3. \A i \in DOMAIN buckets : buckets[i].hour # h
    BY <1>7 DEF NoRoom, HasBucket
  <2>4. Sorted(buckets)' /\ Exact(buckets)'
    <3>1. Sorted(buckets) /\ Exact(buckets)
      BY <1>1 DEF HoursCounted
    <3>2. \A i \in DOMAIN buckets : /\ OfHour(buckets[i].hour)' = OfHour(buckets[i].hour)
                                    /\ \A m : OfBoth(buckets[i].hour, m)'
                                                = OfBoth(buckets[i].hour, m)
      BY <1>2, <2>1, <2>3
    <3> HIDE DEF h, x
    <3> QED
      BY <2>1, <3>1, <3>2 DEF Sorted, Exact
  <2>5. Len(buckets') = MaxBuckets
    <3>1. Len(buckets) \in Nat /\ MaxBuckets \in Nat /\ Len(buckets) <= MaxBuckets
      BY <1>1, LenProperties, AggregatorAssumption DEF HoursFit
    <3> QED
      BY <1>7, <2>1, <3>1 DEF NoRoom
  <2> QED
    BY <2>2, <2>4, <2>5 DEF HoursCounted
<1>8. CASE ~NoRoom(h)
  <2> DEFINE t == There(line)
             i == At(line)
             b == buckets'
  <2>1. /\ b = CountIn(t, i, x)
        /\ last' = IF Cached(h) THEN last ELSE [known |-> TRUE, hour |-> h, index |-> i]
    <3>1. CountInBucket(line)
      BY <1>8, AcceptHourStep
    <3> QED
      BY <3>1 DEF CountInBucket, At, There, CountIn
  <2>2. /\ t \in Seq(Bucket)
        /\ Len(t) <= MaxBuckets /\ Len(buckets) <= Len(t)
        /\ i \in DOMAIN t /\ t[i].hour = h
        /\ Sorted(t) /\ Exact(t)
        /\ \A j \in DOMAIN buckets : \E k \in DOMAIN t : t[k].hour = buckets[j].hour
    BY <1>8, BucketThere
  <2> HIDE DEF t, i, x, h
  <2>3. /\ b \in Seq(Bucket) /\ Len(b) = Len(t) /\ DOMAIN b = DOMAIN t
        /\ \A j \in DOMAIN t : b[j].hour = t[j].hour
        /\ \A j \in DOMAIN t : j # i => b[j] = t[j]
        /\ b[i].total = t[i].total + 1
        /\ \A k \in Modules :
             b[i].count[k] = IF k = x THEN t[i].count[k] + 1 ELSE t[i].count[k]
    <3> HIDE DEF b
    <3>1. b = CountIn(t, i, x)
      BY <2>1
    <3>2. t \in Seq(Bucket) /\ i \in DOMAIN t /\ x \in Modules
      BY <1>6, <2>2
    <3> QED
      BY <3>1, <3>2, CountOne
  <2> HIDE DEF b
  <2>4. DOMAIN t = 1 .. Len(t) /\ Len(t) \in Nat /\ Len(buckets) \in Nat /\ MaxBuckets \in Nat
    BY <1>1, <2>2, LenProperties, AggregatorAssumption DEF HoursFit
  <2>5. \A j \in DOMAIN t : t[j].hour \in Nat
    <3>1. \A j \in DOMAIN t : t[j] \in Bucket
      BY <2>2, <2>4, ElementOfSeq
    <3> QED
      BY <3>1 DEF Bucket
  <2>6. HoursFit'
    <3>1. last' \in [known : BOOLEAN, hour : Nat, index : Nat]
      <4>1. last \in [known : BOOLEAN, hour : Nat, index : Nat] /\ i \in Nat
        BY <1>1, <2>2, <2>4 DEF HoursFit
      <4> QED
        BY <1>6, <2>1, <4>1
    <3>2. last'.index = i /\ last'.hour = h
      <4>1. CASE Cached(h)
        BY <2>1, <4>1 DEF Cached, i, h, At
      <4>2. CASE ~Cached(h)
        BY <2>1, <4>2
      <4> QED
        BY <4>1, <4>2
    <3>3. last'.index \in DOMAIN b /\ b[last'.index].hour = last'.hour
      BY <2>2, <2>3, <3>2
    <3> QED
      BY <2>2, <2>3, <3>1, <3>3 DEF HoursFit, b
  <2>7. Sorted(b)
    BY <2>2, <2>3 DEF Sorted
  <2>8. ASSUME NEW j \in DOMAIN b, NEW a, a = b[j].hour
        PROVE  /\ b[j].total = Cardinality(OfHour(a)')
               /\ \A m \in Modules : b[j].count[m] = Cardinality(OfBoth(a, m)')
    <3>1. /\ j \in DOMAIN t
          /\ t[j].total = Cardinality(OfHour(t[j].hour))
          /\ \A m \in Modules : t[j].count[m] = Cardinality(OfBoth(t[j].hour, m))
      BY <2>2, <2>3 DEF Exact
    <3>2. CASE j = i
      <4>1. a = h /\ t[j].hour = h
        BY <2>2, <2>3, <2>8, <3>2
      <4>2. OfHour(a)' = OfHour(a) \cup {n}
        BY <1>2, <4>1
      <4>3. \A m : OfBoth(a, m)' = IF m = x THEN OfBoth(a, m) \cup {n} ELSE OfBoth(a, m)
        BY <1>2, <4>1
      <4>4. b[j].total = Cardinality(OfHour(a)')
        BY <1>5, <2>3, <3>1, <3>2, <4>1, <4>2
      <4>5. \A m \in Modules : b[j].count[m] = Cardinality(OfBoth(a, m)')
        BY <1>5, <2>3, <3>1, <3>2, <4>1, <4>3
      <4> QED
        BY <4>4, <4>5
    <3>3. CASE j # i
      <4>1. b[j] = t[j]
        BY <2>3, <3>1, <3>3
      <4>2. t[j].hour # h
        <5>1. j < i \/ i < j
          BY <2>2, <2>4, <3>1, <3>3
        <5>2. t[j].hour < t[i].hour \/ t[i].hour < t[j].hour
          BY <2>2, <3>1, <5>1 DEF Sorted
        <5> QED
          BY <2>2, <2>5, <3>1, <5>2
      <4>3. a = t[j].hour /\ a # h
        BY <2>8, <4>1, <4>2
      <4>4. OfHour(a)' = OfHour(a) /\ \A m : OfBoth(a, m)' = OfBoth(a, m)
        BY <1>2, <4>3
      <4> QED
        BY <3>1, <4>1, <4>3, <4>4
    <3> QED
      BY <3>2, <3>3
  <2>9. ASSUME NEW k \in GoodLines'
        PROVE  (\E j \in DOMAIN b : b[j].hour = seen'[k].hour) \/ Len(b) = MaxBuckets
    <3>1. CASE k = n
      <4>1. i \in DOMAIN b /\ b[i].hour = h /\ seen'[k].hour = h
        BY <1>3, <2>2, <2>3, <3>1 DEF h
      <4> QED
        BY <4>1
    <3>2. CASE k # n
      <4>1. k \in GoodLines /\ seen'[k] = seen[k]
        BY <1>2, <1>3, <1>4, <3>2
      <4>2. CASE Len(buckets) = MaxBuckets
        <5>1. Len(b) = Len(t) /\ Len(t) <= MaxBuckets /\ Len(buckets) <= Len(t)
          BY <2>2, <2>3
        <5> DEFINE lt == Len(t)
                   lb == Len(buckets)
        <5>2. lt \in Nat /\ lb \in Nat /\ MaxBuckets \in Nat
          BY <2>4
        <5>3. lt <= MaxBuckets /\ lb <= lt /\ lb = MaxBuckets
          BY <4>2, <5>1
        <5> HIDE DEF lt, lb
        <5>4. lt = MaxBuckets
          BY <5>2, <5>3
        <5> QED
          BY <5>1, <5>4 DEF lt
      <4>3. CASE HasBucket(seen[k].hour)
        BY <2>2, <2>3, <4>1, <4>3 DEF HasBucket
      <4> QED
        BY <1>1, <4>1, <4>2, <4>3 DEF HoursCounted
    <3> QED
      BY <3>1, <3>2
  <2>10. Exact(buckets)'
    BY <2>8 DEF Exact, b
  <2>11. \A k \in GoodLines' : HasBucket(seen[k].hour)' \/ Len(buckets') = MaxBuckets
    BY <2>9 DEF HasBucket, b
  <2>12. Sorted(buckets)'
    BY <2>7 DEF Sorted, b
  <2> QED
    BY <2>6, <2>10, <2>11, <2>12 DEF HoursCounted
<1> QED
  BY <1>7, <1>8

\* The least and the greatest speed.
LEMMA AcceptRange ==
  ASSUME AInv, NEW line \in Lines, AcceptLine(line), Within'
  PROVE  Bounds'
<1> DEFINE n == total + 1
           h == line.hour
           v == Spd(line).v
<1>1. Types /\ Adding(line) /\ Good(line)
  BY AcceptStep DEF AInv
<1>2. /\ GoodLines' = GoodLines \cup {n}
      /\ SpeedLines' = IF HasSpd(line) THEN SpeedLines \cup {n} ELSE SpeedLines
  BY <1>1, AcceptSets
<1>3. /\ n \notin DOMAIN seen /\ seen'[n] = line
      /\ \A i \in DOMAIN seen : seen'[i] = seen[i]
  BY <1>1, Grown
<1>4. /\ GoodLines \subseteq DOMAIN seen /\ SpeedLines \subseteq GoodLines
      /\ IsFiniteSet(SpeedLines)
      /\ \A i \in DOMAIN seen : seen[i] \in Lines
  BY <1>1, Finite
<1>5. v \in Nat /\ \A i \in SpeedLines : Spd(seen[i]).v \in Nat
  BY <1>4, LineFacts
<1> HIDE DEF n
\* The new line found room for its hour, or the range would be partial.
<1>6. ~NoRoom(h)
  <2> SUFFICES ASSUME NoRoom(h) PROVE FALSE
    OBVIOUS
  <2>1. buckets' = buckets
    BY AcceptHourStep
  <2>2. \E i \in DOMAIN buckets' : buckets'[i].hour = h
    BY <1>2, <1>3 DEF Within, HasBucket
  <2> QED
    BY <2>1, <2>2 DEF NoRoom, HasBucket
\* Any other line of its hour had the bucket before it.
<1>7. Within
  <2> SUFFICES ASSUME NEW k \in GoodLines, ~HasBucket(seen[k].hour) PROVE FALSE
    BY DEF Within
  <2> DEFINE a == seen[k].hour
  <2>1. k \in GoodLines' /\ seen'[k] = seen[k]
    BY <1>2, <1>3, <1>4
  <2>2. PICK j \in DOMAIN buckets' : buckets'[j].hour = a
    BY <2>1 DEF Within, HasBucket
  <2>3. a = h
    <3>1. CountInBucket(line) /\ There(line) \in Seq(Bucket) /\ At(line) \in DOMAIN There(line)
      BY <1>6, AcceptHourStep, BucketThere
    <3>2. line.module \in Modules
      BY <1>1, LineFacts
    <3> DEFINE t == There(line)
               i == At(line)
               m == line.module
               b == buckets'
    <3>3. b = CountIn(t, i, m)
      BY <3>1 DEF CountInBucket, At, There, CountIn
    <3>4. \A y \in DOMAIN t : t[y].hour = h \/ HasBucket(t[y].hour)
      BY <1>6, BucketThere
    <3> HIDE DEF t, i, m, b
    <3>5. t \in Seq(Bucket) /\ i \in DOMAIN t /\ m \in Modules
      BY <3>1, <3>2 DEF t, i, m
    <3>6. DOMAIN b = DOMAIN t /\ \A y \in DOMAIN t : b[y].hour = t[y].hour
      BY <3>3, <3>5, CountOne
    <3>7. j \in DOMAIN b /\ b[j].hour = a
      BY <2>2 DEF b
    <3> QED
      BY <3>4, <3>6, <3>7
  <2>4. ~HasBucket(h) /\ k \in OfHour(h)
    BY <2>3 DEF OfHour
  <2>5. Cardinality(OfHour(h)) = 0 /\ IsFiniteSet(OfHour(h))
    BY <1>1, <1>6, <2>4, NewHour, Finite
  <2> QED
    BY <2>4, <2>5, FS_EmptySet
<1>8. Bounds /\ (spdN = 0 <=> SpeedLines = {})
  <2>1. Bounds /\ spdN = Cardinality(SpeedLines)
    BY <1>7 DEF AInv, RangeKept, SpeedsCounted
  <2> QED
    BY <1>4, <2>1, FS_EmptySet
<1>9. WidenRange(line) /\ spdMin \in Nat /\ spdMax \in Nat
  BY <1>1, <1>6, AcceptHourStep DEF Types, Counters
<1>10. \A i \in SpeedLines : seen'[i] = seen[i]
  BY <1>3, <1>4
<1> HIDE DEF h
<1>11. CASE ~HasSpd(line)
  <2>1. SpeedLines' = SpeedLines /\ spdMin' = spdMin /\ spdMax' = spdMax
    BY <1>2, <1>9, <1>11 DEF WidenRange
  <2> QED
    BY <1>8, <1>10, <2>1 DEF Bounds
<1>12. CASE HasSpd(line)
  <2>1. /\ SpeedLines' = SpeedLines \cup {n}
        /\ spdMin' = IF spdN = 0 \/ v < spdMin THEN v ELSE spdMin
        /\ spdMax' = IF spdN = 0 \/ v > spdMax THEN v ELSE spdMax
    BY <1>2, <1>9, <1>12 DEF WidenRange
  <2>2. Spd(seen'[n]).v = v
    BY <1>3
  <2> HIDE DEF v
  <2>3. \A i \in SpeedLines' : spdMin' <= Spd(seen'[i]).v /\ Spd(seen'[i]).v <= spdMax'
    <3> SUFFICES ASSUME NEW i \in SpeedLines'
                 PROVE  spdMin' <= Spd(seen'[i]).v /\ Spd(seen'[i]).v <= spdMax'
      OBVIOUS
    <3>1. CASE i = n
      BY <1>5, <1>9, <2>1, <2>2, <3>1
    <3>2. CASE i # n
      <4>1. i \in SpeedLines /\ seen'[i] = seen[i] /\ spdN # 0
        BY <1>8, <1>10, <2>1, <3>2
      <4> DEFINE w == Spd(seen[i]).v
      <4>2. w \in Nat /\ spdMin <= w /\ w <= spdMax
        BY <1>5, <1>8, <4>1 DEF Bounds
      <4>3. Spd(seen'[i]).v = w
        BY <4>1
      <4> HIDE DEF w
      <4> QED
        BY <1>5, <1>9, <2>1, <4>1, <4>2, <4>3
    <3> QED
      BY <3>1, <3>2
  <2>4. \E i \in SpeedLines' : spdMin' = Spd(seen'[i]).v
    <3>1. CASE spdN = 0 \/ v < spdMin
      BY <2>1, <2>2, <3>1
    <3>2. CASE ~(spdN = 0 \/ v < spdMin)
      <4>1. PICK i \in SpeedLines : spdMin = Spd(seen[i]).v
        BY <1>8, <3>2 DEF Bounds
      <4> QED
        BY <1>10, <2>1, <3>2, <4>1
    <3> QED
      BY <3>1, <3>2
  <2>5. \E i \in SpeedLines' : spdMax' = Spd(seen'[i]).v
    <3>1. CASE spdN = 0 \/ v > spdMax
      BY <2>1, <2>2, <3>1
    <3>2. CASE ~(spdN = 0 \/ v > spdMax)
      <4>1. PICK i \in SpeedLines : spdMax = Spd(seen[i]).v
        BY <1>8, <3>2 DEF Bounds
      <4> QED
        BY <1>10, <2>1, <3>2, <4>1
    <3> QED
      BY <3>1, <3>2
  <2> QED
    BY <2>3, <2>4, <2>5 DEF Bounds
<1> QED
  BY <1>11, <1>12

LEMMA AcceptInv ==
  ASSUME AInv, NEW line \in Lines, AcceptLine(line) PROVE AInv'
<1>1. RangeKept'
  BY AcceptRange DEF RangeKept
<1> QED
  BY <1>1, AcceptTypes, AcceptDispositions, AcceptSpeeds, AcceptRejects, AcceptHours
  DEF AInv, Types


-----------------------------------------------------------------------------
(* The invariant holds, and implies the properties.                        *)

LEMMA CountStep == AInv /\ [Next]_vars => AInv'
<1> SUFFICES ASSUME AInv, [Next]_vars PROVE AInv'
  OBVIOUS
<1>1. CASE Begin
  BY <1>1, BeginInv
<1>2. ASSUME NEW line \in Lines, RejectLine(line) PROVE AInv'
  BY <1>2, RejectInv
<1>3. ASSUME NEW line \in Lines, AcceptLine(line) PROVE AInv'
  BY <1>3, AcceptInv
<1>4. CASE DropLine
  BY <1>4, DropInv
<1>5. CASE Finish
  BY <1>5, FinishInv
<1>6. CASE UNCHANGED vars
  BY <1>6, StutterInv
<1> QED
  BY <1>1, <1>2, <1>3, <1>4, <1>5, <1>6 DEF Next

\* Whatever lines come in, however many, each reachable state counts them
\* exactly: the counters, the hours, the names and the range (add_line,
\* bucket_for, record_reject, reset).
THEOREM AggregatorInvariant == Spec => []AInv
BY InitInv, CountStep, PTL DEF Spec

LEMMA TypesHold == AInv => TypeOK
BY DEF AInv, Types, Counters, HoursFit, NamesFit, Bucket, TypeOK

\* The sum under LINE_DISPOSITION is that of the lines added and those dropped.
LEMMA SumHolds == AInv => DispositionTotal = total + oversize /\ RejectedLines = Rejects
<1> SUFFICES ASSUME AInv PROVE DispositionTotal = total + oversize /\ RejectedLines = Rejects
  OBVIOUS
<1>1. Dispositions /\ Counters
  BY DEF AInv, Types
<1>2. Rejects = Cardinality(Units(Reasons, Samples))
  <2>1. \A r \in Reasons : corrupt[r].count \in Nat
    BY <1>1 DEF Counters
  <2>2. MapThenSumSet(LAMBDA r : corrupt[r].count, Reasons)
          = Cardinality(Units(Reasons, [r \in Reasons |-> corrupt[r].count]))
    BY <2>1, ReasonsFinite, RejectSum
  <2> QED
    BY <2>2, Zenon DEF Rejects, Samples
<1>3. Cardinality(Units(Reasons, Samples)) \in Nat
  <2>1. Samples \in [Reasons -> Nat]
    BY <1>1 DEF Samples, Counters
  <2> QED
    BY <2>1, ReasonsFinite, UnitsFinite, FS_CardinalityType
<1> DEFINE c == Cardinality(Units(Reasons, Samples))
<1> HIDE DEF c
<1>4. Rejects = c /\ c \in Nat /\ total = accepted + c /\ accepted \in Nat /\ oversize \in Nat
  BY <1>1, <1>2, <1>3 DEF Dispositions, Counters, c
<1> QED
  BY <1>4 DEF DispositionTotal, RejectedLines

LEMMA CountsHold == AInv => CountsAreTrue
<1> SUFFICES ASSUME AInv PROVE CountsAreTrue
  OBVIOUS
<1>1. Dispositions
  BY DEF AInv
<1>2. RejectedLines = Rejects
  BY SumHolds
<1>3. accepted = Cardinality(GoodLines)
  BY <1>1 DEF Dispositions
<1>4. \A m \in Modules :
        moduleTotals[m] = Cardinality({i \in GoodLines : seen[i].module = m})
  BY <1>1 DEF Dispositions, OfModule
<1>5. \A r \in Reasons :
        corrupt[r].count = Cardinality({i \in DOMAIN seen \ GoodLines : Reason(seen[i]) = r})
  BY <1>1 DEF Dispositions, RejectedAs
<1> QED
  BY <1>2, <1>3, <1>4, <1>5 DEF CountsAreTrue

LEMMA HoursHold == AInv => HoursAreTrue
<1> SUFFICES ASSUME AInv PROVE HoursAreTrue
  OBVIOUS
<1>1. HoursCounted /\ buckets \in Seq(Bucket)
  BY DEF AInv, Types, HoursFit
<1>2. Len(buckets) \in Nat /\ DOMAIN buckets = 1 .. Len(buckets)
  BY <1>1, LenProperties
<1>3. \A i \in 2 .. Len(buckets) : buckets[i - 1].hour < buckets[i].hour
  <2> SUFFICES ASSUME NEW i \in 2 .. Len(buckets)
               PROVE  buckets[i - 1].hour < buckets[i].hour
    OBVIOUS
  <2>1. i - 1 \in DOMAIN buckets /\ i \in DOMAIN buckets /\ i - 1 < i
    BY <1>2
  <2> QED
    BY <1>1, <2>1 DEF HoursCounted, Sorted
<1>4. ASSUME NEW i \in DOMAIN buckets
      PROVE  /\ buckets[i].total = Cardinality({k \in GoodLines : seen[k].hour = buckets[i].hour})
             /\ \A m \in Modules : buckets[i].count[m] =
                  Cardinality({k \in {k \in GoodLines : seen[k].hour = buckets[i].hour} :
                                 seen[k].module = m})
  <2> DEFINE h == buckets[i].hour
  <2>1. /\ buckets[i].total = Cardinality(OfHour(h))
        /\ \A m \in Modules : buckets[i].count[m] = Cardinality(OfBoth(h, m))
    BY <1>1 DEF HoursCounted, Exact
  <2> HIDE DEF h
  <2>2. OfHour(h) = {k \in GoodLines : seen[k].hour = h}
    BY DEF OfHour
  <2>3. \A m : OfBoth(h, m) = {k \in {k \in GoodLines : seen[k].hour = h} : seen[k].module = m}
    BY DEF OfBoth
  <2> QED
    BY <2>1, <2>2, <2>3 DEF h
<1>5. \A k \in GoodLines : HasBucket(seen[k].hour) \/ Len(buckets) = MaxBuckets
  BY <1>1 DEF HoursCounted
<1> QED
  BY <1>3, <1>4, <1>5 DEF HoursAreTrue

LEMMA AverageHolds == AInv => AverageIsTrue
<1> SUFFICES ASSUME AInv PROVE AverageIsTrue
  OBVIOUS
<1>1. Types /\ SpeedsCounted
  BY DEF AInv
<1>2. /\ IsFiniteSet(SpeedLines) /\ SpeedLines \subseteq DOMAIN seen
      /\ \A i \in DOMAIN seen : seen[i] \in Lines
  BY <1>1, Finite
<1>3. \A i \in SpeedLines : Spd(seen[i]).v \in Nat
  BY <1>2, LineFacts
<1>4. MapThenSumSet(LAMBDA i : Spd(seen[i]).v, SpeedLines)
        = Cardinality(Units(SpeedLines, [i \in SpeedLines |-> Spd(seen[i]).v]))
  BY <1>2, <1>3, SpeedSum
<1> QED
  BY <1>1, <1>4, Zenon DEF SpeedsCounted, Speeds, AverageIsTrue

LEMMA RangeHolds == AInv => RangeTrueWithinBuckets
<1> SUFFICES ASSUME AInv, Within, SpeedLines # {}
             PROVE  /\ spdMin = Min({Spd(seen[i]).v : i \in SpeedLines})
                    /\ spdMax = Max({Spd(seen[i]).v : i \in SpeedLines})
  BY DEF RangeTrueWithinBuckets, RangeIsTrue, Within
<1> DEFINE S == {Spd(seen[i]).v : i \in SpeedLines}
<1>1. spdMin \in S /\ spdMax \in S /\ \A y \in S : spdMin <= y /\ y <= spdMax
  BY DEF AInv, RangeKept, Bounds
<1>2. S \in SUBSET Nat
  <2>1. /\ SpeedLines \subseteq DOMAIN seen /\ \A i \in DOMAIN seen : seen[i] \in Lines
    BY Finite DEF AInv
  <2> QED
    BY <2>1, LineFacts
<1> HIDE DEF S
<1>3. Min(S) = spdMin
  <2>1. Min(S) \in S /\ \A y \in S : Min(S) <= y
    BY <1>1, <1>2, MinIs
  <2> DEFINE a == Min(S)
  <2>3. a \in Nat /\ spdMin \in Nat /\ a <= spdMin /\ spdMin <= a
    BY <1>1, <1>2, <2>1
  <2> HIDE DEF a
  <2>4. a = spdMin
    BY <2>3
  <2> QED
    BY <2>4 DEF a
<1>4. Max(S) = spdMax
  <2>1. \E x \in S : \A y \in S : x >= y
    BY <1>1, <1>2
  <2>2. Max(S) \in S /\ \A y \in S : Max(S) >= y
    BY <2>1 DEF Max
  <2> DEFINE a == Max(S)
  <2>3. a \in Nat /\ spdMax \in Nat /\ a >= spdMax /\ spdMax >= a
    BY <1>1, <1>2, <2>2
  <2> HIDE DEF a
  <2>4. a = spdMax
    BY <2>3
  <2> QED
    BY <2>4 DEF a
<1> QED
  BY <1>3, <1>4 DEF S

LEMMA RejectsHold == AInv => RejectsAreTrue
<1> SUFFICES ASSUME AInv PROVE RejectsAreTrue
  OBVIOUS
<1>1. NamesCounted /\ FirstKept
  BY DEF AInv
<1>2. \A n \in DOMAIN names : names[n] = Cardinality(Named(n)) /\ Named(n) # {}
  BY <1>1 DEF NamesCounted
<1>3. \A i \in RejectedAs("UnknownModule") :
        seen[i].module \in DOMAIN names \/ Cardinality(DOMAIN names) = MaxNames
  BY <1>1 DEF NamesCounted
<1>4. \A r \in Reasons : RejectedAs(r) # {} => corrupt[r].first = Min(RejectedAs(r))
  BY <1>1 DEF FirstKept
<1> QED
  BY <1>2, <1>3, <1>4, Zenon DEF RejectsAreTrue, Named, RejectedAs

\* Every variable has its type, and the cached index is the bucket of the
\* cached hour: no line is ever counted in the bucket of another hour.
THEOREM AggregatorTypes == Spec => []TypeOK
BY AggregatorInvariant, TypesHold, PTL

\* Every line is disposed of once, whatever the file (add_line, record_reject).
THEOREM CountsStayTrue == Spec => []CountsAreTrue
BY AggregatorInvariant, CountsHold, PTL

\* The hours stay sorted and each is counted exactly; one is missing only when
\* there is no room (bucket_for).
THEOREM HoursStayTrue == Spec => []HoursAreTrue
BY AggregatorInvariant, HoursHold, PTL

\* The average stays that of every speed in range of an accepted line.
THEOREM AverageStaysTrue == Spec => []AverageIsTrue
BY AggregatorInvariant, AverageHolds, PTL

\* The least and the greatest speed are true while every hour has a bucket.
THEOREM RangeStaysTrue == Spec => []RangeTrueWithinBuckets
BY AggregatorInvariant, RangeHolds, PTL

\* The rejected names stay counted exactly and within their limit, and the
\* sample of a reason stays the first line rejected for it (record_reject).
THEOREM RejectsStayTrue == Spec => []RejectsAreTrue
BY AggregatorInvariant, RejectsHold, PTL


=============================================================================
