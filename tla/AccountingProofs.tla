-------------------------- MODULE AccountingProofs --------------------------
(***************************************************************************)
(* Proofs about the two components that are correct when their sums are:     *)
(* MetricReporter, whose amounts must all be accounted for, and              *)
(* CongressSample, whose weights must make up for what was dropped and whose *)
(* rates must stay within a target. They share the induction over finite     *)
(* sets and what it shows of sums.                                         *)
(***************************************************************************)
EXTENDS MetricReporter, CongressSample, FiniteSetTheorems, TLAPS

(* Induction over the subsets of a finite set, for a set T of sets. *)
LEMMA SubsetsInSet ==
  ASSUME NEW S, IsFiniteSet(S), NEW T,
         \A s \in SUBSET S : (\A t \in SUBSET s : t # s => t \in T) => s \in T
  PROVE  SUBSET S \subseteq T
<1> SUFFICES ASSUME (SUBSET S) \ T # {} PROVE FALSE
  OBVIOUS
<1> DEFINE R == StrictSubsetOrdering(S)
<1>1. IsWellFoundedOn(R, SUBSET S)
  <2>1. IsWellFoundedOn(R, FiniteSubsetsOf(S))
    BY FS_StrictSubsetOrderingWellFounded
  <2>2. FiniteSubsetsOf(S) = SUBSET S
    BY FS_FiniteSubsetsOfFinite
  <2> QED BY <2>1, <2>2
<1>2. \A t, s \in SUBSET S : t \subseteq s /\ t # s => <<t, s>> \in R
  BY DEF StrictSubsetOrdering
<1> HIDE DEF R
<1>3. PICK s \in (SUBSET S) \ T : \A t \in (SUBSET S) \ T : ~(<<t, s>> \in R)
  <2> DEFINE U == (SUBSET S) \ T
  <2>1. U \subseteq SUBSET S /\ U # {}
    OBVIOUS
  <2> HIDE DEF U
  <2>2. \E s \in U : \A t \in U : ~(<<t, s>> \in R)
    BY <1>1, <2>1, WFMin
  <2> QED BY <2>2 DEF U
<1>4. ASSUME NEW t \in SUBSET s, t # s PROVE t \in T
  <2>1. t \in SUBSET S /\ s \in SUBSET S
    BY <1>3
  <2>2. <<t, s>> \in R
    BY <1>2, <1>4, <2>1
  <2> QED BY <1>3, <2>1, <2>2
<1> QED BY <1>3, <1>4

(* The element that a fold takes first. *)
First(s) == CHOOSE x \in s : TRUE

LEMMA FirstIsIn ==
  ASSUME NEW s, s # {}
  PROVE  First(s) \in s
BY DEF First

(* The function that a sum over S is defined with: it exists, and it is the   *)
(* only one.                                                               *)
IsSum(g, f, A) ==
  g = [s \in A |-> IF s = {} THEN 0 ELSE f[First(s)] + g[s \ {First(s)}]]

LEMMA SumsAgree ==
  ASSUME NEW S, IsFiniteSet(S), NEW f, NEW h, \A x \in S : f[x] = h[x],
         NEW A, NEW B, SUBSET S \subseteq A, SUBSET S \subseteq B,
         NEW g, NEW k, IsSum(g, f, A), IsSum(k, h, B)
  PROVE  g[S] = k[S]
<1> DEFINE T == {s \in SUBSET S : g[s] = k[s]}
<1>1. ASSUME NEW s \in SUBSET S, \A t \in SUBSET s : t # s => t \in T
      PROVE  s \in T
  <2>1. CASE s = {}
    BY <2>1 DEF IsSum
  <2>2. CASE s # {}
    <3>1. First(s) \in s
      BY <2>2, FirstIsIn
    <3>2. s \ {First(s)} \in T
      BY <1>1, <3>1
    <3>3. s \in A /\ s \in B /\ f[First(s)] = h[First(s)]
      BY <3>1
    <3>4. g[s] = f[First(s)] + g[s \ {First(s)}] /\ k[s] = h[First(s)] + k[s \ {First(s)}]
      BY <2>2, <3>3 DEF IsSum
    <3> QED BY <3>2, <3>3, <3>4
  <2> QED BY <2>1, <2>2
<1> HIDE DEF T
<1>2. SUBSET S \subseteq T
  BY <1>1, SubsetsInSet
<1> QED BY <1>2 DEF T

LEMMA SumsExist ==
  ASSUME NEW f, NEW S, IsFiniteSet(S)
  PROVE  \E g : IsSum(g, f, SUBSET S)
<1> DEFINE T == {s \in SUBSET S : \E g : IsSum(g, f, SUBSET s)}
<1>1. ASSUME NEW s \in SUBSET S, \A t \in SUBSET s : t # s => t \in T
      PROVE  s \in T
  <2> DEFINE below(t) == CHOOSE g : IsSum(g, f, SUBSET t)
             sum(t) == IF t = {} THEN 0 ELSE f[First(t)] + below(t \ {First(t)})[t \ {First(t)}]
             g == [t \in SUBSET s |-> sum(t)]
  <2>1. ASSUME NEW t \in SUBSET s, t # s
        PROVE  IsSum(below(t), f, SUBSET t)
    BY <1>1, <2>1
  <2>2. ASSUME NEW t \in SUBSET s, t # s
        PROVE  g[t] = below(t)[t]
    <3>1. CASE t = {}
      <4>1. IsSum(below(t), f, SUBSET t) /\ g[t] = 0
        BY <2>1, <2>2, <3>1
      <4> HIDE DEF below, g
      <4> QED BY <3>1, <4>1 DEF IsSum
    <3>2. CASE t # {}
      <4> DEFINE u == t \ {First(t)}
      <4>1. First(t) \in t
        BY <3>2, FirstIsIn
      <4>2. u \in SUBSET s /\ u # s /\ SUBSET u \subseteq SUBSET t /\ IsFiniteSet(u)
        BY <2>2, <4>1, FS_Subset
      <4>3. IsSum(below(u), f, SUBSET u) /\ IsSum(below(t), f, SUBSET t)
        BY <2>1, <2>2, <4>2
      <4>4. PICK b, c : b = below(u) /\ c = below(t)
        OBVIOUS
      <4>5. IsSum(b, f, SUBSET u) /\ IsSum(c, f, SUBSET t)
        BY <4>3, <4>4
      <4>6. g[t] = f[First(t)] + b[u]
        BY <2>2, <3>2, <4>4
      <4> HIDE DEF below, g
      <4>7. b[u] = c[u]
        <5>1. PICK v, A, B : v = u /\ A = SUBSET u /\ B = SUBSET t
          OBVIOUS
        <5>2. /\ SUBSET v \subseteq A /\ SUBSET v \subseteq B /\ IsFiniteSet(v)
              /\ IsSum(b, f, A) /\ IsSum(c, f, B)
          BY <4>2, <4>5, <5>1
        <5>3. b[v] = c[v]
          BY <5>2, SumsAgree
        <5> QED BY <5>1, <5>3
      <4>8. c[t] = f[First(t)] + c[u]
        BY <3>2, <4>5 DEF IsSum
      <4> QED BY <4>4, <4>6, <4>7, <4>8
    <3> QED BY <3>1, <3>2
  <2>3. \A t \in SUBSET s : t # {} => t \ {First(t)} \in SUBSET s /\ t \ {First(t)} # s
    BY FirstIsIn
  <2> HIDE DEF below
  <2>4. g = [t \in SUBSET s |-> IF t = {} THEN 0 ELSE f[First(t)] + g[t \ {First(t)}]]
    BY <2>2, <2>3
  <2>5. IsSum(g, f, SUBSET s)
    BY <2>4 DEF IsSum
  <2> QED BY <2>5
<1> HIDE DEF T
<1>2. SUBSET S \subseteq T
  BY <1>1, SubsetsInSet
<1> QED BY <1>2 DEF T

LEMMA SumOnSet ==
  ASSUME NEW f, NEW S, IsFiniteSet(S)
  PROVE  \E g : IsSum(g, f, SUBSET S) /\ SumFunctionOnSet(f, S) = g[S]
<1>1. \E g : IsSum(g, f, SUBSET S)
  BY SumsExist
<1> QED BY <1>1 DEF SumFunctionOnSet, FoldFunctionOnSet, MapThenFoldSet, IsSum, First

LEMMA SumOfNothing ==
  ASSUME NEW f
  PROVE  SumFunctionOnSet(f, {}) = 0
<1>1. PICK g : IsSum(g, f, SUBSET {}) /\ SumFunctionOnSet(f, {}) = g[{}]
  BY SumOnSet, FS_EmptySet
<1> QED BY <1>1 DEF IsSum

LEMMA SumOfEquals ==
  ASSUME NEW S, IsFiniteSet(S), NEW f, NEW h, \A x \in S : f[x] = h[x]
  PROVE  SumFunctionOnSet(f, S) = SumFunctionOnSet(h, S)
<1>1. PICK g : IsSum(g, f, SUBSET S) /\ SumFunctionOnSet(f, S) = g[S]
  BY SumOnSet
<1>2. PICK k : IsSum(k, h, SUBSET S) /\ SumFunctionOnSet(h, S) = k[S]
  BY SumOnSet
<1>3. PICK A : A = SUBSET S
  OBVIOUS
<1>4. SUBSET S \subseteq A /\ IsSum(g, f, A) /\ IsSum(k, h, A)
  BY <1>1, <1>2, <1>3
<1>5. g[S] = k[S]
  BY <1>4, SumsAgree
<1> QED BY <1>1, <1>2, <1>5

LEMMA SumTakesFirst ==
  ASSUME NEW S, IsFiniteSet(S), S # {}, NEW f
  PROVE  SumFunctionOnSet(f, S) = f[First(S)] + SumFunctionOnSet(f, S \ {First(S)})
<1>1. PICK g : IsSum(g, f, SUBSET S) /\ SumFunctionOnSet(f, S) = g[S]
  BY SumOnSet
<1>2. PICK rest : rest = S \ {First(S)}
  OBVIOUS
<1>3. rest \in SUBSET S /\ IsFiniteSet(rest) /\ g[S] = f[First(S)] + g[rest]
  BY <1>1, <1>2, FS_Subset DEF IsSum
<1>4. PICK k : IsSum(k, f, SUBSET rest) /\ SumFunctionOnSet(f, rest) = k[rest]
  BY <1>3, SumOnSet
<1>5. PICK A, B : A = SUBSET S /\ B = SUBSET rest
  OBVIOUS
<1>6. SUBSET rest \subseteq A /\ SUBSET rest \subseteq B /\ IsSum(g, f, A) /\ IsSum(k, f, B)
  BY <1>1, <1>3, <1>4, <1>5
<1>7. g[rest] = k[rest]
  BY <1>3, <1>6, SumsAgree
<1> QED BY <1>1, <1>2, <1>3, <1>4, <1>7

LEMMA SumIsNatural ==
  ASSUME NEW S, IsFiniteSet(S), NEW f, \A x \in S : f[x] \in Nat
  PROVE  SumFunctionOnSet(f, S) \in Nat
<1> DEFINE T == {s \in SUBSET S : SumFunctionOnSet(f, s) \in Nat}
<1>1. ASSUME NEW s \in SUBSET S, \A t \in SUBSET s : t # s => t \in T
      PROVE  s \in T
  <2>1. CASE s = {}
    BY <2>1, SumOfNothing
  <2>2. CASE s # {}
    <3>1. First(s) \in s /\ IsFiniteSet(s)
      BY <2>2, FirstIsIn, FS_Subset
    <3>2. s \ {First(s)} \in T
      BY <1>1, <3>1
    <3>3. SumFunctionOnSet(f, s) = f[First(s)] + SumFunctionOnSet(f, s \ {First(s)})
      BY <2>2, <3>1, SumTakesFirst
    <3> QED BY <3>1, <3>2, <3>3
  <2> QED BY <2>1, <2>2
<1> HIDE DEF T
<1>2. SUBSET S \subseteq T
  BY <1>1, SubsetsInSet
<1> QED BY <1>2 DEF T

(* A sum may take any of its elements first. *)
LEMMA SumTakesAny ==
  ASSUME NEW S, IsFiniteSet(S), NEW f, \A x \in S : f[x] \in Nat, NEW y \in S
  PROVE  SumFunctionOnSet(f, S) = f[y] + SumFunctionOnSet(f, S \ {y})
<1> DEFINE Sum(s) == SumFunctionOnSet(f, s)
           T == {s \in SUBSET S : \A x \in s : Sum(s) = f[x] + Sum(s \ {x})}
<1>1. ASSUME NEW s \in SUBSET S, \A t \in SUBSET s : t # s => t \in T, NEW x \in s
      PROVE  Sum(s) = f[x] + Sum(s \ {x})
  <2>1. PICK e : e = First(s)
    OBVIOUS
  <2>2. e \in s /\ IsFiniteSet(s) /\ Sum(s) = f[e] + Sum(s \ {e})
    BY <2>1, FirstIsIn, FS_Subset, SumTakesFirst
  <2>3. CASE x # e
    <3>1. s \ {e} \in T /\ s \ {x} \in T /\ x \in s \ {e} /\ e \in s \ {x}
      BY <1>1, <2>2, <2>3
    <3>2. Sum(s \ {e}) = f[x] + Sum((s \ {e}) \ {x}) /\ Sum(s \ {x}) = f[e] + Sum((s \ {x}) \ {e})
      BY <3>1
    <3>3. PICK u : u = (s \ {e}) \ {x}
      OBVIOUS
    <3>4. u = (s \ {x}) \ {e} /\ u \in SUBSET S /\ \A z \in u : f[z] \in Nat
      BY <3>3
    <3>a. IsFiniteSet(u)
      BY <3>4, FS_Subset
    <3>b. Sum(u) \in Nat
      BY <3>4, <3>a, SumIsNatural
    <3> HIDE DEF Sum
    <3>5. f[e] \in Nat /\ f[x] \in Nat
      BY <2>2
    <3> QED BY <2>2, <3>2, <3>3, <3>4, <3>5, <3>b
  <2> QED BY <2>2, <2>3
<1>2. \A s \in SUBSET S : (\A t \in SUBSET s : t # s => t \in T) => s \in T
  BY <1>1
<1> HIDE DEF T
<1>3. SUBSET S \subseteq T
  BY <1>2, SubsetsInSet
<1> QED BY <1>3 DEF T

LEMMA SumOfPartIsLess ==
  ASSUME NEW S, IsFiniteSet(S), NEW f, \A x \in S : f[x] \in Nat, NEW R \in SUBSET S
  PROVE  SumFunctionOnSet(f, R) <= SumFunctionOnSet(f, S)
<1> DEFINE Sum(s) == SumFunctionOnSet(f, s)
           T == {s \in SUBSET S : \A r \in SUBSET s : Sum(r) <= Sum(s)}
<1>1. ASSUME NEW s \in SUBSET S, \A t \in SUBSET s : t # s => t \in T, NEW r \in SUBSET s
      PROVE  Sum(r) <= Sum(s)
  <2>1. Sum(r) \in Nat
    <3>1. IsFiniteSet(r) /\ r \in SUBSET S
      BY FS_Subset
    <3> QED BY <3>1, SumIsNatural
  <2>2. CASE r # s
    <3>1. PICK x \in s : x \notin r
      BY <2>2
    <3>2. s \ {x} \in T /\ r \in SUBSET (s \ {x})
      BY <1>1, <3>1
    <3>3. Sum(r) <= Sum(s \ {x})
      BY <3>2
    <3>4. Sum(s) = f[x] + Sum(s \ {x}) /\ Sum(s \ {x}) \in Nat
      <4>1. IsFiniteSet(s) /\ \A y \in s : f[y] \in Nat
        BY FS_Subset
      <4>2. Sum(s) = f[x] + Sum(s \ {x})
        BY <4>1, SumTakesAny
      <4>3. PICK u : u = s \ {x}
        OBVIOUS
      <4>5. u \in SUBSET s /\ \A y \in u : f[y] \in Nat
        BY <4>1, <4>3
      <4>6. IsFiniteSet(u)
        BY <4>1, <4>5, FS_Subset
      <4>4. Sum(u) \in Nat
        BY <4>5, <4>6, SumIsNatural
      <4> QED BY <4>2, <4>3, <4>4
    <3> HIDE DEF Sum
    <3> QED BY <2>1, <3>1, <3>3, <3>4
  <2> QED BY <2>1, <2>2
<1>2. \A s \in SUBSET S : (\A t \in SUBSET s : t # s => t \in T) => s \in T
  BY <1>1
<1> HIDE DEF T
<1>3. SUBSET S \subseteq T
  BY <1>2, SubsetsInSet
<1> QED BY <1>3 DEF T

LEMMA SumOfZeros ==
  ASSUME NEW S, IsFiniteSet(S), NEW f, \A x \in S : f[x] = 0
  PROVE  SumFunctionOnSet(f, S) = 0
<1> DEFINE T == {s \in SUBSET S : SumFunctionOnSet(f, s) = 0}
<1>1. ASSUME NEW s \in SUBSET S, \A t \in SUBSET s : t # s => t \in T
      PROVE  s \in T
  <2>1. CASE s = {}
    BY <2>1, SumOfNothing
  <2>2. CASE s # {}
    <3>1. First(s) \in s /\ IsFiniteSet(s)
      BY <2>2, FirstIsIn, FS_Subset
    <3>2. s \ {First(s)} \in T
      BY <1>1, <3>1
    <3>3. SumFunctionOnSet(f, s) = f[First(s)] + SumFunctionOnSet(f, s \ {First(s)})
      BY <2>2, <3>1, SumTakesFirst
    <3> QED BY <3>1, <3>2, <3>3
  <2> QED BY <2>1, <2>2
<1> HIDE DEF T
<1>2. SUBSET S \subseteq T
  BY <1>1, SubsetsInSet
<1> QED BY <1>2 DEF T

LEMMA MaxOfBounded ==
  ASSUME NEW n \in Nat, NEW S \in SUBSET (0..n), S # {}
  PROVE  Max(S) \in S /\ \A y \in S : Max(S) >= y
<1> DEFINE U == {m \in Nat : \E x \in S : x + m = n}
           R == OpToRel(<, Nat)
<1>1. IsWellFoundedOn(R, Nat)
  BY NatLessThanWellFounded
<1>2. \A i, j \in Nat : i < j => <<i, j>> \in R
  BY DEF OpToRel
<1>3. U # {} /\ U \subseteq Nat
  <2>1. PICK x \in S : TRUE
    OBVIOUS
  <2>2. n - x \in Nat /\ x + (n - x) = n
    OBVIOUS
  <2> QED BY <2>2
<1> HIDE DEF R
<1>4. PICK m \in U : \A l \in U : ~(<<l, m>> \in R)
  <2> HIDE DEF U
  <2> QED BY <1>1, <1>3, WFMin
<1>5. PICK x \in S : x + m = n
  BY <1>4
<1>6. ASSUME NEW y \in S PROVE x >= y
  <2>1. n - y \in U
    <3>1. n - y \in Nat /\ y + (n - y) = n
      OBVIOUS
    <3> QED BY <3>1
  <2>2. m \in Nat /\ n - y \in Nat /\ ~(n - y < m)
    BY <1>2, <1>4, <2>1
  <2> QED BY <1>5, <2>2
<1> QED BY <1>6 DEF Max

-----------------------------------------------------------------------------
(* What entries report.                                                    *)

Reports == [Atomics -> Nat]

(* The values of a gauge are bounded. *)
Bounded(es) == \A k \in DOMAIN es, a \in Gauges : es[k][a] <= MaxRecords
IsBounded(e) == \A a \in Gauges : e[a] <= MaxRecords

LEMMA ReportOfGauge ==
  ASSUME NEW es \in Seq(Reports), Bounded(es), NEW K \in SUBSET DOMAIN es, NEW a \in Gauges
  PROVE  /\ ReportOf(es, a, K) \in Nat
         /\ \A k \in K : es[k][a] <= ReportOf(es, a, K)
         /\ ReportOf(es, a, K) = 0 \/ \E k \in K : ReportOf(es, a, K) = es[k][a]
<1> DEFINE S == {0} \cup {es[k][a] : k \in K}
<1>1. S \in SUBSET (0..MaxRecords) /\ S # {}
  <2> SUFFICES ASSUME NEW k \in K PROVE es[k][a] \in 0..MaxRecords
    BY ReporterAssumption
  <2>1. es[k] \in Reports /\ a \in Atomics
    BY DEF Atomics
  <2>2. es[k][a] \in Nat
    BY <2>1 DEF Reports
  <2> QED BY <2>2, ReporterAssumption DEF Bounded
<1>2. ReportOf(es, a, K) = Max(S)
  BY DEF ReportOf
<1>3. Max(S) \in S /\ \A y \in S : Max(S) >= y
  <2> HIDE DEF S
  <2> QED BY <1>1, MaxOfBounded, ReporterAssumption
<1>4. \A k \in K : es[k][a] \in S
  OBVIOUS
<1>5. \A m \in S : m = 0 \/ \E k \in K : m = es[k][a]
  OBVIOUS
<1> HIDE DEF S
<1>6. \A m \in S : m \in Nat
  BY <1>1, ReporterAssumption
<1> QED BY <1>2, <1>3, <1>4, <1>5, <1>6

(* f is what the entries of es say of atomic a. *)
IsColumn(f, es, a) == \A k \in DOMAIN es : f[k] = es[k][a]

LEMMA ReportOfSum ==
  ASSUME NEW es \in Seq(Reports), NEW K \in SUBSET DOMAIN es, NEW a \in Atomics \ Gauges,
         NEW f, IsColumn(f, es, a)
  PROVE  /\ IsFiniteSet(K) /\ \A k \in K : f[k] \in Nat
         /\ ReportOf(es, a, K) = SumFunctionOnSet(f, K)
         /\ ReportOf(es, a, K) \in Nat
<1>1. IsFiniteSet(DOMAIN es)
  <2>1. DOMAIN es = 1..Len(es) /\ Len(es) \in Int /\ 1 \in Int
    OBVIOUS
  <2>2. IsFiniteSet(1..Len(es))
    BY <2>1, FS_Interval
  <2> QED BY <2>1, <2>2
<1>2. IsFiniteSet(K)
  BY <1>1, FS_Subset
<1>3. PICK h : h = [k \in K |-> es[k][a]]
  OBVIOUS
<1>4. DOMAIN h = K /\ \A k \in K : h[k] = f[k]
  BY <1>3 DEF IsColumn
<1>5. ReportOf(es, a, K) = SumFunctionOnSet(h, K)
  BY <1>3, <1>4 DEF ReportOf, SumFunction
<1>6. SumFunctionOnSet(h, K) = SumFunctionOnSet(f, K)
  BY <1>2, <1>4, SumOfEquals
<1>7. \A k \in K : f[k] \in Nat
  BY DEF Reports, IsColumn
<1>8. SumFunctionOnSet(f, K) \in Nat
  BY <1>2, <1>7, SumIsNatural
<1> QED BY <1>2, <1>5, <1>6, <1>7, <1>8

LEMMA ReportIsNatural ==
  ASSUME NEW es \in Seq(Reports), Bounded(es), NEW K \in SUBSET DOMAIN es, NEW a \in Atomics
  PROVE  ReportOf(es, a, K) \in Nat
<1>1. CASE a \in Gauges
  BY <1>1, ReportOfGauge
<1>2. CASE a \notin Gauges
  <2>1. PICK f : f = [k \in DOMAIN es |-> es[k][a]]
    OBVIOUS
  <2>2. IsColumn(f, es, a)
    BY <2>1 DEF IsColumn
  <2> QED BY <1>2, <2>2, ReportOfSum
<1> QED BY <1>1, <1>2

(* More entries report no less. *)
LEMMA ReportGrows ==
  ASSUME NEW es \in Seq(Reports), Bounded(es), NEW L \in SUBSET DOMAIN es, NEW K \in SUBSET L,
         NEW a \in Atomics
  PROVE  ReportOf(es, a, K) <= ReportOf(es, a, L)
<1>1. CASE a \in Gauges
  <2>1. /\ ReportOf(es, a, K) \in Nat
        /\ ReportOf(es, a, K) = 0 \/ \E k \in K : ReportOf(es, a, K) = es[k][a]
    <3>1. K \in SUBSET DOMAIN es
      OBVIOUS
    <3> QED BY <1>1, <3>1, ReportOfGauge
  <2>2. ReportOf(es, a, L) \in Nat /\ \A k \in L : es[k][a] <= ReportOf(es, a, L)
    BY <1>1, ReportOfGauge
  <2> QED BY <2>1, <2>2
<1>2. CASE a \notin Gauges
  <2>1. PICK f : f = [k \in DOMAIN es |-> es[k][a]]
    OBVIOUS
  <2>2. IsColumn(f, es, a)
    BY <2>1 DEF IsColumn
  <2>3. /\ IsFiniteSet(L) /\ \A k \in L : f[k] \in Nat
        /\ ReportOf(es, a, L) = SumFunctionOnSet(f, L)
    <3>1. a \in Atomics \ Gauges
      BY <1>2
    <3> QED BY <2>2, <3>1, ReportOfSum
  <2>4. ReportOf(es, a, K) = SumFunctionOnSet(f, K)
    <3>1. K \in SUBSET DOMAIN es /\ a \in Atomics \ Gauges
      BY <1>2
    <3> QED BY <2>2, <3>1, ReportOfSum
  <2>5. SumFunctionOnSet(f, K) <= SumFunctionOnSet(f, L)
    BY <2>3, SumOfPartIsLess
  <2> QED BY <2>3, <2>4, <2>5
<1> QED BY <1>1, <1>2

LEMMA ReportIsTheSame ==
  ASSUME NEW es, NEW fs, NEW K, \A k \in K : es[k] = fs[k], NEW a
  PROVE  ReportOf(es, a, K) = ReportOf(fs, a, K)
<1>1. {es[k][a] : k \in K} = {fs[k][a] : k \in K}
  OBVIOUS
<1>2. [k \in K |-> es[k][a]] = [k \in K |-> fs[k][a]]
  OBVIOUS
<1> QED BY <1>1, <1>2 DEF ReportOf

(* An entry that is appended adds what it says. *)
Adds(es, e, fs) ==
  /\ fs \in Seq(Reports) /\ Bounded(fs)
  /\ DOMAIN es \subseteq DOMAIN fs /\ \A k \in DOMAIN es : fs[k] = es[k]
  /\ \A a \in Atomics :
       IF a \in Gauges THEN e[a] <= ReportOf(fs, a, DOMAIN fs)
       ELSE ReportOf(fs, a, DOMAIN fs) = ReportOf(es, a, DOMAIN es) + e[a]

LEMMA ReportOfAppend ==
  ASSUME NEW es \in Seq(Reports), Bounded(es), NEW e \in Reports,
         IsBounded(e), NEW fs, fs = Append(es, e)
  PROVE  Adds(es, e, fs)
<1>1. PICK n \in Nat : n = Len(es)
  OBVIOUS
<1>2. /\ fs \in Seq(Reports) /\ Len(fs) = n + 1 /\ DOMAIN es = 1..n /\ DOMAIN fs = 1..(n + 1)
      /\ \A k \in 1..n : fs[k] = es[k]
      /\ fs[n + 1] = e
  BY <1>1
<1>3. DOMAIN fs = DOMAIN es \cup {n + 1} /\ n + 1 \notin DOMAIN es
  BY <1>2
<1>4. Bounded(fs)
  BY <1>2, <1>3 DEF Bounded, IsBounded
<1>5. ASSUME NEW a \in Gauges PROVE e[a] <= ReportOf(fs, a, DOMAIN fs)
  <2>1. \A k \in DOMAIN fs : fs[k][a] <= ReportOf(fs, a, DOMAIN fs)
    BY <1>2, <1>4, ReportOfGauge
  <2> QED BY <1>2, <1>3, <2>1
<1>6. ASSUME NEW a \in Atomics \ Gauges
      PROVE  ReportOf(fs, a, DOMAIN fs) = ReportOf(es, a, DOMAIN es) + e[a]
  <2>1. PICK f : f = [k \in DOMAIN fs |-> fs[k][a]]
    OBVIOUS
  <2>2. IsColumn(f, fs, a) /\ IsColumn(f, es, a)
    BY <1>2, <1>3, <2>1 DEF IsColumn
  <2>3. PICK K, L : K = DOMAIN es /\ L = DOMAIN fs
    OBVIOUS
  <2>4. K \in SUBSET DOMAIN es /\ L \in SUBSET DOMAIN fs
    BY <2>3
  <2>5. /\ IsFiniteSet(L) /\ \A k \in L : f[k] \in Nat
        /\ ReportOf(fs, a, L) = SumFunctionOnSet(f, L)
    BY <1>2, <2>2, <2>4, ReportOfSum
  <2>6. ReportOf(es, a, K) = SumFunctionOnSet(f, K) /\ ReportOf(es, a, K) \in Nat
    BY <2>2, <2>4, ReportOfSum
  <2>7. n + 1 \in L /\ L \ {n + 1} = K /\ f[n + 1] = e[a] /\ e[a] \in Nat
    BY <1>2, <1>3, <2>2, <2>3 DEF Reports, IsColumn
  <2>8. SumFunctionOnSet(f, L) = f[n + 1] + SumFunctionOnSet(f, L \ {n + 1})
    BY <2>5, <2>7, SumTakesAny
  <2> QED BY <2>3, <2>5, <2>6, <2>7, <2>8
<1>7. DOMAIN es \subseteq DOMAIN fs /\ \A k \in DOMAIN es : fs[k] = es[k]
  BY <1>2, <1>3
<1> QED BY <1>2, <1>4, <1>5, <1>6, <1>7 DEF Adds

LEMMA ReportOfNone ==
  ASSUME NEW a \in Atomics \ Gauges
  PROVE  ReportOf(<<>>, a, DOMAIN <<>>) = 0
<1>1. PICK f : f = [k \in {} |-> 0]
  OBVIOUS
<1>2. [k \in {} |-> <<>>[k][a]] = f /\ DOMAIN f = {} /\ DOMAIN <<>> = {}
  BY <1>1
<1> QED BY <1>2, SumOfNothing DEF ReportOf, SumFunction

-----------------------------------------------------------------------------
(* What readouts under way hold.                                           *)

Held(g, a) == SumFunction([r \in Readers |-> g[r][a]])

Holdings == [Readers -> Reports]

LEMMA ReadersAreFinite == IsFiniteSet(Readers)
BY ReporterAssumption, FS_AddElement DEF Readers

LEMMA HeldIsNatural ==
  ASSUME NEW g \in Holdings, NEW a \in Atomics
  PROVE  Held(g, a) \in Nat
<1>1. PICK f : f = [r \in Readers |-> g[r][a]]
  OBVIOUS
<1>2. DOMAIN f = Readers /\ \A r \in Readers : f[r] \in Nat
  BY <1>1 DEF Holdings, Reports
<1>3. SumFunctionOnSet(f, Readers) \in Nat
  BY <1>2, ReadersAreFinite, SumIsNatural
<1> QED BY <1>1, <1>2, <1>3 DEF Held, SumFunction

(* A step of reader r changes the sum by what it changes for r. *)
LEMMA HeldChanges ==
  ASSUME NEW g \in Holdings, NEW h \in Holdings, NEW r \in Readers, NEW a \in Atomics,
         \A o \in Readers \ {r} : h[o][a] = g[o][a]
  PROVE  Held(h, a) + g[r][a] = Held(g, a) + h[r][a]
<1>1. PICK f, k : f = [o \in Readers |-> g[o][a]] /\ k = [o \in Readers |-> h[o][a]]
  OBVIOUS
<1>2. DOMAIN f = Readers /\ DOMAIN k = Readers /\ \A o \in Readers : f[o] \in Nat /\ k[o] \in Nat
  BY <1>1 DEF Holdings, Reports
<1>3. Held(g, a) = SumFunctionOnSet(f, Readers) /\ Held(h, a) = SumFunctionOnSet(k, Readers)
  BY <1>1, <1>2 DEF Held, SumFunction
<1>4. SumFunctionOnSet(f, Readers) = f[r] + SumFunctionOnSet(f, Readers \ {r})
  BY <1>2, ReadersAreFinite, SumTakesAny
<1>5. SumFunctionOnSet(k, Readers) = k[r] + SumFunctionOnSet(k, Readers \ {r})
  BY <1>2, ReadersAreFinite, SumTakesAny
<1>6. PICK S : S = Readers \ {r}
  OBVIOUS
<1>7. IsFiniteSet(S) /\ \A o \in S : f[o] = k[o] /\ f[o] \in Nat
  BY <1>1, <1>2, <1>6, ReadersAreFinite, FS_RemoveElement
<1>8. SumFunctionOnSet(f, S) = SumFunctionOnSet(k, S)
  BY <1>7, SumOfEquals
<1>9. SumFunctionOnSet(f, S) \in Nat
  BY <1>7, SumIsNatural
<1>10. f[r] = g[r][a] /\ k[r] = h[r][a] /\ f[r] \in Nat /\ k[r] \in Nat
  BY <1>1, <1>2
<1> QED BY <1>3, <1>4, <1>5, <1>6, <1>8, <1>9, <1>10

LEMMA HeldByOne ==
  ASSUME NEW g \in Holdings, NEW r \in Readers, NEW a \in Atomics,
         \A o \in Readers \ {r} : g[o][a] = 0
  PROVE  Held(g, a) = g[r][a]
<1>1. PICK f : f = [o \in Readers |-> g[o][a]]
  OBVIOUS
<1>2. DOMAIN f = Readers /\ \A o \in Readers : f[o] \in Nat
  BY <1>1 DEF Holdings, Reports
<1>3. Held(g, a) = SumFunctionOnSet(f, Readers)
  BY <1>1, <1>2 DEF Held, SumFunction
<1>4. SumFunctionOnSet(f, Readers) = f[r] + SumFunctionOnSet(f, Readers \ {r})
  BY <1>2, ReadersAreFinite, SumTakesAny
<1>5. PICK S : S = Readers \ {r}
  OBVIOUS
<1>6. IsFiniteSet(S) /\ \A o \in S : f[o] = 0
  BY <1>1, <1>5, ReadersAreFinite, FS_RemoveElement
<1>7. SumFunctionOnSet(f, S) = 0
  BY <1>6, SumOfZeros
<1> QED BY <1>1, <1>2, <1>3, <1>4, <1>5, <1>7

-----------------------------------------------------------------------------
(* Steps of the sink.                                                      *)

LEMMA OwnStays ==
  ASSUME Shapes, ReadoutsAreNoted, PromisesAreCovered, EachInOnePlace,
         UNCHANGED <<own, owed>>
  PROVE  Shapes' /\ ReadoutsAreNoted' /\ PromisesAreCovered' /\ EachInOnePlace'
<1>1. Shapes'
  BY DEF Shapes, own
<1>2. ReadoutsAreNoted'
  BY DEF ReadoutsAreNoted, IsReading, own
<1>3. PromisesAreCovered'
  BY DEF PromisesAreCovered, Covered, own
<1>4. EachInOnePlace'
  BY DEF EachInOnePlace, own
<1> QED BY <1>1, <1>2, <1>3, <1>4

LEMMA SinkKeeps ==
  ASSUME ReportsInv, MetricsSink \/ RunHandle \/ SinkWorks \/ SinkFails
  PROVE  ReportsInv'
<1> USE DEF Sink!contents, Sink!requests, Sink!shutdown, own
<1>1. UNCHANGED <<own, owed, appended>>
  BY DEF MetricsSink, RunHandle, SinkWorks, SinkFails, Sink!Ask, Sink!Take, Sink!Write, Sink!Persist,
         Sink!Stop, Sink!Close, Sink!Resolve, Sink!CutShort
<1>2. SetupIsKept'
  <2> USE <1>1 DEF SetupIsKept, ReportsInv, IsReading
  <2>1. CASE MetricsSink \/ RunHandle
    BY <2>1 DEF MetricsSink, RunHandle, Sink!Ask
  <2>2. CASE SinkFails
    BY <2>2 DEF SinkFails, Sink!CutShort
  <2>3. CASE SinkWorks
    <3>1. UNCHANGED <<asked, due>>
      BY <2>3 DEF SinkWorks, Sink!Take, Sink!Write, Sink!Persist, Sink!Stop, Sink!Close, Sink!Resolve
    <3>2. \/ life' = life \/ life' = "cut" \/ (asked /\ life = "open")
          \/ (life = "closing" /\ life' = "stopped")
      BY <2>3 DEF SinkWorks, Sink!Take, Sink!Write, Sink!Persist, Sink!Stop, Sink!Close, Sink!Resolve
    <3> QED BY <3>1, <3>2
  <2> QED BY <2>1, <2>2, <2>3
<1>3. SinkSettles'
  <2> SUFFICES ASSUME SinkSettles PROVE SinkSettles'
    BY DEF ReportsInv
  <2> USE <1>1 DEF Sink!Settled
  <2>1. CASE MetricsSink \/ RunHandle
    <3>1. UNCHANGED <<buffer, writing, written, durable, dropped, wait, life>> /\ ~asked /\ asked' /\ due' = appended
      BY <2>1 DEF MetricsSink, RunHandle, Sink!Ask
    <3>2. appended \in Nat
      BY DEF ReportsInv, Shapes, SinkSettles
    <3> QED BY <3>1, <3>2 DEF SinkSettles
  <2>2. CASE SinkFails
    BY <2>2 DEF SinkFails, Sink!CutShort, SinkSettles
  <2>3. CASE UNCHANGED own /\ Sink!Take
    BY <2>3 DEF Sink!Take, SinkSettles
  <2>4. CASE UNCHANGED own /\ Sink!Write
    BY <2>4 DEF Sink!Write, SinkSettles
  <2>5. CASE UNCHANGED own /\ Sink!Persist
    BY <2>5 DEF Sink!Persist, SinkSettles
  <2>6. CASE UNCHANGED own /\ Sink!Stop
    BY <2>6 DEF Sink!Stop, SinkSettles, Sink!Resolved, Sink!Pending
  <2>7. CASE UNCHANGED own /\ asked /\ Sink!Close
    BY <2>7 DEF Sink!Close, SinkSettles
  <2>8. ASSUME UNCHANGED own, NEW F \in SUBSET Flushes, Sink!Resolve(F) PROVE SinkSettles'
    BY <2>8 DEF Sink!Resolve, SinkSettles, Sink!Resolved, Sink!Pending, Sink!MayResolve
  <2> QED BY <2>1, <2>2, <2>3, <2>4, <2>5, <2>6, <2>7, <2>8 DEF SinkWorks
<1>4. Shapes' /\ ReadoutsAreNoted' /\ PromisesAreCovered' /\ EachInOnePlace'
  <2> HIDE DEF own
  <2> QED BY <1>1, OwnStays DEF ReportsInv
<1> QED BY <1>2, <1>3, <1>4 DEF ReportsInv

-----------------------------------------------------------------------------
(* Steps that only move a reader on.                                       *)

LEMMA NothingIsCovered ==
  ASSUME Shapes, NEW r \in Readers, promised[r] = Nothing, NEW K \in SUBSET DOMAIN entries,
         NEW a \in Atomics
  PROVE  Covered(r, a, K)
<1>1. ReportOf(entries, a, K) \in Nat
  BY ReportIsNatural DEF Shapes, Reports, Bounded
<1>2. promised[r][a] = 0 /\ got[r][a] \in Nat
  BY DEF Nothing, Shapes
<1> QED BY <1>1, <1>2 DEF Covered

LEMMA MovesOn ==
  ASSUME ReportsInv, \/ New \/ TaskEnds
                     \/ \E f \in Flushes : Flush(f) \/ FlushMetricsFails(f) \/ FlushReturns(f)
  PROVE  ReportsInv'
<1> USE DEF still, readout, history, sink
<1>1. PICK r \in Readers, l \in {"installed", "sleeping", "done", "flush", "error"} :
        pc' = [pc EXCEPT ![r] = l] /\ ~IsReading(r)
  BY DEF New, TaskEnds, Flush, FlushMetricsFails, FlushReturns, IsReading, Readers
<1>2. UNCHANGED <<still, sink>>
  BY DEF New, TaskEnds, Flush, FlushMetricsFails, FlushReturns
<1>3. DOMAIN pc = Readers /\ \A o \in Readers : IsReading(o)' <=> IsReading(o)
  BY <1>1 DEF ReportsInv, Shapes, IsReading
<1>4. Shapes' /\ EachInOnePlace' /\ ReadoutsAreNoted'
  <2>1. Shapes'
    BY <1>1, <1>2 DEF ReportsInv, Shapes
  <2>2. EachInOnePlace'
    BY <1>2 DEF ReportsInv, EachInOnePlace
  <2>3. ReadoutsAreNoted'
    BY <1>2, <1>3 DEF ReportsInv, ReadoutsAreNoted
  <2> QED BY <2>1, <2>2, <2>3
<1>5. SetupIsKept'
  <2>1. \A f \in Flushes : f \in Readers /\ f # "task"
    BY ReporterAssumption DEF Readers
  <2>2. /\ setup = "lambda" => pc'["task"] \in {"building", "installed"}
        /\ setup # "lambda" => pc'["task"] # "installed"
        /\ setup = "stream" /\ asked => pc'["task"] \in {"shutting", "done"}
        /\ setup = "stream" /\ pc'["task"] = "done" => asked /\ life \in {"stopped", "cut"}
        /\ pc'["task"] \in {"last", "shutting", "done"} => cancelled
        /\ stopped = "returned" => pc'["task"] = "done"
    BY <1>3, <2>1 DEF ReportsInv, SetupIsKept, New, TaskEnds, Flush, FlushMetricsFails, FlushReturns, Readers
  <2>3. \A f \in Flushes : pc'[f] # "last"
    BY <1>1, <1>3, <2>1 DEF ReportsInv, SetupIsKept
  <2> QED BY <1>2, <1>3, <2>1, <2>2, <2>3 DEF ReportsInv, SetupIsKept
<1>6. SinkSettles'
  <2>1. \A f \in Flushes : pc'[f] = "done" => wait[f] = "resolved"
    <3>1. \A f \in Flushes : f \in Readers /\ f # "task"
      BY ReporterAssumption DEF Readers
    <3> QED BY <1>3, <3>1 DEF ReportsInv, SinkSettles, New, TaskEnds, Flush, FlushMetricsFails, FlushReturns
  <2> QED BY <1>2, <2>1 DEF ReportsInv, SinkSettles, Sink!Settled
<1>7. PromisesAreCovered'
  <2>1. \A f \in Flushes : f \in Readers /\ f # "task"
    BY ReporterAssumption DEF Readers
  <2>2. \A o \in Readers, a \in Atomics, K \in SUBSET DOMAIN entries :
          Covered(o, a, K) => Covered(o, a, K)'
    BY <1>2 DEF Covered
  <2>3. \/ /\ r = "task" /\ ((pc'[r] = "done" /\ pc[r] = "shutting") \/ pc'[r] \in {"installed", "sleeping"})
           /\ \A f \in Flushes : pc'[f] = pc[f]
        \/ /\ r \in Flushes /\ pc'["task"] = pc["task"]
           /\ \/ (pc'[r] = "done" /\ pc[r] = "waiting") \/ pc'[r] = "error"
              \/ pc'[r] = "flush" /\ promised[r] = Nothing
           /\ \A f \in Flushes \ {r} : pc'[f] = pc[f]
    <3>1. CASE New \/ TaskEnds
      <4>1. "task" \in Readers
        BY DEF Readers
      <4>2. /\ (pc'["task"] = "done" /\ pc["task"] = "shutting") \/ pc'["task"] \in {"installed", "sleeping"}
            /\ pc'["task"] # pc["task"]
            /\ \A f \in Flushes : pc'[f] = pc[f]
        BY <1>3, <2>1, <3>1, <4>1 DEF New, TaskEnds
      <4>3. r = "task"
        BY <1>1, <1>3, <4>1, <4>2
      <4> QED BY <4>2, <4>3
    <3>2. CASE \E f \in Flushes : Flush(f) \/ FlushMetricsFails(f) \/ FlushReturns(f)
      <4>1. PICK f \in Flushes : Flush(f) \/ FlushMetricsFails(f) \/ FlushReturns(f)
        BY <3>2
      <4>2. pc'["task"] = pc["task"] /\ pc'[f] # pc[f] /\ (\A o \in Readers \ {f} : pc'[o] = pc[o])
        BY <1>3, <2>1, <4>1 DEF Flush, FlushMetricsFails, FlushReturns, Readers
      <4>3. f = r
        BY <1>1, <1>3, <2>1, <4>2
      <4>4. \/ (pc'[f] = "done" /\ pc[f] = "waiting") \/ pc'[f] = "error"
            \/ pc'[f] = "flush" /\ promised[f] = Nothing
        BY <1>3, <2>1, <4>1 DEF Flush, FlushMetricsFails, FlushReturns, ReportsInv, SetupIsKept
      <4> QED BY <2>1, <4>2, <4>3, <4>4
    <3> QED BY <3>1, <3>2
  <2>4. \A a \in Atomics : promised[r] = Nothing => Covered(r, a, DOMAIN entries)
    BY NothingIsCovered DEF ReportsInv
  <2>5. UNCHANGED <<entries, todo, owed, overlapped>>
    BY <1>2
  <2>6. \A f \in Flushes : 1..owed[f] \in SUBSET DOMAIN entries
    BY DEF ReportsInv, SinkSettles, Shapes
  <2>7. PromisesAreCovered
    BY DEF ReportsInv
  <2>8. /\ pc'["task"] = "last" => \A a \in Atomics \ todo["task"] : Covered("task", a, DOMAIN entries)'
        /\ pc'["task"] \in {"shutting", "done"} => \A a \in Atomics : Covered("task", a, DOMAIN entries)'
    BY <2>2, <2>3, <2>5, <2>7 DEF PromisesAreCovered, Readers
  <2>9. ASSUME NEW f \in Flushes \ overlapped
        PROVE  /\ pc'[f] = "reading" => \A a \in Atomics \ todo[f] : Covered(f, a, DOMAIN entries)'
               /\ pc'[f] = "flush" => \A a \in Atomics : Covered(f, a, DOMAIN entries)'
               /\ pc'[f] \in {"waiting", "done"} => \A a \in Atomics : Covered(f, a, 1..owed[f])'
    BY <2>1, <2>2, <2>3, <2>4, <2>5, <2>6, <2>7 DEF PromisesAreCovered
  <2> QED BY <2>5, <2>8, <2>9 DEF PromisesAreCovered
<1> QED BY <1>4, <1>5, <1>6, <1>7 DEF ReportsInv

(* The flush of the sink is requested: what the sink owes is all entries. *)
LEMMA FlushAsyncKeeps ==
  ASSUME ReportsInv, NEW f \in Flushes, FlushAsync(f)
  PROVE  ReportsInv'
<1> USE DEF still, readout, history
<1>1. /\ pc[f] = "flush" /\ pc' = [pc EXCEPT ![f] = "waiting"]
      /\ owed' = [owed EXCEPT ![f] = appended]
      /\ wait' = [wait EXCEPT ![f] = IF life = "open" THEN "waiting" ELSE wait'[f]]
      /\ UNCHANGED still /\ UNCHANGED <<appended, buffer, writing, written, durable, dropped, asked, due, life>>
  <2>1. DOMAIN wait = Flushes
    BY DEF ReportsInv, SinkSettles
  <2> QED BY <2>1 DEF FlushAsync, Sink!Request, Sink!Refuse, Sink!contents, Sink!shutdown
<1>2. /\ DOMAIN pc = Readers /\ \A o \in Readers : IsReading(o)' <=> IsReading(o)
      /\ f \in Readers /\ f # "task" /\ pc'["task"] = pc["task"]
  BY <1>1, ReporterAssumption DEF ReportsInv, Shapes, IsReading, Readers
<1>3. Shapes' /\ EachInOnePlace' /\ ReadoutsAreNoted'
  <2>1. Shapes'
    BY <1>1 DEF ReportsInv, Shapes
  <2>2. EachInOnePlace'
    BY <1>1 DEF ReportsInv, EachInOnePlace
  <2>3. ReadoutsAreNoted'
    BY <1>1, <1>2 DEF ReportsInv, ReadoutsAreNoted
  <2> QED BY <2>1, <2>2, <2>3
<1>4. SetupIsKept'
  <2>1. \A o \in Flushes : o \in Readers
    BY DEF Readers
  <2> QED BY <1>1, <1>2, <2>1 DEF ReportsInv, SetupIsKept
<1>5. appended = Len(entries) /\ appended \in Nat /\ DOMAIN entries = 1..appended
  BY DEF ReportsInv, Shapes, SinkSettles
<1>6. SinkSettles'
  <2>1. owed' \in [Flushes -> 0..appended]
    BY <1>1, <1>5 DEF ReportsInv, SinkSettles
  <2>2. DOMAIN wait = Flushes /\ DOMAIN wait' = Flushes
    BY <1>1 DEF ReportsInv, SinkSettles
  <2>3. ASSUME NEW o \in Flushes
        PROVE  /\ life = "open" => wait'[o] # "late" /\ (wait'[o] = "resolved" => Sink!Settled(owed'[o]))
               /\ pc'[o] = "done" => wait'[o] = "resolved"
    <3>1. CASE o = f
      BY <1>1, <1>2, <2>2, <3>1
    <3>2. CASE o # f
      <4>1. pc'[o] = pc[o] /\ wait'[o] = wait[o] /\ owed'[o] = owed[o]
        BY <1>1, <1>2, <2>2, <3>2 DEF ReportsInv, SinkSettles
      <4> QED BY <4>1 DEF ReportsInv, SinkSettles
    <3> QED BY <3>1, <3>2
  <2> QED BY <1>1, <2>1, <2>2, <2>3 DEF ReportsInv, SinkSettles, Sink!Settled
<1>7. PromisesAreCovered'
  <2>1. \A o \in Readers, a \in Atomics, K \in SUBSET DOMAIN entries :
          Covered(o, a, K) => Covered(o, a, K)'
    BY <1>1 DEF Covered
  <2>2. UNCHANGED <<entries, todo, overlapped>>
    BY <1>1
  <2>3. \A o \in Flushes : o \in Readers /\ 1..owed[o] \in SUBSET DOMAIN entries
    BY DEF ReportsInv, SinkSettles, Shapes, Readers
  <2>4. owed'[f] = appended /\ \A o \in Flushes \ {f} : pc'[o] = pc[o] /\ owed'[o] = owed[o]
    BY <1>1, <1>2, <2>3 DEF ReportsInv, SinkSettles
  <2>5. PromisesAreCovered /\ pc'[f] = "waiting"
    BY <1>1, <1>2 DEF ReportsInv
  <2>6. /\ pc'["task"] = "last" => \A a \in Atomics \ todo["task"] : Covered("task", a, DOMAIN entries)'
        /\ pc'["task"] \in {"shutting", "done"} => \A a \in Atomics : Covered("task", a, DOMAIN entries)'
    BY <1>2, <2>1, <2>2, <2>5 DEF PromisesAreCovered, Readers
  <2>7. ASSUME NEW o \in Flushes \ overlapped
        PROVE  /\ pc'[o] = "reading" => \A a \in Atomics \ todo[o] : Covered(o, a, DOMAIN entries)'
               /\ pc'[o] = "flush" => \A a \in Atomics : Covered(o, a, DOMAIN entries)'
               /\ pc'[o] \in {"waiting", "done"} => \A a \in Atomics : Covered(o, a, 1..owed[o])'
    <3>1. CASE o = f
      <4>1. \A a \in Atomics : Covered(o, a, DOMAIN entries)
        BY <1>1, <2>5, <3>1 DEF PromisesAreCovered
      <4>2. \A a \in Atomics : Covered(o, a, 1..appended)
        BY <1>5, <4>1
      <4>3. \A a \in Atomics : Covered(o, a, 1..owed[o])'
        BY <1>1, <1>5, <2>4, <3>1, <4>2 DEF Covered
      <4> QED BY <2>5, <3>1, <4>3
    <3>2. CASE o # f
      <4>1. /\ pc[o] = "reading" => \A a \in Atomics \ todo[o] : Covered(o, a, DOMAIN entries)
            /\ pc[o] = "flush" => \A a \in Atomics : Covered(o, a, DOMAIN entries)
            /\ pc[o] \in {"waiting", "done"} => \A a \in Atomics : Covered(o, a, 1..owed[o])
        BY <2>5 DEF PromisesAreCovered
      <4>2. pc'[o] = pc[o] /\ owed'[o] = owed[o]
        BY <2>4, <3>2
      <4> QED BY <1>1, <4>1, <4>2 DEF Covered
    <3> QED BY <3>1, <3>2
  <2> QED BY <2>2, <2>6, <2>7 DEF PromisesAreCovered
<1> QED BY <1>3, <1>4, <1>6, <1>7 DEF ReportsInv

-----------------------------------------------------------------------------
(* shutdown() promises what is recorded, and returns. *)
LEMMA ShutdownKeeps ==
  ASSUME ReportsInv, Shutdown \/ ShutdownReturns
  PROVE  ReportsInv'
<1> USE DEF readout, sink
<1>1. /\ UNCHANGED <<setup, cell, pc, todo, got, entries, ticks, recorded, overlapped, sink>>
      /\ promised' = promised \/ (promised' = [promised EXCEPT !["task"] = recorded] /\ Shutdown)
  BY DEF Shutdown, ShutdownReturns
<1>2. "task" \in Readers /\ \A f \in Flushes : f \in Readers /\ f # "task"
  BY ReporterAssumption DEF Readers
<1>3. \A f \in Flushes : promised'[f] = promised[f]
  BY <1>1, <1>2 DEF ReportsInv, Shapes
<1>4. Shapes'
  <2>1. \A a \in Atomics : recorded[a] \in Nat /\ recorded[a] <= recorded[a]
    BY DEF ReportsInv, Shapes
  <2>2. recorded \in [Atomics -> Nat]
    BY DEF ReportsInv, Shapes
  <2> QED BY <1>1, <1>2, <2>1, <2>2 DEF ReportsInv, Shapes
<1>5. ReadoutsAreNoted' /\ EachInOnePlace' /\ SinkSettles'
  <2>1. ReadoutsAreNoted'
    BY <1>1 DEF ReportsInv, ReadoutsAreNoted, IsReading
  <2>2. EachInOnePlace'
    BY <1>1 DEF ReportsInv, EachInOnePlace
  <2>3. SinkSettles'
    BY <1>1 DEF ReportsInv, SinkSettles, Sink!Settled
  <2> QED BY <2>1, <2>2, <2>3
<1>6. SetupIsKept'
  <2>1. /\ cancelled' <=> stopped' # "no"
        /\ pc["task"] \in {"last", "shutting", "done"} => cancelled'
        /\ stopped' = "returned" => pc["task"] = "done"
    BY DEF ReportsInv, SetupIsKept, Shutdown, ShutdownReturns
  <2> QED BY <1>1, <1>3, <2>1 DEF ReportsInv, SetupIsKept, IsReading
<1>7. PromisesAreCovered'
  <2>1. \A f \in Flushes, a \in Atomics : \A K : Covered(f, a, K) => Covered(f, a, K)'
    BY <1>1, <1>3 DEF Covered
  <2>2. PromisesAreCovered
    BY DEF ReportsInv
  <2>3. CASE promised' = promised
    BY <1>1, <2>2, <2>3 DEF PromisesAreCovered, Covered
  <2>4. CASE Shutdown
    <3>1. pc["task"] \notin {"last", "shutting", "done"}
      BY <2>4 DEF ReportsInv, SetupIsKept, Shutdown
    <3> QED BY <1>1, <2>1, <2>2, <3>1 DEF PromisesAreCovered
  <2> QED BY <1>1, <2>3, <2>4
<1> QED BY <1>4, <1>5, <1>6, <1>7 DEF ReportsInv

-----------------------------------------------------------------------------
(* A readout starts. *)
LEMMA StartKeeps ==
  ASSUME ReportsInv, Tick \/ LeaveLoop \/ \E f \in Flushes : FlushMetrics(f)
  PROVE  ReportsInv'
<1> USE DEF sink
<1>1. PICK r \in Readers, at \in {"reading", "last"} :
        /\ StartReading(r, at) /\ ~IsReading(r)
        /\ \/ r = "task" /\ pc[r] = "sleeping" /\ (at = "last" => cancelled) /\ promised' = promised
           \/ /\ r \in Flushes /\ pc["task"] = "installed" /\ at = "reading"
              /\ promised' = [promised EXCEPT ![r] = recorded]
  BY DEF Tick, LeaveLoop, FlushMetrics, IsReading, Readers
<1>2. UNCHANGED <<setup, cell, entries, cancelled, stopped, recorded, sink>>
  BY DEF Tick, LeaveLoop, FlushMetrics
<1>3. "task" \in Readers /\ \A f \in Flushes : f \in Readers /\ f # "task"
  BY ReporterAssumption DEF Readers
<1>4. /\ DOMAIN pc = Readers /\ pc' = [pc EXCEPT ![r] = at]
      /\ todo' = [todo EXCEPT ![r] = Atomics] /\ got' = got
  <2>1. got \in [Readers -> [Atomics -> Nat]] /\ got[r] = Nothing
    BY <1>1 DEF ReportsInv, Shapes, ReadoutsAreNoted
  <2> QED BY <1>1, <2>1 DEF StartReading, ReportsInv, Shapes
<1>5. \A o \in Readers : IsReading(o)' <=> (IsReading(o) \/ o = r)
  BY <1>1, <1>4 DEF IsReading
<1>6. /\ overlapped \subseteq overlapped' /\ overlapped' \subseteq Flushes
      /\ \A o \in Readers \ {r} : IsReading(o) => {o, r} \subseteq overlapped'
  <2> DEFINE others == {o \in Readers \ {r} : IsReading(o)}
  <2>1. overlapped' = IF others = {} THEN overlapped ELSE overlapped \cup others \cup {r}
    BY <1>1 DEF StartReading
  <2>2. overlapped \subseteq Flushes
    BY DEF ReportsInv, ReadoutsAreNoted
  <2>3. CASE r = "task"
    <3>1. setup # "lambda"
      BY <1>1, <2>3, ReporterAssumption DEF ReportsInv, SetupIsKept
    <3>2. others = {}
      BY <2>3, <3>1 DEF ReportsInv, SetupIsKept, Readers
    <3> QED BY <2>1, <2>2, <3>2
  <2>4. CASE r \in Flushes /\ pc["task"] = "installed"
    <3>1. others \subseteq Flushes
      BY <2>4 DEF Readers, IsReading
    <3> QED BY <2>1, <2>2, <2>4, <3>1
  <2> QED BY <1>1, <2>3, <2>4
<1>7. Shapes'
  <2>1. recorded \in [Atomics -> Nat] /\ \A a \in Atomics : recorded[a] <= recorded[a]
    BY DEF ReportsInv, Shapes
  <2>2. /\ promised' \in [Readers -> [Atomics -> Nat]]
        /\ \A o \in Readers, a \in Atomics : promised'[o][a] <= recorded[a]
    BY <1>1, <2>1 DEF ReportsInv, Shapes
  <2>3. DOMAIN pc' = Readers /\ todo' \in [Readers -> SUBSET Atomics]
    BY <1>4 DEF ReportsInv, Shapes
  <2> QED BY <1>2, <1>4, <2>2, <2>3 DEF ReportsInv, Shapes
<1>8. ReadoutsAreNoted'
  <2> SUFFICES ASSUME NEW o \in Readers
               PROVE  /\ ~IsReading(o)' => got[o] = Nothing /\ todo'[o] = {}
                      /\ \A a \in todo'[o] : got[o][a] = 0
                      /\ \A a \in Gauges : got[o][a] <= MaxRecords
                      /\ \A p \in Readers \ {o} :
                           IsReading(o)' /\ IsReading(p)' => o \in overlapped'
    BY <1>4, <1>6 DEF ReadoutsAreNoted
  <2>1. CASE o = r
    <3>1. got[o] = Nothing
      BY <1>1, <2>1 DEF ReportsInv, ReadoutsAreNoted
    <3>2. \A a \in Atomics : got[o][a] = 0
      BY <3>1 DEF Nothing
    <3>3. todo'[o] = Atomics
      BY <1>4, <2>1 DEF ReportsInv, Shapes
    <3>4. \A a \in Gauges : a \in Atomics
      BY DEF Atomics
    <3> QED BY <1>5, <1>6, <2>1, <3>1, <3>2, <3>3, <3>4, ReporterAssumption
  <2>2. CASE o # r
    <3>1. todo'[o] = todo[o]
      BY <1>4, <2>2 DEF ReportsInv, Shapes
    <3> QED BY <1>5, <1>6, <2>2, <3>1 DEF ReportsInv, ReadoutsAreNoted
  <2> QED BY <2>1, <2>2
<1>9. SetupIsKept'
  <2>1. CASE r = "task" /\ pc[r] = "sleeping" /\ (at = "last" => cancelled) /\ promised' = promised
    BY <1>2, <1>3, <1>4, <1>5, <2>1 DEF ReportsInv, SetupIsKept
  <2>2. CASE r \in Flushes /\ pc["task"] = "installed" /\ at = "reading"
    <3>1. setup = "lambda" /\ pc'["task"] = pc["task"] /\ \A f \in Flushes : pc'[f] # "last"
      BY <1>3, <1>4, <2>2 DEF ReportsInv, SetupIsKept
    <3> QED BY <1>2, <3>1 DEF ReportsInv, SetupIsKept
  <2> QED BY <1>1, <2>1, <2>2
<1>10. EachInOnePlace'
  BY <1>2, <1>4 DEF ReportsInv, EachInOnePlace
<1>11. SinkSettles'
  <2>1. \A f \in Flushes : pc'[f] = "done" => wait[f] = "resolved"
    BY <1>3, <1>4 DEF ReportsInv, SinkSettles
  <2> QED BY <1>2, <2>1 DEF ReportsInv, SinkSettles, Sink!Settled
<1>12. PromisesAreCovered'
  <2>1. todo'[r] = Atomics /\ pc'[r] \in {"reading", "last"} /\ r \notin {f \in Flushes : pc'[f] = "last"}
    BY <1>1, <1>3, <1>4 DEF ReportsInv, Shapes
  <2>2. \A o \in Readers \ {r} : pc'[o] = pc[o] /\ todo'[o] = todo[o] /\ promised'[o] = promised[o]
    BY <1>1, <1>4 DEF ReportsInv, Shapes
  <2>3. \A o \in Readers \ {r}, a \in Atomics : \A K : Covered(o, a, K) => Covered(o, a, K)'
    BY <1>2, <1>4, <2>2 DEF Covered
  <2>4. PromisesAreCovered
    BY DEF ReportsInv
  <2>5. /\ pc'["task"] = "last" => \A a \in Atomics \ todo'["task"] : Covered("task", a, DOMAIN entries)'
        /\ pc'["task"] \in {"shutting", "done"} => \A a \in Atomics : Covered("task", a, DOMAIN entries)'
    <3>1. CASE r = "task"
      BY <2>1, <3>1
    <3>2. CASE r # "task"
      BY <1>2, <1>3, <2>2, <2>3, <2>4, <3>2 DEF PromisesAreCovered, Covered
    <3> QED BY <3>1, <3>2
  <2>6. ASSUME NEW f \in Flushes \ overlapped'
        PROVE  /\ pc'[f] = "reading" => \A a \in Atomics \ todo'[f] : Covered(f, a, DOMAIN entries)'
               /\ pc'[f] = "flush" => \A a \in Atomics : Covered(f, a, DOMAIN entries)'
               /\ pc'[f] \in {"waiting", "done"} => \A a \in Atomics : Covered(f, a, 1..owed[f])'
    <3>1. CASE r = f
      BY <2>1, <3>1
    <3>2. CASE r # f
      <4>1. f \in Flushes \ overlapped /\ f \in Readers \ {r}
        BY <1>3, <1>6, <3>2
      <4>2. /\ pc[f] = "reading" => \A a \in Atomics \ todo[f] : Covered(f, a, DOMAIN entries)
            /\ pc[f] = "flush" => \A a \in Atomics : Covered(f, a, DOMAIN entries)
            /\ pc[f] \in {"waiting", "done"} => \A a \in Atomics : Covered(f, a, 1..owed[f])
        BY <2>4, <4>1 DEF PromisesAreCovered
      <4> QED BY <1>2, <1>4, <2>2, <4>1, <4>2 DEF Covered
    <3> QED BY <3>1, <3>2
  <2> QED BY <2>5, <2>6 DEF PromisesAreCovered
<1> QED BY <1>7, <1>8, <1>9, <1>10, <1>11, <1>12 DEF ReportsInv

LEMMA RecordKeeps ==
  ASSUME ReportsInv, NEW a \in Atomics, Record(a)
  PROVE  ReportsInv'
<1> USE DEF readout, sink
<1>1. /\ recorded[a] < MaxRecords /\ recorded' = [recorded EXCEPT ![a] = @ + 1]
      /\ cell' = [cell EXCEPT ![a] = IF a \in Gauges THEN recorded[a] + 1 ELSE @ + 1]
      /\ UNCHANGED <<setup, pc, todo, got, entries, cancelled, stopped, promised, overlapped, sink>>
  BY DEF Record
<1>2. /\ recorded \in [Atomics -> 0..MaxRecords] /\ cell \in [Atomics -> Nat]
      /\ \A g \in Gauges : cell[g] = recorded[g] /\ g \in Atomics
  BY DEF ReportsInv, Shapes, Atomics
<1>3. /\ recorded' \in [Atomics -> 0..MaxRecords] /\ cell' \in [Atomics -> Nat]
      /\ \A b \in Atomics \ {a} : recorded'[b] = recorded[b] /\ cell'[b] = cell[b]
      /\ recorded'[a] = recorded[a] + 1 /\ recorded[a] \in Nat
      /\ IF a \in Gauges THEN cell'[a] = recorded'[a] ELSE cell'[a] = cell[a] + 1
  BY <1>1, <1>2, ReporterAssumption
<1>4. Shapes'
  <2>1. \A g \in Gauges : cell'[g] = recorded'[g]
    BY <1>2, <1>3
  <2>2. \A r \in Readers, b \in Atomics : promised[r][b] <= recorded'[b]
    <3> SUFFICES ASSUME NEW r \in Readers, NEW b \in Atomics PROVE promised[r][b] <= recorded'[b]
      OBVIOUS
    <3>1. promised[r][b] \in Nat /\ promised[r][b] <= recorded[b]
      BY DEF ReportsInv, Shapes
    <3> QED BY <1>3, <3>1
  <2> QED BY <1>1, <1>3, <2>1, <2>2 DEF ReportsInv, Shapes
<1>5. ReadoutsAreNoted'
  BY <1>1 DEF ReportsInv, ReadoutsAreNoted, IsReading
<1>6. SetupIsKept' /\ SinkSettles'
  <2>1. SetupIsKept'
    BY <1>1 DEF ReportsInv, SetupIsKept, IsReading
  <2>2. SinkSettles'
    BY <1>1 DEF ReportsInv, SinkSettles, Sink!Settled
  <2> QED BY <2>1, <2>2
<1>7. PromisesAreCovered'
  BY <1>1 DEF ReportsInv, PromisesAreCovered, Covered
<1>8. EachInOnePlace'
  <2> SUFFICES ASSUME NEW b \in Atomics \ Gauges
               PROVE  recorded'[b] = cell'[b] + Held(got, b) + ReportOf(entries, b, DOMAIN entries)
    BY <1>1 DEF EachInOnePlace, Held
  <2>1. recorded[b] = cell[b] + Held(got, b) + ReportOf(entries, b, DOMAIN entries)
    BY DEF ReportsInv, EachInOnePlace, Held
  <2>2. Held(got, b) \in Nat
    BY HeldIsNatural DEF ReportsInv, Shapes, Holdings, Reports
  <2>3. ReportOf(entries, b, DOMAIN entries) \in Nat
    BY ReportIsNatural DEF ReportsInv, Shapes, Reports, Bounded
  <2>4. cell[b] \in Nat
    BY <1>2
  <2> QED BY <1>3, <2>1, <2>2, <2>3, <2>4
<1> QED BY <1>4, <1>5, <1>6, <1>7, <1>8 DEF ReportsInv

(* A readout takes what an atomic holds. *)
LEMMA VisitKeeps ==
  ASSUME ReportsInv, NEW r \in Readers, NEW a \in Atomics, Visit(r, a)
  PROVE  ReportsInv'
<1> USE DEF sink
<1>1. /\ IsReading(r) /\ a \in todo[r]
      /\ got' = [got EXCEPT ![r][a] = cell[a]]
      /\ cell' = [cell EXCEPT ![a] = IF a \in Gauges THEN @ ELSE 0]
      /\ todo' = [todo EXCEPT ![r] = @ \ {a}]
      /\ UNCHANGED <<setup, pc, entries, cancelled, stopped, recorded, promised, overlapped, sink>>
  BY DEF Visit, Phase, TakeValue
<1>2. /\ recorded \in [Atomics -> 0..MaxRecords] /\ cell \in [Atomics -> Nat]
      /\ got \in [Readers -> [Atomics -> Nat]] /\ todo \in [Readers -> SUBSET Atomics]
      /\ \A g \in Gauges : cell[g] = recorded[g] /\ g \in Atomics
  BY DEF ReportsInv, Shapes, Atomics
<1>3. /\ got' \in [Readers -> [Atomics -> Nat]]
      /\ got'[r][a] = cell[a] /\ \A b \in Atomics \ {a} : got'[r][b] = got[r][b]
      /\ \A o \in Readers \ {r} : got'[o] = got[o] /\ todo'[o] = todo[o]
      /\ todo' \in [Readers -> SUBSET Atomics] /\ todo'[r] = todo[r] \ {a}
  BY <1>1, <1>2
<1>4. /\ cell' \in [Atomics -> Nat] /\ \A b \in Atomics \ {a} : cell'[b] = cell[b]
      /\ cell'[a] = IF a \in Gauges THEN cell[a] ELSE 0
  BY <1>1, <1>2
<1>5. got[r][a] = 0
  BY <1>1 DEF ReportsInv, ReadoutsAreNoted
<1>6. Shapes'
  <2>1. \A g \in Gauges : cell'[g] = recorded[g]
    BY <1>2, <1>4
  <2> QED BY <1>1, <1>3, <1>4, <2>1 DEF ReportsInv, Shapes
<1>7. ReadoutsAreNoted'
  <2>1. \A o \in Readers : IsReading(o)' <=> IsReading(o)
    BY <1>1 DEF IsReading
  <2> SUFFICES ASSUME NEW o \in Readers
               PROVE  /\ ~IsReading(o) => got'[o] = Nothing /\ todo'[o] = {}
                      /\ \A b \in todo'[o] : got'[o][b] = 0
                      /\ \A b \in Gauges : got'[o][b] <= MaxRecords
    BY <1>1, <2>1 DEF ReportsInv, ReadoutsAreNoted
  <2>2. CASE o = r
    <3>1. \A b \in todo'[o] : got'[o][b] = 0
      BY <1>2, <1>3, <2>2 DEF ReportsInv, ReadoutsAreNoted
    <3>2. \A b \in Gauges : got'[o][b] <= MaxRecords
      <4> SUFFICES ASSUME NEW b \in Gauges PROVE got'[o][b] <= MaxRecords
        OBVIOUS
      <4>1. CASE b = a
        BY <1>2, <1>3, <2>2, <4>1, ReporterAssumption
      <4>2. CASE b # a
        BY <1>2, <1>3, <2>2, <4>2 DEF ReportsInv, ReadoutsAreNoted
      <4> QED BY <4>1, <4>2
    <3> QED BY <1>1, <2>2, <3>1, <3>2
  <2>3. CASE o # r
    BY <1>3, <2>3 DEF ReportsInv, ReadoutsAreNoted
  <2> QED BY <2>2, <2>3
<1>8. SetupIsKept' /\ SinkSettles'
  <2>1. SetupIsKept'
    BY <1>1 DEF ReportsInv, SetupIsKept, IsReading
  <2>2. SinkSettles'
    BY <1>1 DEF ReportsInv, SinkSettles, Sink!Settled
  <2> QED BY <2>1, <2>2
<1>9. \A b \in Atomics \ Gauges :
        /\ recorded[b] = cell'[b] + Held(got', b) + ReportOf(entries, b, DOMAIN entries)
        /\ Held(got', b) \in Nat /\ ReportOf(entries, b, DOMAIN entries) \in Nat
  <2> SUFFICES ASSUME NEW b \in Atomics \ Gauges
               PROVE  /\ recorded[b] = cell'[b] + Held(got', b) + ReportOf(entries, b, DOMAIN entries)
                      /\ Held(got', b) \in Nat /\ ReportOf(entries, b, DOMAIN entries) \in Nat
    OBVIOUS
  <2>1. recorded[b] = cell[b] + Held(got, b) + ReportOf(entries, b, DOMAIN entries)
    BY DEF ReportsInv, EachInOnePlace, Held
  <2>2. PICK h \in Holdings : h = got'
    BY <1>3 DEF Holdings, Reports
  <2>3. got \in Holdings
    BY <1>2 DEF Holdings, Reports
  <2>4. Held(got, b) \in Nat /\ Held(h, b) \in Nat
    BY <2>3, HeldIsNatural
  <2>5. ReportOf(entries, b, DOMAIN entries) \in Nat
    BY ReportIsNatural DEF ReportsInv, Shapes, Reports, Bounded
  <2>6. Held(h, b) + got[r][b] = Held(got, b) + h[r][b]
    <3>1. \A o \in Readers \ {r} : h[o][b] = got[o][b]
      BY <1>3, <2>2
    <3> QED BY <2>3, <3>1, HeldChanges
  <2>7. cell[b] \in Nat /\ got[r][b] \in Nat
    BY <1>2
  <2>8. IF b = a THEN h[r][b] = cell[b] /\ got[r][b] = 0 /\ cell'[b] = 0
        ELSE h[r][b] = got[r][b] /\ cell'[b] = cell[b]
    BY <1>3, <1>4, <1>5, <2>2
  <2> QED BY <2>1, <2>2, <2>4, <2>5, <2>6, <2>7, <2>8
<1>10. EachInOnePlace'
  BY <1>1, <1>9 DEF EachInOnePlace, Held
<1>11. ASSUME \A o \in Readers \ {r} : ~IsReading(o)
       PROVE  Covered(r, a, DOMAIN entries)'
  <2>1. promised[r][a] \in Nat /\ promised[r][a] <= recorded[a] /\ recorded[a] \in Nat
    BY <1>2 DEF ReportsInv, Shapes
  <2>2. CASE a \in Gauges
    BY <1>1, <1>2, <1>3, <2>1, <2>2 DEF Covered
  <2>3. CASE a \notin Gauges
    <3>1. PICK h \in Holdings : h = got'
      BY <1>3 DEF Holdings, Reports
    <3>2. \A o \in Readers \ {r} : h[o][a] = 0
      BY <1>3, <1>11, <3>1 DEF ReportsInv, ReadoutsAreNoted, Nothing
    <3>3. Held(h, a) = h[r][a]
      BY <3>2, HeldByOne
    <3>4. cell'[a] = 0 /\ recorded[a] = cell'[a] + Held(h, a) + ReportOf(entries, a, DOMAIN entries)
      BY <1>4, <1>9, <2>3, <3>1
    <3>5. Held(h, a) \in Nat /\ ReportOf(entries, a, DOMAIN entries) \in Nat
      BY <1>9, <2>3, <3>1
    <3>6. promised[r][a] <= got'[r][a] + ReportOf(entries, a, DOMAIN entries)
      BY <2>1, <3>1, <3>3, <3>4, <3>5
    <3> QED BY <1>1, <2>3, <3>6 DEF Covered
  <2> QED BY <2>2, <2>3
<1>12. PromisesAreCovered'
  <2>1. \A o \in Readers, b \in Atomics : \A K : (o # r \/ b # a) /\ Covered(o, b, K) => Covered(o, b, K)'
    BY <1>1, <1>3 DEF Covered
  <2>2. PromisesAreCovered
    BY DEF ReportsInv
  <2>3. "task" \in Readers /\ \A f \in Flushes : f \in Readers /\ f # "task"
    BY ReporterAssumption DEF Readers
  <2>4. r \notin overlapped => \A o \in Readers \ {r} : ~IsReading(o)
    BY <1>1 DEF ReportsInv, ReadoutsAreNoted
  <2>5. "task" \notin overlapped
    BY <2>3 DEF ReportsInv, ReadoutsAreNoted
  <2>6. /\ pc["task"] = "last" => \A b \in Atomics \ todo'["task"] : Covered("task", b, DOMAIN entries)'
        /\ pc["task"] \in {"shutting", "done"} => \A b \in Atomics : Covered("task", b, DOMAIN entries)'
    <3>1. CASE r = "task"
      <4>1. pc["task"] \notin {"shutting", "done"}
        BY <1>1, <3>1 DEF IsReading
      <4>2. Covered("task", a, DOMAIN entries)'
        BY <1>11, <2>4, <2>5, <3>1
      <4>3. ASSUME pc["task"] = "last", NEW b \in Atomics \ todo'["task"], b # a
            PROVE  Covered("task", b, DOMAIN entries)'
        <5>1. Covered("task", b, DOMAIN entries)
          BY <1>3, <2>2, <3>1, <4>3 DEF PromisesAreCovered
        <5> QED BY <1>1, <1>3, <3>1, <4>3, <5>1 DEF Covered
      <4> QED BY <4>1, <4>2, <4>3
    <3>2. CASE r # "task"
      BY <1>1, <1>3, <2>2, <2>3, <3>2 DEF PromisesAreCovered, Covered
    <3> QED BY <3>1, <3>2
  <2>7. ASSUME NEW f \in Flushes \ overlapped
        PROVE  /\ pc[f] = "reading" => \A b \in Atomics \ todo'[f] : Covered(f, b, DOMAIN entries)'
               /\ pc[f] = "flush" => \A b \in Atomics : Covered(f, b, DOMAIN entries)'
               /\ pc[f] \in {"waiting", "done"} => \A b \in Atomics : Covered(f, b, 1..owed[f])'
    <3>0. /\ pc[f] = "reading" => \A b \in Atomics \ todo[f] : Covered(f, b, DOMAIN entries)
          /\ pc[f] = "flush" => \A b \in Atomics : Covered(f, b, DOMAIN entries)
          /\ pc[f] \in {"waiting", "done"} => \A b \in Atomics : Covered(f, b, 1..owed[f])
      BY <2>2 DEF PromisesAreCovered
    <3>1. CASE r = f
      <4>1. pc[f] \notin {"flush", "waiting", "done"}
        BY <1>1, <3>1 DEF IsReading
      <4>2. Covered(f, a, DOMAIN entries)'
        BY <1>11, <2>4, <3>1
      <4>3. ASSUME pc[f] = "reading", NEW b \in Atomics \ todo'[f], b # a
            PROVE  Covered(f, b, DOMAIN entries)'
        <5>1. Covered(f, b, DOMAIN entries)
          BY <1>3, <3>0, <3>1, <4>3
        <5> QED BY <1>1, <1>3, <3>1, <4>3, <5>1 DEF Covered
      <4> QED BY <4>1, <4>2, <4>3
    <3>2. CASE r # f
      <4>1. got'[f] = got[f] /\ todo'[f] = todo[f]
        BY <1>3, <2>3, <3>2
      <4> QED BY <1>1, <3>0, <4>1 DEF Covered
    <3> QED BY <3>1, <3>2
  <2> QED BY <1>1, <2>6, <2>7 DEF PromisesAreCovered
<1> QED BY <1>6, <1>7, <1>8, <1>10, <1>12 DEF ReportsInv

(* Tail and Append of the sink's buffer, when one more entry is numbered. *)
LEMMA AppendSettles ==
  ASSUME SinkSettles, appended \in Nat, Sink!AppendEntry
  PROVE  /\ appended' = appended + 1 /\ buffer' \in Seq(1..appended') /\ dropped \subseteq dropped'
         /\ dropped' \subseteq 1..appended'
         /\ UNCHANGED <<writing, written, durable, wait, owed, asked, due, life>>
<1>1. /\ appended' = appended + 1
      /\ UNCHANGED <<writing, written, durable, wait, owed, asked, due, life>>
  BY DEF Sink!AppendEntry, Sink!requests, Sink!shutdown
<1>2. buffer \in Seq(1..appended') /\ appended + 1 \in 1..appended' /\ dropped \subseteq 1..appended'
  BY <1>1 DEF SinkSettles
<1>3. CASE buffer' = Append(buffer, appended + 1) /\ UNCHANGED dropped
  BY <1>1, <1>2, <1>3
<1>4. CASE /\ Len(buffer) = Capacity /\ buffer' = Append(Tail(buffer), appended + 1)
           /\ dropped' = dropped \cup {Head(buffer)}
  <2>1. buffer # <<>>
    BY <1>2, <1>4, ReporterAssumption
  <2>2. PICK S : S = 1..appended'
    OBVIOUS
  <2>3. buffer \in Seq(S) /\ appended + 1 \in S
    BY <1>2, <2>2
  <2>4. Tail(buffer) \in Seq(S) /\ Head(buffer) \in S
    BY <2>1, <2>3
  <2>5. Append(Tail(buffer), appended + 1) \in Seq(S)
    BY <2>3, <2>4
  <2> QED BY <1>1, <1>2, <1>4, <2>2, <2>4, <2>5
<1> QED BY <1>1, <1>3, <1>4 DEF Sink!AppendEntry

(* An entry is appended: it covers what its readout held. *)
LEMMA PublishKeeps ==
  ASSUME ReportsInv, NEW r \in Readers, Publish(r)
  PROVE  ReportsInv'
<1>1. /\ IsReading(r) /\ todo[r] = {}
      /\ entries' = Append(entries, got[r])
      /\ got' = [got EXCEPT ![r] = Nothing]
      /\ Sink!AppendEntry
      /\ pc' = [pc EXCEPT ![r] = IF r # "task" THEN "flush"
                                 ELSE IF @ = "last" THEN "shutting" ELSE "sleeping"]
      /\ UNCHANGED <<setup, cell, todo, cancelled, stopped, recorded, promised, overlapped>>
  BY DEF Publish, history
<1>2. "task" \in Readers /\ \A f \in Flushes : f \in Readers /\ f # "task"
  BY ReporterAssumption DEF Readers
<1>3. /\ DOMAIN pc = Readers /\ \A o \in Readers \ {r} : pc'[o] = pc[o]
      /\ \/ r \in Flushes /\ pc'[r] = "flush" /\ pc'["task"] = pc["task"]
         \/ r = "task" /\ pc[r] = "reading" /\ pc'[r] = "sleeping"
         \/ r = "task" /\ pc[r] = "last" /\ pc'[r] = "shutting"
  <2>1. DOMAIN pc = Readers
    BY DEF ReportsInv, Shapes
  <2>2. CASE r = "task"
    BY <1>1, <2>1, <2>2 DEF IsReading
  <2>3. CASE r # "task"
    <3>1. r \in Flushes /\ pc' = [pc EXCEPT ![r] = "flush"]
      BY <1>1, <2>3 DEF Readers
    <3> QED BY <1>2, <2>1, <2>3, <3>1
  <2> QED BY <2>2, <2>3
<1>4. /\ got \in Holdings /\ got' \in Holdings /\ got[r] \in Reports
      /\ got'[r] = Nothing /\ \A o \in Readers \ {r} : got'[o] = got[o]
  <2>1. Nothing \in Reports
    BY DEF Nothing, Reports
  <2>2. got \in Holdings
    BY DEF ReportsInv, Shapes, Holdings, Reports
  <2> QED BY <1>1, <2>1, <2>2 DEF Holdings
<1>5. /\ entries \in Seq(Reports) /\ Bounded(entries)
      /\ \A g \in Gauges : got[r][g] <= MaxRecords
  BY DEF ReportsInv, Shapes, ReadoutsAreNoted, Reports, Bounded
<1>6. PICK es : es = entries'
  OBVIOUS
<1>7. /\ es \in Seq(Reports) /\ Bounded(es)
      /\ DOMAIN entries \subseteq DOMAIN es /\ \A k \in DOMAIN entries : es[k] = entries[k]
      /\ \A a \in Atomics :
           IF a \in Gauges
           THEN got[r][a] <= ReportOf(es, a, DOMAIN es)
           ELSE ReportOf(es, a, DOMAIN es) = ReportOf(entries, a, DOMAIN entries) + got[r][a]
  <2>1. PICK ds, e : ds = entries /\ e = got[r]
    OBVIOUS
  <2>2. ds \in Seq(Reports) /\ Bounded(ds) /\ e \in Reports /\ IsBounded(e) /\ es = Append(ds, e)
    BY <1>1, <1>4, <1>5, <1>6, <2>1 DEF IsBounded
  <2>3. Adds(ds, e, es)
    BY <2>2, ReportOfAppend
  <2> QED BY <2>1, <2>3 DEF Adds
<1>8. Shapes'
  <2>1. entries' \in Seq([Atomics -> Nat]) /\ \A k \in DOMAIN entries', a \in Gauges : entries'[k][a] <= MaxRecords
    BY <1>6, <1>7 DEF Reports, Bounded
  <2>2. got' \in [Readers -> [Atomics -> Nat]] /\ DOMAIN pc' = Readers
    BY <1>1, <1>3, <1>4 DEF Holdings, Reports
  <2> QED BY <1>1, <2>1, <2>2 DEF ReportsInv, Shapes
<1>9. ReadoutsAreNoted'
  <2>1. ~IsReading(r)' /\ \A o \in Readers \ {r} : IsReading(o)' <=> IsReading(o)
    BY <1>2, <1>3 DEF IsReading
  <2>2. \A a \in Gauges : Nothing[a] = 0
    BY DEF Nothing, Atomics
  <2> SUFFICES ASSUME NEW o \in Readers
               PROVE  /\ ~IsReading(o)' => got'[o] = Nothing /\ todo[o] = {}
                      /\ \A a \in todo[o] : got'[o][a] = 0
                      /\ \A a \in Gauges : got'[o][a] <= MaxRecords
                      /\ \A p \in Readers \ {o} : IsReading(o)' /\ IsReading(p)' => o \in overlapped
    BY <1>1 DEF ReportsInv, ReadoutsAreNoted
  <2>3. CASE o = r
    BY <1>1, <1>4, <2>1, <2>2, <2>3, ReporterAssumption
  <2>4. CASE o # r
    BY <1>4, <2>1, <2>4 DEF ReportsInv, ReadoutsAreNoted
  <2> QED BY <2>3, <2>4
<1>10. /\ appended = Len(entries) /\ appended \in Nat /\ DOMAIN entries = 1..appended
       /\ SinkSettles
  BY DEF ReportsInv, Shapes, SinkSettles
<1>11. /\ appended' = appended + 1 /\ buffer' \in Seq(1..appended') /\ dropped \subseteq dropped'
       /\ dropped' \subseteq 1..appended'
       /\ UNCHANGED <<writing, written, durable, wait, owed, asked, due, life>>
  BY <1>1, <1>10, AppendSettles
<1>12. SinkSettles'
  <2>1. appended' = Len(entries')
    BY <1>1, <1>4, <1>5, <1>10, <1>11
  <2>2. \A f \in Flushes : pc'[f] = "done" => wait[f] = "resolved"
    BY <1>2, <1>3, <1>10 DEF SinkSettles
  <2>3. \A n : Sink!Settled(n) => Sink!Settled(n)'
    BY <1>11 DEF Sink!Settled
  <2>4. /\ due' \in 0..appended' /\ writing' \in 0..appended' /\ written' \subseteq 1..appended'
        /\ owed' \in [Flushes -> 0..appended']
    BY <1>10, <1>11 DEF SinkSettles
  <2>5. /\ life' = "stopped" => Sink!Settled(due)'
        /\ life' = "open" =>
             \A f \in Flushes : wait'[f] # "late" /\ (wait'[f] = "resolved" => Sink!Settled(owed[f])')
    BY <1>10, <1>11, <2>3 DEF SinkSettles, Sink!Settled
  <2> QED BY <1>10, <1>11, <2>1, <2>2, <2>4, <2>5 DEF SinkSettles
<1>13. SetupIsKept'
  <2>1. CASE r \in Flushes /\ pc'[r] = "flush" /\ pc'["task"] = pc["task"]
    <3>1. setup = "lambda"
      BY <1>1, <2>1 DEF ReportsInv, SetupIsKept
    <3>2. \A f \in Flushes : pc'[f] # "last"
      BY <1>2, <1>3, <2>1 DEF ReportsInv, SetupIsKept
    <3> QED BY <1>1, <1>11, <2>1, <3>1, <3>2 DEF ReportsInv, SetupIsKept
  <2>2. CASE /\ r = "task"
             /\ (pc[r] = "reading" /\ pc'[r] = "sleeping") \/ (pc[r] = "last" /\ pc'[r] = "shutting")
    <3>1. /\ setup # "lambda" /\ (setup = "stream" => ~asked) /\ stopped # "returned"
          /\ pc'["task"] = "shutting" => cancelled
      BY <2>2 DEF ReportsInv, SetupIsKept
    <3>2. \A f \in Flushes : ~IsReading(f)' /\ promised[f] = Nothing
      BY <1>2, <1>3, <2>2, <3>1 DEF ReportsInv, SetupIsKept, IsReading
    <3>3. /\ pc'["task"] \notin {"installed", "done"} /\ \A f \in Flushes : pc'[f] # "last"
          /\ (cancelled <=> stopped # "no") /\ (pc'["task"] \in {"last", "shutting", "done"} => cancelled)
      BY <1>2, <1>3, <2>2, <3>1 DEF ReportsInv, SetupIsKept
    <3> QED BY <1>1, <1>11, <3>1, <3>2, <3>3 DEF SetupIsKept
  <2> QED BY <1>3, <2>1, <2>2
<1>14. EachInOnePlace'
  <2> SUFFICES ASSUME NEW a \in Atomics \ Gauges
               PROVE  recorded[a] = cell[a] + Held(got', a) + ReportOf(es, a, DOMAIN es)
    BY <1>1, <1>6 DEF EachInOnePlace, Held
  <2>1. recorded[a] = cell[a] + Held(got, a) + ReportOf(entries, a, DOMAIN entries)
    BY DEF ReportsInv, EachInOnePlace, Held
  <2>2. PICK h \in Holdings : h = got'
    BY <1>4
  <2>3. Held(h, a) \in Nat /\ Held(got, a) \in Nat
    BY <1>4, HeldIsNatural
  <2>4. Held(h, a) + got[r][a] = Held(got, a) + h[r][a]
    <3>1. \A o \in Readers \ {r} : h[o][a] = got[o][a]
      BY <1>4, <2>2
    <3> QED BY <1>4, <3>1, HeldChanges
  <2>5. h[r][a] = 0 /\ got[r][a] \in Nat
    BY <1>4, <2>2 DEF Nothing, Reports
  <2>6. ReportOf(entries, a, DOMAIN entries) \in Nat
    BY <1>5, ReportIsNatural
  <2>7. cell[a] \in Nat
    BY DEF ReportsInv, Shapes
  <2>8. ReportOf(es, a, DOMAIN es) = ReportOf(entries, a, DOMAIN entries) + got[r][a]
    BY <1>7
  <2> QED BY <2>1, <2>2, <2>3, <2>4, <2>5, <2>6, <2>7, <2>8
<1>15. \A a \in Atomics, K \in SUBSET DOMAIN entries :
         /\ ReportOf(es, a, K) = ReportOf(entries, a, K)
         /\ ReportOf(es, a, K) <= ReportOf(es, a, DOMAIN es)
         /\ ReportOf(es, a, K) \in Nat /\ ReportOf(es, a, DOMAIN es) \in Nat
  <2> SUFFICES ASSUME NEW a \in Atomics, NEW K \in SUBSET DOMAIN entries
               PROVE  /\ ReportOf(es, a, K) = ReportOf(entries, a, K)
                      /\ ReportOf(es, a, K) <= ReportOf(es, a, DOMAIN es)
                      /\ ReportOf(es, a, K) \in Nat /\ ReportOf(es, a, DOMAIN es) \in Nat
    OBVIOUS
  <2>1. ReportOf(es, a, K) = ReportOf(entries, a, K)
    BY <1>7, ReportIsTheSame
  <2>2. PICK D : D = DOMAIN es
    OBVIOUS
  <2>3. D \in SUBSET DOMAIN es /\ K \in SUBSET D /\ K \in SUBSET DOMAIN es
    BY <1>7, <2>2
  <2>4. ReportOf(es, a, K) <= ReportOf(es, a, D)
    BY <1>7, <2>3, ReportGrows
  <2>5. ReportOf(es, a, K) \in Nat /\ ReportOf(es, a, D) \in Nat
    BY <1>7, <2>3, ReportIsNatural
  <2> QED BY <2>1, <2>2, <2>4, <2>5
<1>16. \A o \in Readers, a \in Atomics : promised[o][a] \in Nat /\ got[o][a] \in Nat
  BY DEF ReportsInv, Shapes
<1>17. ASSUME NEW o \in Readers, NEW a \in Atomics, Covered(o, a, DOMAIN entries)
       PROVE  Covered(o, a, DOMAIN entries)'
  <2>1. PICK D : D = DOMAIN entries
    OBVIOUS
  <2>2. /\ ReportOf(es, a, D) = ReportOf(entries, a, D) /\ ReportOf(es, a, D) <= ReportOf(es, a, DOMAIN es)
        /\ ReportOf(es, a, D) \in Nat /\ ReportOf(es, a, DOMAIN es) \in Nat
    BY <1>15, <2>1
  <2>3. promised[o][a] \in Nat /\ got[o][a] \in Nat
    BY <1>16
  <2>4. CASE o # r
    <3>1. got'[o] = got[o] /\ promised' = promised
      BY <1>1, <1>4, <2>4
    <3>2. IF a \in Gauges THEN promised[o][a] <= got[o][a] \/ promised[o][a] <= ReportOf(entries, a, D)
          ELSE promised[o][a] <= got[o][a] + ReportOf(entries, a, D)
      BY <1>17, <2>1 DEF Covered
    <3>3. IF a \in Gauges THEN promised[o][a] <= got[o][a] \/ promised[o][a] <= ReportOf(es, a, DOMAIN es)
          ELSE promised[o][a] <= got[o][a] + ReportOf(es, a, DOMAIN es)
      BY <2>2, <2>3, <3>2
    <3> QED BY <1>6, <3>1, <3>3 DEF Covered
  <2>5. CASE o = r
    <3>1. got'[o][a] = 0 /\ promised' = promised
      BY <1>1, <1>4, <2>5 DEF Nothing
    <3>2. IF a \in Gauges THEN promised[o][a] <= got[o][a] \/ promised[o][a] <= ReportOf(entries, a, D)
          ELSE promised[o][a] <= got[o][a] + ReportOf(entries, a, D)
      BY <1>17, <2>1 DEF Covered
    <3>3. IF a \in Gauges THEN got[o][a] <= ReportOf(es, a, DOMAIN es)
          ELSE ReportOf(es, a, DOMAIN es) = ReportOf(entries, a, D) + got[o][a]
      BY <1>7, <2>1, <2>5
    <3>4. promised[o][a] <= ReportOf(es, a, DOMAIN es)
      BY <2>2, <2>3, <3>2, <3>3
    <3> QED BY <1>6, <2>2, <3>1, <3>4 DEF Covered
  <2> QED BY <2>4, <2>5
<1>18. ASSUME NEW o \in Readers \ {r}, NEW a \in Atomics, NEW K \in SUBSET DOMAIN entries, Covered(o, a, K)
       PROVE  Covered(o, a, K)'
  <2>1. ReportOf(es, a, K) = ReportOf(entries, a, K) /\ got'[o] = got[o] /\ promised' = promised
    BY <1>1, <1>4, <1>15
  <2> QED BY <1>6, <1>18, <2>1 DEF Covered
<1>19. PromisesAreCovered'
  <2>1. PromisesAreCovered
    BY DEF ReportsInv
  <2>2. /\ pc'["task"] = "last" => \A a \in Atomics \ todo["task"] : Covered("task", a, DOMAIN entries)'
        /\ pc'["task"] \in {"shutting", "done"} => \A a \in Atomics : Covered("task", a, DOMAIN entries)'
    <3>1. CASE r = "task"
      <4>1. pc'["task"] \in {"shutting", "done"} => pc["task"] = "last"
        BY <1>2, <1>3, <3>1
      <4>2. ASSUME pc["task"] = "last", NEW a \in Atomics PROVE Covered("task", a, DOMAIN entries)'
        <5>1. Covered("task", a, DOMAIN entries)
          BY <1>1, <2>1, <3>1, <4>2 DEF PromisesAreCovered
        <5> QED BY <1>2, <1>17, <5>1
      <4> QED BY <1>2, <1>3, <3>1, <4>1, <4>2
    <3>2. CASE r # "task"
      <4>1. pc'["task"] = pc["task"]
        BY <1>2, <1>3, <3>2
      <4> QED BY <1>2, <1>17, <2>1, <4>1 DEF PromisesAreCovered
    <3> QED BY <3>1, <3>2
  <2>3. ASSUME NEW f \in Flushes \ overlapped
        PROVE  /\ pc'[f] = "reading" => \A a \in Atomics \ todo[f] : Covered(f, a, DOMAIN entries)'
               /\ pc'[f] = "flush" => \A a \in Atomics : Covered(f, a, DOMAIN entries)'
               /\ pc'[f] \in {"waiting", "done"} => \A a \in Atomics : Covered(f, a, 1..owed[f])'
    <3>1. /\ pc[f] = "reading" => \A a \in Atomics \ todo[f] : Covered(f, a, DOMAIN entries)
          /\ pc[f] = "flush" => \A a \in Atomics : Covered(f, a, DOMAIN entries)
          /\ pc[f] \in {"waiting", "done"} => \A a \in Atomics : Covered(f, a, 1..owed[f])
      BY <2>1 DEF PromisesAreCovered
    <3>2. CASE r = f
      <4>1. pc[f] \in {"reading", "last"} /\ pc'[f] = "flush" /\ todo[f] = {}
        BY <1>1, <1>2, <1>3, <3>2 DEF IsReading
      <4>2. pc[f] # "last"
        BY DEF ReportsInv, SetupIsKept
      <4>3. \A a \in Atomics : Covered(f, a, DOMAIN entries)
        BY <3>1, <4>1, <4>2
      <4>4. \A a \in Atomics : Covered(f, a, DOMAIN entries)'
        BY <1>2, <1>17, <4>3
      <4> QED BY <4>1, <4>4
    <3>3. CASE r # f
      <4>1. pc'[f] = pc[f] /\ owed' = owed /\ f \in Readers \ {r}
        BY <1>2, <1>3, <1>11, <3>3
      <4>2. PICK K : K = 1..owed[f]
        OBVIOUS
      <4>3. K \in SUBSET DOMAIN entries
        <5>1. owed[f] \in 0..appended
          BY <1>10 DEF SinkSettles
        <5> QED BY <1>10, <4>2, <5>1
      <4>4. pc'[f] \in {"waiting", "done"} => \A a \in Atomics : Covered(f, a, K)'
        BY <1>18, <3>1, <4>1, <4>2, <4>3
      <4>5. pc'[f] \in {"waiting", "done"} => \A a \in Atomics : Covered(f, a, 1..owed[f])'
        BY <4>1, <4>2, <4>4 DEF Covered
      <4> QED BY <1>17, <3>1, <4>1, <4>5
    <3> QED BY <3>2, <3>3
  <2> QED BY <1>1, <2>2, <2>3 DEF PromisesAreCovered
<1> QED BY <1>8, <1>9, <1>12, <1>13, <1>14, <1>19 DEF ReportsInv

-----------------------------------------------------------------------------
LEMMA ReporterStarts ==
  ASSUME Init
  PROVE  ReportsInv
<1> USE DEF Init, Sink!Init
<1>1. Nothing \in Reports /\ \A a \in Atomics : Nothing[a] = 0
  BY DEF Nothing, Reports
<1>2. Shapes
  <2>1. Nothing \in [Atomics -> Nat] /\ Nothing \in [Atomics -> 0..MaxRecords]
    BY ReporterAssumption DEF Nothing
  <2>2. \A g \in Gauges : g \in Atomics
    BY DEF Atomics
  <2> QED BY <1>1, <2>1, <2>2 DEF Shapes
<1>3. \A r \in Readers : ~IsReading(r) /\ (r # "task" => pc[r] = "idle")
  BY DEF IsReading
<1>4. ReadoutsAreNoted
  <2>1. \A g \in Gauges : g \in Atomics
    BY DEF Atomics
  <2> QED BY <1>1, <1>3, <2>1, ReporterAssumption DEF ReadoutsAreNoted
<1>5. SetupIsKept /\ SinkSettles /\ PromisesAreCovered
  <2>1. "task" \in Readers /\ \A f \in Flushes : f \in Readers /\ f # "task"
    BY ReporterAssumption DEF Readers
  <2>2. SetupIsKept
    BY <1>3, <2>1 DEF SetupIsKept
  <2>3. SinkSettles
    BY <1>3, <2>1 DEF SinkSettles
  <2>4. PromisesAreCovered
    BY <1>3, <2>1 DEF PromisesAreCovered
  <2> QED BY <2>2, <2>3, <2>4
<1>6. EachInOnePlace
  <2> SUFFICES ASSUME NEW a \in Atomics \ Gauges
               PROVE  recorded[a] = cell[a] + Held(got, a) + ReportOf(entries, a, DOMAIN entries)
    BY DEF EachInOnePlace, Held
  <2>1. ReportOf(entries, a, DOMAIN entries) = 0
    BY ReportOfNone
  <2>2. got \in Holdings /\ "task" \in Readers /\ \A o \in Readers : got[o][a] = 0
    BY <1>1 DEF Holdings, Readers
  <2>3. Held(got, a) = got["task"][a]
    <3> HIDE DEF Init
    <3> QED BY <2>2, HeldByOne
  <2> QED BY <1>1, <2>1, <2>2, <2>3
<1> QED BY <1>2, <1>4, <1>5, <1>6 DEF ReportsInv

LEMMA ReporterSteps ==
  ASSUME ReportsInv, [Next]_vars
  PROVE  ReportsInv'
<1>1. CASE UNCHANGED vars
  <2>1. UNCHANGED <<own, sink>>
    BY <1>1 DEF vars
  <2>2. Shapes' /\ ReadoutsAreNoted' /\ PromisesAreCovered' /\ EachInOnePlace'
    BY <2>1, OwnStays DEF ReportsInv, sink
  <2>3. SetupIsKept'
    BY <2>1 DEF ReportsInv, SetupIsKept, IsReading, own, sink
  <2>4. SinkSettles'
    BY <2>1 DEF ReportsInv, SinkSettles, Sink!Settled, own, sink
  <2> QED BY <2>2, <2>3, <2>4 DEF ReportsInv
<1>2. "task" \in Readers /\ \A f \in Flushes : f \in Readers
  BY DEF Readers
<1>3. CASE TaskNext
  <2>1. CASE New \/ TaskEnds
    BY <2>1, MovesOn
  <2>2. CASE Tick \/ LeaveLoop
    BY <2>2, StartKeeps
  <2>3. CASE Publish("task")
    BY <1>2, <2>3, PublishKeeps
  <2>4. CASE RunHandle
    BY <2>4, SinkKeeps
  <2>5. CASE \E a \in Atomics : Visit("task", a)
    BY <1>2, <2>5, VisitKeeps
  <2> QED BY <1>3, <2>1, <2>2, <2>3, <2>4, <2>5 DEF TaskNext
<1>4. CASE MetricsSink \/ SinkWorks \/ SinkFails
  BY <1>4, SinkKeeps
<1>5. CASE Shutdown \/ ShutdownReturns
  BY <1>5, ShutdownKeeps
<1>6. CASE \E a \in Atomics : Record(a)
  BY <1>6, RecordKeeps
<1>7. ASSUME NEW f \in Flushes, Flush(f) \/ FlushMetrics(f) \/ FlushMetricsFails(f) \/ FlushNext(f)
      PROVE  ReportsInv'
  <2>1. CASE Flush(f) \/ FlushMetricsFails(f) \/ FlushReturns(f)
    BY <2>1, MovesOn
  <2>2. CASE FlushMetrics(f)
    BY <2>2, StartKeeps
  <2>3. CASE Publish(f)
    BY <1>2, <2>3, PublishKeeps
  <2>4. CASE FlushAsync(f)
    BY <2>4, FlushAsyncKeeps
  <2>5. CASE \E a \in Atomics : Visit(f, a)
    BY <1>2, <2>5, VisitKeeps
  <2> QED BY <1>7, <2>1, <2>2, <2>3, <2>4, <2>5 DEF FlushNext
<1> QED BY <1>1, <1>3, <1>4, <1>5, <1>6, <1>7 DEF Next

(* The reports of the bridge are exact, for any atomics, calls and sink that   *)
(* keeps the EntrySink contract: however readouts and recording threads        *)
(* interleave, every amount of a counter or histogram is in one place, a       *)
(* shutdown() that returned has reported what was recorded before it, and so   *)
(* has a flush_metrics() that read out alone.                                 *)
THEOREM ReporterIsExact == Spec => []ReportsAreExact
<1>1. ReportsInv => ReportsAreExact
  <2> SUFFICES ASSUME ReportsInv PROVE ReportsAreExact
    OBVIOUS
  <2>1. EachInOnePlace
    BY DEF ReportsInv
  <2>2. /\ entries \in Seq(Reports) /\ Bounded(entries) /\ appended \in Nat
        /\ DOMAIN entries = 1..appended
    BY DEF ReportsInv, Shapes, SinkSettles, Reports, Bounded
  <2>3. durable \cup dropped \in SUBSET DOMAIN entries
    BY <2>2 DEF ReportsInv, SinkSettles
  <2>4. "task" \in Readers /\ \A f \in Flushes : f \in Readers
    BY DEF Readers
  <2>5. ASSUME NEW r \in Readers, NEW a \in Atomics, NEW K \in SUBSET DOMAIN entries,
               Covered(r, a, K), ~IsReading(r)
        PROVE  promised[r][a] <= ReportOf(entries, a, K)
    <3>1. got[r][a] = 0 /\ promised[r][a] \in Nat
      BY <2>5 DEF ReportsInv, ReadoutsAreNoted, Nothing, Shapes
    <3>2. ReportOf(entries, a, K) \in Nat
      BY <2>2, ReportIsNatural
    <3> QED BY <2>5, <3>1, <3>2 DEF Covered
  <2>6. ShutdownReports
    <3> SUFFICES ASSUME stopped = "returned", NEW a \in Atomics
                 PROVE  promised["task"][a] <=
                          ReportOf(entries, a, IF setup = "stream" /\ life # "cut"
                                               THEN durable \cup dropped ELSE DOMAIN entries)
      BY DEF ShutdownReports
    <3>1. pc["task"] = "done"
      BY DEF ReportsInv, SetupIsKept
    <3>2. Covered("task", a, DOMAIN entries)
      BY <3>1 DEF ReportsInv, PromisesAreCovered
    <3>3. promised["task"][a] <= ReportOf(entries, a, DOMAIN entries)
      BY <2>4, <2>5, <3>1, <3>2 DEF IsReading
    <3>4. ASSUME setup = "stream", life # "cut" PROVE durable \cup dropped = DOMAIN entries
      <4>1. asked /\ life = "stopped" /\ due = appended
        BY <3>1, <3>4 DEF ReportsInv, SetupIsKept
      <4>2. 1..appended \subseteq durable \cup dropped
        BY <4>1 DEF ReportsInv, SinkSettles, Sink!Settled
      <4> QED BY <2>2, <2>3, <4>2
    <3> QED BY <3>3, <3>4
  <2>7. FlushReports
    <3> SUFFICES ASSUME NEW f \in Flushes \ overlapped, pc[f] = "done", life # "cut", NEW a \in Atomics
                 PROVE  promised[f][a] <= ReportOf(entries, a, durable \cup dropped)
      BY DEF FlushReports
    <3>1. PICK K : K = 1..owed[f]
      OBVIOUS
    <3>2. Covered(f, a, K) /\ owed[f] \in 0..appended
      BY <3>1 DEF ReportsInv, PromisesAreCovered, SinkSettles
    <3>3. K \in SUBSET DOMAIN entries
      BY <2>2, <3>1, <3>2
    <3>4. promised[f][a] <= ReportOf(entries, a, K)
      BY <2>4, <2>5, <3>2, <3>3 DEF IsReading
    <3>5. promised[f][a] \in Nat /\ ReportOf(entries, a, K) \in Nat
      BY <2>2, <2>4, <3>3, ReportIsNatural DEF ReportsInv, Shapes
    <3>6. PICK D : D = durable \cup dropped /\ D \in SUBSET DOMAIN entries
      BY <2>3
    <3>7. ReportOf(entries, a, D) \in Nat
      BY <2>2, <3>6, ReportIsNatural
    <3>8. CASE setup = "lambda"
      <4>1. life = "open"
        BY <3>8 DEF ReportsInv, SetupIsKept
      <4>2. Sink!Settled(owed[f])
        BY <4>1 DEF ReportsInv, SinkSettles
      <4>3. K \in SUBSET D
        BY <3>1, <3>6, <4>2 DEF Sink!Settled
      <4>4. ReportOf(entries, a, K) <= ReportOf(entries, a, D)
        BY <2>2, <3>6, <4>3, ReportGrows
      <4> QED BY <3>4, <3>5, <3>6, <3>7, <4>4
    <3>9. CASE setup # "lambda"
      <4>1. promised[f][a] = 0
        BY <3>9 DEF ReportsInv, SetupIsKept, Nothing
      <4> QED BY <3>6, <3>7, <4>1
    <3> QED BY <3>8, <3>9
  <2> QED BY <2>1, <2>6, <2>7 DEF ReportsAreExact
<1>2. Init => ReportsInv
  BY ReporterStarts
<1>3. ReportsInv /\ [Next]_vars => ReportsInv'
  BY ReporterSteps
<1> QED BY <1>1, <1>2, <1>3, PTL DEF Spec

-----------------------------------------------------------------------------
(* CongressSample: the groups that are kept.                               *)

USE CongressAssumption

(* A group's state, and how long it has been silent. *)
Tells(s, quiet) ==
  /\ DOMAIN s = DOMAIN NewGroup
  /\ s.current_observed \in Nat
  /\ s.no_observations \in 0..Ttl
  /\ quiet = IF s.current_observed > 0 THEN 0 ELSE s.no_observations + 1

LEMMA TtlIsNatural == Ttl \in Nat
BY DEF Ttl

LEMMA SilenceInParts ==
  SilenceIsKept <=>
    /\ silent \in [Groups -> Nat] /\ DOMAIN groups \subseteq Groups
    /\ \A g \in DOMAIN groups : Tells(groups[g], silent[g])
    /\ \A g \in Groups \ DOMAIN groups : silent[g] > Ttl + 1
BY DEF SilenceIsKept, Tells

(* GroupState::update_and_retain keeps the count of silent intervals. *)
LEMMA UpdatedTells ==
  ASSUME NEW s, NEW quiet, Tells(s, quiet), Retained(s)
  PROVE  Tells(Updated(s), quiet + 1)
<1>1. /\ DOMAIN s = DOMAIN NewGroup
      /\ DOMAIN s = {"current_observed", "no_observations", "samples", "average", "rate"}
  BY DEF Tells, NewGroup
<1>2. CASE s.current_observed > 0
  <2>1. DOMAIN AddSample(s) = DOMAIN s
    BY DEF AddSample
  <2>2. Updated(s) = [AddSample(s) EXCEPT !.current_observed = 0, !.no_observations = 0]
    BY <1>2 DEF Updated
  <2>3. DOMAIN Updated(s) = DOMAIN s /\ Updated(s).current_observed = 0 /\ Updated(s).no_observations = 0
    BY <1>1, <2>1, <2>2
  <2>4. quiet = 0
    BY <1>2 DEF Tells
  <2> QED BY <1>1, <2>3, <2>4, TtlIsNatural DEF Tells
<1>3. CASE ~(s.current_observed > 0)
  <2>1. /\ s.current_observed = 0 /\ quiet = s.no_observations + 1 /\ s.no_observations \in Nat
        /\ s.no_observations < Ttl
    BY <1>3, TtlIsNatural DEF Tells, Retained
  <2>2. /\ DOMAIN Updated(s) = DOMAIN s /\ Updated(s).current_observed = 0
        /\ Updated(s).no_observations = s.no_observations + 1
    BY <1>1, <1>3, <2>1 DEF Updated
  <2> QED BY <1>1, <2>1, <2>2, TtlIsNatural DEF Tells
<1> QED BY <1>2, <1>3

(* The groups after update_rates, and how long they have been silent then. *)
LEMMA UpdateRatesTells ==
  ASSUME SilenceIsKept
  PROVE  /\ DOMAIN UpdateRates = {g \in DOMAIN groups : Retained(groups[g])}
         /\ \A g \in DOMAIN UpdateRates : Tells(UpdateRates[g], silent[g] + 1)
         /\ \A g \in Groups \ DOMAIN UpdateRates : silent[g] + 1 > Ttl + 1
<1> DEFINE kept == {g \in DOMAIN groups : Retained(groups[g])}
<1>1. DOMAIN UpdateRates = kept
  BY DEF UpdateRates
<1>2. ASSUME NEW g \in kept PROVE Tells(UpdateRates[g], silent[g] + 1)
  <2>1. Tells(Updated(groups[g]), silent[g] + 1)
    BY <1>2, UpdatedTells, SilenceInParts
  <2>2. PICK r : UpdateRates[g] = [Updated(groups[g]) EXCEPT !.rate = r]
    BY <1>2 DEF UpdateRates
  <2> QED BY <2>1, <2>2 DEF Tells
<1>3. ASSUME NEW g \in Groups \ kept PROVE silent[g] + 1 > Ttl + 1
  <2>1. CASE g \in DOMAIN groups
    <3>1. Tells(groups[g], silent[g]) /\ ~Retained(groups[g])
      BY <1>3, <2>1, SilenceInParts
    <3> QED BY <3>1, TtlIsNatural DEF Tells, Retained
  <2>2. CASE g \notin DOMAIN groups
    BY <1>3, <2>2, TtlIsNatural DEF SilenceIsKept
  <2> QED BY <2>1, <2>2
<1> QED BY <1>1, <1>2, <1>3

LEMMA FormatKeeps ==
  ASSUME SilenceIsKept, NEW g \in Groups, Format(g)
  PROVE  SilenceIsKept'
<1> DEFINE refreshed == IF elapsed THEN UpdateRates ELSE groups
           quiet == [h \in Groups |-> IF elapsed THEN silent[h] + 1 ELSE silent[h]]
           state == IF g \in DOMAIN refreshed THEN refreshed[g] ELSE NewGroup
<1>1. /\ groups' = [h \in DOMAIN refreshed \cup {g} |->
                      IF h = g THEN [state EXCEPT !.current_observed = @ + 1] ELSE refreshed[h]]
      /\ silent' = [h \in Groups |-> IF h = g THEN 0 ELSE quiet[h]]
  BY DEF Format
<1>2. /\ DOMAIN refreshed \subseteq Groups /\ quiet \in [Groups -> Nat]
      /\ \A h \in DOMAIN refreshed : Tells(refreshed[h], quiet[h])
      /\ \A h \in Groups \ DOMAIN refreshed : quiet[h] > Ttl + 1
  <2>1. CASE elapsed
    BY <2>1, UpdateRatesTells, SilenceInParts
  <2>2. CASE ~elapsed
    BY <2>2, SilenceInParts
  <2> QED BY <2>1, <2>2
<1>3. /\ DOMAIN state = DOMAIN NewGroup /\ state.current_observed \in Nat
      /\ state.no_observations \in 0..Ttl
  <2>1. CASE g \in DOMAIN refreshed
    BY <1>2, <2>1 DEF Tells
  <2>2. CASE g \notin DOMAIN refreshed
    BY <2>2, TtlIsNatural DEF NewGroup
  <2> QED BY <2>1, <2>2
<1> HIDE DEF refreshed, quiet, state
<1>4. Tells(groups'[g], silent'[g])
  <2>1. groups'[g] = [state EXCEPT !.current_observed = @ + 1] /\ silent'[g] = 0
    BY <1>1
  <2>2. "current_observed" \in DOMAIN state /\ "no_observations" \in DOMAIN state
    BY <1>3 DEF NewGroup
  <2>3. /\ DOMAIN groups'[g] = DOMAIN NewGroup
        /\ groups'[g].current_observed = state.current_observed + 1
        /\ groups'[g].no_observations = state.no_observations
    BY <1>3, <2>1, <2>2
  <2> QED BY <1>3, <2>1, <2>3 DEF Tells
<1>5. \A h \in DOMAIN groups' : Tells(groups'[h], silent'[h])
  BY <1>1, <1>2, <1>4
<1>6. silent' \in [Groups -> Nat] /\ DOMAIN groups' \subseteq Groups
  BY <1>1, <1>2
<1>7. \A h \in Groups \ DOMAIN groups' : silent'[h] > Ttl + 1
  BY <1>1, <1>2
<1> QED BY <1>5, <1>6, <1>7 DEF SilenceIsKept, Tells

-----------------------------------------------------------------------------
(* The sampler keeps exactly the groups that were seen in the last Ttl + 1     *)
(* intervals, for any window, target and number of groups: update_and_retain   *)
(* forgets no group early and none is kept for ever.                          *)
THEOREM SilentGroupsGo == CongressSpec => []SilentGroupsAreForgotten
<1>1. CongressInit => SilenceIsKept
  BY TtlIsNatural DEF CongressInit, SilenceIsKept
<1>2. SilenceIsKept /\ [CongressNext]_congress_vars => SilenceIsKept'
  <2> SUFFICES ASSUME SilenceIsKept, [CongressNext]_congress_vars PROVE SilenceIsKept'
    OBVIOUS
  <2>1. CASE IntervalEnds \/ UNCHANGED congress_vars
    BY <2>1 DEF SilenceIsKept, IntervalEnds, congress_vars
  <2>2. CASE \E g \in Groups : Format(g)
    BY <2>2, FormatKeeps
  <2> QED BY <2>1, <2>2 DEF CongressNext
<1>3. SilenceIsKept => SilentGroupsAreForgotten
  <2> SUFFICES ASSUME SilenceIsKept, NEW g \in Groups
               PROVE  g \in DOMAIN groups <=> silent[g] <= Ttl + 1
    BY DEF SilenceIsKept, SilentGroupsAreForgotten
  <2>1. ASSUME g \in DOMAIN groups PROVE silent[g] <= Ttl + 1
    BY <2>1, TtlIsNatural DEF SilenceIsKept
  <2>2. ASSUME g \notin DOMAIN groups PROVE ~(silent[g] <= Ttl + 1)
    BY <2>2, TtlIsNatural DEF SilenceIsKept
  <2> QED BY <2>1, <2>2
<1> QED BY <1>1, <1>2, <1>3, PTL DEF CongressSpec

-----------------------------------------------------------------------------
(* Numbers and fractions, for the rates of CongressSample. First Gcd: Euclid's  *)
(* recursion has a solution, the only one; its value divides both arguments and  *)
(* scales with them. From this follow the laws of fractions in lowest terms.     *)
(* Induction over numbers is over the smallest one that is not in a set.         *)

LEMMA NatInSet ==
  ASSUME NEW T, 0 \in T, \A n \in Nat : n \in T => n + 1 \in T
  PROVE  Nat \subseteq T
<1> SUFFICES ASSUME Nat \ T # {} PROVE FALSE
  OBVIOUS
<1> DEFINE R == OpToRel(<, Nat)
<1>1. IsWellFoundedOn(R, Nat)
  BY NatLessThanWellFounded
<1>2. \A i, j \in Nat : i < j => <<i, j>> \in R
  BY DEF OpToRel
<1> HIDE DEF R
<1>3. PICK x \in Nat \ T : \A y \in Nat \ T : ~(<<y, x>> \in R)
  BY <1>1, WFMin
<1>4. x # 0 /\ x - 1 \in Nat /\ x - 1 + 1 = x
  BY <1>3
<1>5. <<x - 1, x>> \in R
  BY <1>2, <1>4
<1> QED BY <1>3, <1>4, <1>5

(* Division with remainder, and that it is the only one. *)
LEMMA DivMod ==
  ASSUME NEW a \in Nat, NEW b \in Nat \ {0}
  PROVE  a \div b \in Nat /\ a % b \in 0..(b - 1) /\ a = b * (a \div b) + (a % b)
<1>1. a % b \in 0..(b - 1)
  OBVIOUS
<1>2. a \div b \in Nat
  OBVIOUS
<1>3. a = b * (a \div b) + (a % b)
  OBVIOUS
<1> QED BY <1>1, <1>2, <1>3

LEMMA DivModIsUnique ==
  ASSUME NEW a \in Nat, NEW b \in Nat \ {0}, NEW q \in Nat, NEW r \in 0..(b - 1), a = b * q + r
  PROVE  a \div b = q /\ a % b = r
<1>1. PICK p \in Nat, s \in 0..(b - 1) : p = a \div b /\ s = a % b /\ a = b * p + s
  BY DivMod
<1>2. ~(p < q)
  <2> SUFFICES ASSUME p < q PROVE FALSE
    OBVIOUS
  <2>1. PICK k \in Nat : q = p + 1 + k
    <3>1. q - p - 1 \in Nat /\ q = p + 1 + (q - p - 1)
      OBVIOUS
    <3> QED BY <3>1
  <2>2. b * q = b * p + b + b * k /\ b * k \in Nat
    BY <2>1
  <2> QED BY <1>1, <2>2
<1>3. ~(q < p)
  <2> SUFFICES ASSUME q < p PROVE FALSE
    OBVIOUS
  <2>1. PICK k \in Nat : p = q + 1 + k
    <3>1. p - q - 1 \in Nat /\ p = q + 1 + (p - q - 1)
      OBVIOUS
    <3> QED BY <3>1
  <2>2. b * p = b * q + b + b * k /\ b * k \in Nat
    BY <2>1
  <2> QED BY <1>1, <2>2
<1>4. p = q
  BY <1>2, <1>3
<1> QED BY <1>1, <1>4

(* Gcd's defining equation, on numbers up to n. *)
IsGcd(g, n) ==
  g = [p \in Nat \X (0..n) |-> IF p[2] = 0 THEN p[1] ELSE g[<<p[2], p[1] % p[2]>>]]

LEMMA RemaindersGoDown ==
  ASSUME NEW n \in Nat, NEW p \in Nat \X (0..n), p[2] # 0
  PROVE  <<p[2], p[1] % p[2]>> \in Nat \X (0..(p[2] - 1)) /\ p[2] \in 1..n
<1>1. p[1] \in Nat /\ p[2] \in Nat \ {0} /\ p[2] \in 1..n
  OBVIOUS
<1>2. p[1] % p[2] \in 0..(p[2] - 1)
  BY <1>1, DivMod
<1> QED BY <1>1, <1>2

LEMMA GcdsAgree ==
  ASSUME NEW n \in Nat, NEW m \in Nat, n <= m, NEW g, NEW h, IsGcd(g, n), IsGcd(h, m)
  PROVE  \A p \in Nat \X (0..n) : g[p] = h[p]
<1> DEFINE T == {k \in Nat : k <= n => \A p \in Nat \X (0..k) : g[p] = h[p]}
<1>1. 0 \in T
  <2> SUFFICES ASSUME NEW p \in Nat \X (0..0) PROVE g[p] = h[p]
    OBVIOUS
  <2>1. p \in Nat \X (0..n) /\ p \in Nat \X (0..m) /\ p[2] = 0
    OBVIOUS
  <2> QED BY <2>1 DEF IsGcd
<1>2. ASSUME NEW k \in Nat, k \in T PROVE k + 1 \in T
  <2> SUFFICES ASSUME k + 1 <= n, NEW p \in Nat \X (0..(k + 1)) PROVE g[p] = h[p]
    OBVIOUS
  <2>1. p \in Nat \X (0..n) /\ p \in Nat \X (0..m)
    OBVIOUS
  <2>2. CASE p[2] = 0
    BY <2>1, <2>2 DEF IsGcd
  <2>3. CASE p[2] # 0
    <3>1. <<p[2], p[1] % p[2]>> \in Nat \X (0..(p[2] - 1)) /\ p[2] \in 1..(k + 1)
      BY <2>3, RemaindersGoDown
    <3>2. PICK q : q = <<p[2], p[1] % p[2]>>
      OBVIOUS
    <3>3. q \in Nat \X (0..k)
      BY <3>1, <3>2
    <3>4. g[q] = h[q]
      BY <1>2, <3>3
    <3> QED BY <2>1, <2>3, <3>2, <3>4 DEF IsGcd
  <2> QED BY <2>2, <2>3
<1> HIDE DEF T
<1>3. n \in T
  BY <1>1, <1>2, NatInSet
<1> QED BY <1>3 DEF T

LEMMA GcdsExist ==
  ASSUME NEW n \in Nat
  PROVE  \E g : IsGcd(g, n)
<1> DEFINE T == {k \in Nat : \E g : IsGcd(g, k)}
<1>1. 0 \in T
  <2> DEFINE g == [p \in Nat \X (0..0) |-> p[1]]
  <2>1. g = [p \in Nat \X (0..0) |-> IF p[2] = 0 THEN p[1] ELSE g[<<p[2], p[1] % p[2]>>]]
    <3>1. \A p \in Nat \X (0..0) : p[2] = 0
      OBVIOUS
    <3> QED BY <3>1
  <2>2. IsGcd(g, 0)
    BY <2>1 DEF IsGcd
  <2> QED BY <2>2
<1>2. ASSUME NEW k \in Nat, k \in T PROVE k + 1 \in T
  <2>1. PICK f : IsGcd(f, k)
    BY <1>2
  <2> DEFINE g == [p \in Nat \X (0..(k + 1)) |-> IF p[2] = 0 THEN p[1] ELSE f[<<p[2], p[1] % p[2]>>]]
  <2>2. ASSUME NEW p \in Nat \X (0..(k + 1)), p[2] # 0
        PROVE  f[<<p[2], p[1] % p[2]>>] = g[<<p[2], p[1] % p[2]>>]
    <3>1. <<p[2], p[1] % p[2]>> \in Nat \X (0..(p[2] - 1)) /\ p[2] \in 1..(k + 1)
      BY <2>2, RemaindersGoDown
    <3>2. PICK q : q = <<p[2], p[1] % p[2]>>
      OBVIOUS
    <3>3. q \in Nat \X (0..k) /\ q \in Nat \X (0..(k + 1))
      BY <3>1, <3>2
    <3>4. f[q] = IF q[2] = 0 THEN q[1] ELSE f[<<q[2], q[1] % q[2]>>]
      BY <2>1, <3>3 DEF IsGcd
    <3>5. g[q] = f[q]
      BY <3>3, <3>4
    <3> QED BY <3>2, <3>5
  <2>3. g = [p \in Nat \X (0..(k + 1)) |-> IF p[2] = 0 THEN p[1] ELSE g[<<p[2], p[1] % p[2]>>]]
    BY <2>2
  <2>4. IsGcd(g, k + 1)
    BY <2>3 DEF IsGcd
  <2> QED BY <2>4
<1> HIDE DEF T
<1>3. n \in T
  BY <1>1, <1>2, NatInSet
<1> QED BY <1>3 DEF T

LEMMA GcdUnfolds ==
  ASSUME NEW a \in Nat, NEW b \in Nat
  PROVE  Gcd[<<a, b>>] = IF b = 0 THEN a ELSE Gcd[<<b, a % b>>]
<1> DEFINE Up(n) == CHOOSE g : IsGcd(g, n)
           G == [p \in Nat \X Nat |-> Up(p[2])[p]]
<1>1. \A n \in Nat : IsGcd(Up(n), n)
  BY GcdsExist
<1>2. ASSUME NEW p \in Nat \X Nat
      PROVE  G[p] = IF p[2] = 0 THEN p[1] ELSE G[<<p[2], p[1] % p[2]>>]
  <2>1. PICK n, g : n = p[2] /\ g = Up(n)
    OBVIOUS
  <2>a. n \in Nat /\ IsGcd(g, n) /\ G[p] = g[p]
    BY <1>1, <2>1
  <2>2. p \in Nat \X (0..n)
    BY <2>1, <2>a
  <2>3. g[p] = IF p[2] = 0 THEN p[1] ELSE g[<<p[2], p[1] % p[2]>>]
    BY <2>a, <2>2 DEF IsGcd
  <2>4. CASE p[2] # 0
    <3>1. PICK q : q = <<p[2], p[1] % p[2]>>
      OBVIOUS
    <3>2. q \in Nat \X (0..(n - 1))
      BY <2>1, <2>a, <2>2, <2>4, <3>1, RemaindersGoDown
    <3>3. q \in Nat \X Nat /\ q[2] \in Nat /\ q[2] <= n /\ q \in Nat \X (0..q[2])
      BY <2>a, <3>2
    <3>4. PICK m, h : m = q[2] /\ h = Up(m)
      OBVIOUS
    <3>a. m \in Nat /\ IsGcd(h, m) /\ G[q] = h[q]
      BY <1>1, <3>3, <3>4
    <3>5. m <= n /\ q \in Nat \X (0..m)
      BY <2>a, <3>3, <3>4
    <3>6. h[q] = g[q]
      BY <2>a, <3>a, <3>5, GcdsAgree
    <3> QED BY <2>a, <2>3, <2>4, <3>1, <3>a, <3>6
  <2> QED BY <2>a, <2>3, <2>4
<1> HIDE DEF Up
<1>3. G = [p \in Nat \X Nat |-> IF p[2] = 0 THEN p[1] ELSE G[<<p[2], p[1] % p[2]>>]]
  BY <1>2
<1> HIDE DEF G
<1>4. Gcd = [p \in Nat \X Nat |-> IF p[2] = 0 THEN p[1] ELSE Gcd[<<p[2], p[1] % p[2]>>]]
  BY <1>3 DEF Gcd
<1> QED BY <1>4

(* A number is a multiple of another. *)
Divides(g, a) == \E m \in Nat : a = g * m

LEMMA GcdDivides ==
  ASSUME NEW a \in Nat, NEW b \in Nat
  PROVE  /\ Gcd[<<a, b>>] \in Nat /\ (a > 0 \/ b > 0 => Gcd[<<a, b>>] > 0)
         /\ Divides(Gcd[<<a, b>>], a) /\ Divides(Gcd[<<a, b>>], b)
<1> DEFINE Good(x, y, g) == /\ g \in Nat /\ (x > 0 \/ y > 0 => g > 0)
                            /\ Divides(g, x) /\ Divides(g, y)
           T == {n \in Nat : \A x \in Nat, y \in 0..n : Good(x, y, Gcd[<<x, y>>])}
<1>1. ASSUME NEW x \in Nat PROVE Good(x, 0, Gcd[<<x, 0>>])
  <2>1. Gcd[<<x, 0>>] = x
    BY GcdUnfolds
  <2>2. x = x * 1 /\ 0 = x * 0
    OBVIOUS
  <2>3. Divides(x, x) /\ Divides(x, 0)
    BY <2>2 DEF Divides
  <2> QED BY <2>1, <2>3
<1>2. 0 \in T
  BY <1>1
<1>3. ASSUME NEW n \in Nat, n \in T PROVE n + 1 \in T
  <2> SUFFICES ASSUME NEW x \in Nat, NEW y \in 0..(n + 1) PROVE Good(x, y, Gcd[<<x, y>>])
    OBVIOUS
  <2>1. CASE y = 0
    BY <1>1, <2>1
  <2>2. CASE y # 0
    <3>1. PICK g, r, q : g = Gcd[<<x, y>>] /\ r = x % y /\ q = x \div y
      OBVIOUS
    <3>a. y \in Nat \ {0}
      BY <2>2
    <3>b. x \div y \in Nat /\ x % y \in 0..(y - 1) /\ x = y * (x \div y) + (x % y)
      BY <3>a, DivMod
    <3>2. r \in 0..n /\ q \in Nat /\ x = y * q + r /\ y \in Nat /\ r \in Nat
      BY <3>a, <3>b, <3>1
    <3>3. g = Gcd[<<y, r>>]
      BY <2>2, <3>1, <3>2, GcdUnfolds
    <3>4. Good(y, r, g)
      BY <1>3, <3>2, <3>3
    <3>5. PICK l \in Nat, m \in Nat : y = g * l /\ r = g * m
      BY <3>4 DEF Divides
    <3>6. x = g * (l * q + m) /\ l * q + m \in Nat
      <4>1. x = (g * l) * q + g * m /\ g \in Nat
        BY <3>2, <3>4, <3>5
      <4>2. g \in Nat /\ l * q \in Nat
        BY <3>2, <3>4
      <4>3. (g * l) * q = g * (l * q)
        BY <3>2, <4>2
      <4>4. g * (l * q) + g * m = g * (l * q + m)
        BY <3>2, <4>2
      <4> QED BY <4>1, <4>2, <4>3, <4>4
    <3>7. Divides(g, x)
      BY <3>6 DEF Divides
    <3> QED BY <2>2, <3>1, <3>2, <3>4, <3>7
  <2> QED BY <2>1, <2>2
<1> HIDE DEF T
<1>4. b \in T
  BY <1>2, <1>3, NatInSet
<1> QED BY <1>4 DEF T

LEMMA GcdScales ==
  ASSUME NEW k \in Nat \ {0}, NEW a \in Nat, NEW b \in Nat
  PROVE  Gcd[<<k * a, k * b>>] = k * Gcd[<<a, b>>]
<1> DEFINE T == {n \in Nat : \A x \in Nat, y \in 0..n : Gcd[<<k * x, k * y>>] = k * Gcd[<<x, y>>]}
<1>1. ASSUME NEW x \in Nat PROVE Gcd[<<k * x, k * 0>>] = k * Gcd[<<x, 0>>]
  <2>1. Gcd[<<x, 0>>] = x
    BY GcdUnfolds
  <2>a. k * 0 = 0 /\ k * x \in Nat
    OBVIOUS
  <2>2. PICK y : y = k * x
    OBVIOUS
  <2>3. Gcd[<<y, 0>>] = y
    BY <2>a, <2>2, GcdUnfolds
  <2> QED BY <2>1, <2>a, <2>2, <2>3
<1>2. 0 \in T
  BY <1>1
<1>3. ASSUME NEW n \in Nat, n \in T PROVE n + 1 \in T
  <2> SUFFICES ASSUME NEW x \in Nat, NEW y \in 0..(n + 1)
               PROVE  Gcd[<<k * x, k * y>>] = k * Gcd[<<x, y>>]
    OBVIOUS
  <2>1. CASE y = 0
    BY <1>1, <2>1
  <2>2. CASE y # 0
    <3>1. PICK r, q, u, v, s : r = x % y /\ q = x \div y /\ u = k * x /\ v = k * y /\ s = k * r
      OBVIOUS
    <3>a. y \in Nat \ {0}
      BY <2>2
    <3>b. x \div y \in Nat /\ x % y \in 0..(y - 1) /\ x = y * (x \div y) + (x % y)
      BY <3>a, DivMod
    <3>2. r \in 0..(y - 1) /\ r \in 0..n /\ q \in Nat /\ x = y * q + r
      BY <3>a, <3>b, <3>1
    <3>3. u \in Nat /\ v \in Nat \ {0} /\ s \in Nat
      <4>1. k * x \in Nat /\ k * y \in Nat
        OBVIOUS
      <4>2. k * y # 0
        BY <2>2
      <4>3. k * r \in Nat
        BY <3>2
      <4> QED BY <3>1, <4>1, <4>2, <4>3
    <3>4. s \in 0..(v - 1)
      <4>1. PICK d \in Nat : y = r + 1 + d
        <5>1. y - r - 1 \in Nat /\ y = r + 1 + (y - r - 1)
          BY <3>2
        <5> QED BY <5>1
      <4>2. k * (r + 1 + d) = k * r + k + k * d
        BY <3>2
      <4>3. k * d \in Nat
        OBVIOUS
      <4>4. v = s + k + k * d
        BY <3>1, <4>1, <4>2
      <4> QED BY <3>3, <4>3, <4>4
    <3>5. u = v * q + s
      <4>1. k * (y * q + r) = k * (y * q) + k * r
        BY <3>2
      <4>2. k * (y * q) = (k * y) * q
        BY <3>2
      <4> QED BY <3>1, <3>2, <4>1, <4>2
    <3>6. u % v = s
      BY <3>2, <3>3, <3>4, <3>5, DivModIsUnique
    <3>7. Gcd[<<u, v>>] = Gcd[<<v, s>>] /\ Gcd[<<x, y>>] = Gcd[<<y, r>>]
      BY <2>2, <3>1, <3>3, <3>6, GcdUnfolds
    <3>8. Gcd[<<k * y, k * r>>] = k * Gcd[<<y, r>>]
      BY <1>3, <3>2
    <3> QED BY <3>1, <3>7, <3>8
  <2> QED BY <2>1, <2>2
<1> HIDE DEF T
<1>4. b \in T
  BY <1>2, <1>3, NatInSet
<1> QED BY <1>4 DEF T

-----------------------------------------------------------------------------
LEMMA ProductIsPositive ==
  ASSUME NEW x \in Nat \ {0}, NEW y \in Nat \ {0}
  PROVE  x * y \in Nat \ {0}
<1>1. x * y \in Nat
  OBVIOUS
<1>2. x * y # 0
  OBVIOUS
<1> QED BY <1>1, <1>2

LEMMA FactorsCancel ==
  ASSUME NEW k \in Nat \ {0}, NEW u \in Nat, NEW v \in Nat
  PROVE  /\ k * u <= k * v <=> u <= v
         /\ k * u < k * v <=> u < v
         /\ k * u = k * v <=> u = v
<1>1. ASSUME NEW x \in Nat, NEW y \in Nat, x < y PROVE k * x < k * y
  <2>1. PICK d \in Nat : y = x + 1 + d
    <3>1. y - x - 1 \in Nat /\ y = x + 1 + (y - x - 1)
      BY <1>1
    <3> QED BY <3>1
  <2>2. k * (x + 1 + d) = k * x + k + k * d
    OBVIOUS
  <2>3. k * d \in Nat /\ k * x \in Nat
    OBVIOUS
  <2> QED BY <2>1, <2>2, <2>3
<1>2. PICK p, q : p = k * u /\ q = k * v
  OBVIOUS
<1>3. p \in Nat /\ q \in Nat
  BY <1>2
<1>4. (u < v => p < q) /\ (v < u => q < p) /\ (u = v => p = q)
  BY <1>1, <1>2
<1> QED BY <1>2, <1>3, <1>4

(* A fraction in lowest terms, and the factor that was taken out. *)
LEMMA FracReduces ==
  ASSUME NEW n \in Nat, NEW d \in Nat \ {0}
  PROVE  \E g \in Nat \ {0}, x \in Nat, y \in Nat \ {0} :
           n = g * x /\ d = g * y /\ g = Gcd[<<n, d>>] /\ Frac(n, d) = <<x, y>>
<1>1. PICK g : g = Gcd[<<n, d>>]
  OBVIOUS
<1>2. g \in Nat \ {0} /\ Divides(g, n) /\ Divides(g, d)
  BY <1>1, GcdDivides
<1>3. PICK x \in Nat, y \in Nat : n = g * x /\ d = g * y
  BY <1>2 DEF Divides
<1>4. n = g * x + 0 /\ d = g * y + 0 /\ 0 \in 0..(g - 1)
  BY <1>2, <1>3
<1>5. n \div g = x
  BY <1>2, <1>4, DivModIsUnique
<1>6. d \div g = y
  BY <1>2, <1>4, DivModIsUnique
<1>7. y # 0
  BY <1>2, <1>3
<1>8. Frac(n, d) = <<x, y>>
  BY <1>1, <1>5, <1>6 DEF Frac
<1> QED BY <1>1, <1>2, <1>3, <1>7, <1>8

(* n and d are x and y times a common factor g. *)
Scaled(n, d, g, x, y) ==
  g \in Nat \ {0} /\ x \in Nat /\ y \in Nat \ {0} /\ n = g * x /\ d = g * y

LEMMA FracParts ==
  ASSUME NEW n \in Nat, NEW d \in Nat \ {0}
  PROVE  \E g, x, y : Scaled(n, d, g, x, y) /\ Frac(n, d) = <<x, y>>
<1>1. PICK g \in Nat \ {0}, x \in Nat, y \in Nat \ {0} :
        n = g * x /\ d = g * y /\ g = Gcd[<<n, d>>] /\ Frac(n, d) = <<x, y>>
  BY FracReduces
<1>2. Scaled(n, d, g, x, y)
  BY <1>1 DEF Scaled
<1> QED BY <1>1, <1>2

LEMMA FracScales ==
  ASSUME NEW n, NEW d, NEW k, NEW x, NEW y, Scaled(n, d, k, x, y)
  PROVE  Frac(n, d) = Frac(x, y)
<1>1. k \in Nat \ {0} /\ x \in Nat /\ y \in Nat \ {0} /\ n = k * x /\ d = k * y
  BY DEF Scaled
<1>2. PICK g \in Nat \ {0}, u \in Nat, v \in Nat \ {0} :
        x = g * u /\ y = g * v /\ g = Gcd[<<x, y>>] /\ Frac(x, y) = <<u, v>>
  BY <1>1, FracReduces
<1>3. k * g \in Nat \ {0}
  BY <1>1, ProductIsPositive
<1>4. PICK f \in Nat \ {0} : f = k * g
  BY <1>3
<1>5. Gcd[<<k * x, k * y>>] = k * Gcd[<<x, y>>]
  BY <1>1, GcdScales
<1>6. Gcd[<<n, d>>] = f
  BY <1>1, <1>2, <1>4, <1>5
<1>7. k * (g * u) = (k * g) * u /\ k * (g * v) = (k * g) * v
  BY <1>1
<1>8. n = f * u /\ d = f * v
  BY <1>1, <1>2, <1>4, <1>7
<1>9. n = f * u + 0 /\ d = f * v + 0 /\ 0 \in 0..(f - 1) /\ n \in Nat /\ d \in Nat
  BY <1>8
<1>10. n \div f = u
  BY <1>9, DivModIsUnique
<1>11. d \div f = v
  BY <1>9, DivModIsUnique
<1> QED BY <1>2, <1>6, <1>10, <1>11 DEF Frac

LEMMA FracIsFraction ==
  ASSUME NEW n \in Nat, NEW d \in Nat \ {0}
  PROVE  Frac(n, d) \in Fractions /\ (Frac(n, d)[1] > 0 <=> n > 0)
<1>1. PICK g, x, y : Scaled(n, d, g, x, y) /\ Frac(n, d) = <<x, y>>
  BY FracParts
<1>2. Frac(n, d) = Frac(x, y)
  BY <1>1, FracScales
<1>3. g \in Nat \ {0} /\ x \in Nat /\ y \in Nat \ {0} /\ n = g * x
  BY <1>1 DEF Scaled
<1>4. Frac(n, d) \in Fractions
  BY <1>1, <1>2, <1>3 DEF Fractions
<1>5. n > 0 <=> x > 0
  BY <1>3
<1> QED BY <1>1, <1>4, <1>5

LEMMA FractionIsFrac ==
  ASSUME NEW a \in Fractions
  PROVE  a[1] \in Nat /\ a[2] \in Nat \ {0} /\ a = Frac(a[1], a[2]) /\ a = <<a[1], a[2]>>
BY DEF Fractions

LEMMA PlusOfFracs ==
  ASSUME NEW n \in Nat, NEW d \in Nat \ {0}, NEW m \in Nat, NEW e \in Nat \ {0}
  PROVE  Plus(Frac(n, d), Frac(m, e)) = Frac(n * e + m * d, d * e)
<1>1. PICK g, x, y : Scaled(n, d, g, x, y) /\ Frac(n, d) = <<x, y>>
  BY FracParts
<1>2. PICK h, u, v : Scaled(m, e, h, u, v) /\ Frac(m, e) = <<u, v>>
  BY FracParts
<1>3. Plus(Frac(n, d), Frac(m, e)) = Frac(x * v + u * y, y * v)
  BY <1>1, <1>2 DEF Plus
<1>4. g \in Nat \ {0} /\ x \in Nat /\ y \in Nat \ {0} /\ n = g * x /\ d = g * y
  BY <1>1 DEF Scaled
<1>5. h \in Nat \ {0} /\ u \in Nat /\ v \in Nat \ {0} /\ m = h * u /\ e = h * v
  BY <1>2 DEF Scaled
<1>6. g * h \in Nat \ {0} /\ y * v \in Nat \ {0}
  BY <1>4, <1>5, ProductIsPositive
<1>7. x * v + u * y \in Nat
  BY <1>4, <1>5
<1>8. (g * x) * (h * v) + (h * u) * (g * y) = (g * h) * (x * v + u * y)
  BY <1>4, <1>5
<1>9. (g * y) * (h * v) = (g * h) * (y * v)
  BY <1>4, <1>5
<1>10. Scaled(n * e + m * d, d * e, g * h, x * v + u * y, y * v)
  BY <1>4, <1>5, <1>6, <1>7, <1>8, <1>9 DEF Scaled
<1> QED BY <1>3, <1>10, FracScales

LEMMA TimesOfFracs ==
  ASSUME NEW n \in Nat, NEW d \in Nat \ {0}, NEW m \in Nat, NEW e \in Nat \ {0}
  PROVE  Times(Frac(n, d), Frac(m, e)) = Frac(n * m, d * e)
<1>1. PICK g, x, y : Scaled(n, d, g, x, y) /\ Frac(n, d) = <<x, y>>
  BY FracParts
<1>2. PICK h, u, v : Scaled(m, e, h, u, v) /\ Frac(m, e) = <<u, v>>
  BY FracParts
<1>3. Times(Frac(n, d), Frac(m, e)) = Frac(x * u, y * v)
  BY <1>1, <1>2 DEF Times
<1>4. g \in Nat \ {0} /\ x \in Nat /\ y \in Nat \ {0} /\ n = g * x /\ d = g * y
  BY <1>1 DEF Scaled
<1>5. h \in Nat \ {0} /\ u \in Nat /\ v \in Nat \ {0} /\ m = h * u /\ e = h * v
  BY <1>2 DEF Scaled
<1>6. g * h \in Nat \ {0} /\ y * v \in Nat \ {0}
  BY <1>4, <1>5, ProductIsPositive
<1>7. x * u \in Nat
  BY <1>4, <1>5
<1>8. (g * x) * (h * u) = (g * h) * (x * u)
  BY <1>4, <1>5
<1>9. (g * y) * (h * v) = (g * h) * (y * v)
  BY <1>4, <1>5
<1>10. Scaled(n * m, d * e, g * h, x * u, y * v)
  BY <1>4, <1>5, <1>6, <1>7, <1>8, <1>9 DEF Scaled
<1> QED BY <1>3, <1>10, FracScales

LEMMA OverOfFracs ==
  ASSUME NEW n \in Nat, NEW d \in Nat \ {0}, NEW m \in Nat \ {0}, NEW e \in Nat \ {0}
  PROVE  Over(Frac(n, d), Frac(m, e)) = Frac(n * e, d * m)
<1>1. PICK g, x, y : Scaled(n, d, g, x, y) /\ Frac(n, d) = <<x, y>>
  BY FracParts
<1>2. PICK h, u, v : Scaled(m, e, h, u, v) /\ Frac(m, e) = <<u, v>>
  BY FracParts
<1>3. Over(Frac(n, d), Frac(m, e)) = Frac(x * v, y * u)
  BY <1>1, <1>2 DEF Over
<1>4. g \in Nat \ {0} /\ x \in Nat /\ y \in Nat \ {0} /\ n = g * x /\ d = g * y
  BY <1>1 DEF Scaled
<1>5. h \in Nat \ {0} /\ u \in Nat \ {0} /\ v \in Nat \ {0} /\ m = h * u /\ e = h * v
  BY <1>2 DEF Scaled
<1>6. g * h \in Nat \ {0} /\ y * u \in Nat \ {0}
  BY <1>4, <1>5, ProductIsPositive
<1>7. x * v \in Nat
  BY <1>4, <1>5
<1>8. (g * x) * (h * v) = (g * h) * (x * v)
  BY <1>4, <1>5
<1>9. (g * y) * (h * u) = (g * h) * (y * u)
  BY <1>4, <1>5
<1>10. Scaled(n * e, d * m, g * h, x * v, y * u)
  BY <1>4, <1>5, <1>6, <1>7, <1>8, <1>9 DEF Scaled
<1> QED BY <1>3, <1>10, FracScales

LEMMA OrderOfFracs ==
  ASSUME NEW n \in Nat, NEW d \in Nat \ {0}, NEW m \in Nat, NEW e \in Nat \ {0}
  PROVE  /\ Leq(Frac(n, d), Frac(m, e)) <=> n * e <= m * d
         /\ Less(Frac(n, d), Frac(m, e)) <=> n * e < m * d
<1>1. PICK g, x, y : Scaled(n, d, g, x, y) /\ Frac(n, d) = <<x, y>>
  BY FracParts
<1>2. PICK h, u, v : Scaled(m, e, h, u, v) /\ Frac(m, e) = <<u, v>>
  BY FracParts
<1>3. g \in Nat \ {0} /\ x \in Nat /\ y \in Nat \ {0} /\ n = g * x /\ d = g * y
  BY <1>1 DEF Scaled
<1>4. h \in Nat \ {0} /\ u \in Nat /\ v \in Nat \ {0} /\ m = h * u /\ e = h * v
  BY <1>2 DEF Scaled
<1>5. g * h \in Nat \ {0} /\ x * v \in Nat /\ u * y \in Nat
  BY <1>3, <1>4, ProductIsPositive
<1>6. PICK k \in Nat \ {0}, p \in Nat, q \in Nat : k = g * h /\ p = x * v /\ q = u * y
  BY <1>5
<1>7. /\ Leq(Frac(n, d), Frac(m, e)) <=> p <= q
      /\ Less(Frac(n, d), Frac(m, e)) <=> p < q
  BY <1>1, <1>2, <1>6 DEF Leq, Less
<1>8. (g * x) * (h * v) = (g * h) * (x * v)
  BY <1>3, <1>4
<1>9. (h * u) * (g * y) = (g * h) * (u * y)
  BY <1>3, <1>4
<1>10. n * e = k * p /\ m * d = k * q
  BY <1>3, <1>4, <1>6, <1>8, <1>9
<1>11. (k * p <= k * q <=> p <= q) /\ (k * p < k * q <=> p < q)
  BY FactorsCancel
<1> QED BY <1>7, <1>10, <1>11

LEMMA WholeIsFrac ==
  ASSUME NEW n \in Nat
  PROVE  Whole(n) = Frac(n, 1)
<1>1. PICK g, x, y : Scaled(n, 1, g, x, y) /\ Frac(n, 1) = <<x, y>>
  BY FracParts
<1>2. g \in Nat \ {0} /\ x \in Nat /\ y \in Nat \ {0} /\ n = g * x /\ 1 = g * y
  BY <1>1 DEF Scaled
<1>3. g = 1
  <2> SUFFICES ASSUME g >= 2 PROVE FALSE
    BY <1>2
  <2>1. g * y >= 2 * y
    BY <1>2
  <2> QED BY <1>2, <2>1
<1>4. x = n /\ y = 1
  BY <1>2, <1>3
<1> QED BY <1>1, <1>4 DEF Whole

(* The fraction a is n over d, perhaps not in lowest terms. *)
Is(a, n, d) == n \in Nat /\ d \in Nat \ {0} /\ a = Frac(n, d)

LEMMA FractionIs ==
  ASSUME NEW a \in Fractions
  PROVE  \E n, d : Is(a, n, d)
<1>1. Is(a, a[1], a[2])
  BY FractionIsFrac DEF Is
<1> QED BY <1>1

LEMMA IsAFraction ==
  ASSUME NEW a, NEW n, NEW d, Is(a, n, d)
  PROVE  a \in Fractions /\ (a[1] > 0 <=> n > 0)
BY FracIsFraction DEF Is

LEMMA PlusIs ==
  ASSUME NEW a, NEW n, NEW d, Is(a, n, d), NEW b, NEW m, NEW e, Is(b, m, e)
  PROVE  Is(Plus(a, b), n * e + m * d, d * e)
<1>1. n \in Nat /\ d \in Nat \ {0} /\ m \in Nat /\ e \in Nat \ {0} /\ a = Frac(n, d) /\ b = Frac(m, e)
  BY DEF Is
<1>2. n * e + m * d \in Nat
  BY <1>1
<1>3. d * e \in Nat \ {0}
  BY <1>1, ProductIsPositive
<1>4. Plus(a, b) = Frac(n * e + m * d, d * e)
  BY <1>1, PlusOfFracs
<1> QED BY <1>2, <1>3, <1>4 DEF Is

LEMMA TimesIs ==
  ASSUME NEW a, NEW n, NEW d, Is(a, n, d), NEW b, NEW m, NEW e, Is(b, m, e)
  PROVE  Is(Times(a, b), n * m, d * e)
<1>1. n \in Nat /\ d \in Nat \ {0} /\ m \in Nat /\ e \in Nat \ {0} /\ a = Frac(n, d) /\ b = Frac(m, e)
  BY DEF Is
<1>2. n * m \in Nat
  BY <1>1
<1>3. d * e \in Nat \ {0}
  BY <1>1, ProductIsPositive
<1>4. Times(a, b) = Frac(n * m, d * e)
  BY <1>1, TimesOfFracs
<1> QED BY <1>2, <1>3, <1>4 DEF Is

LEMMA OverIs ==
  ASSUME NEW a, NEW n, NEW d, Is(a, n, d), NEW b, NEW m, NEW e, Is(b, m, e), b[1] > 0
  PROVE  Is(Over(a, b), n * e, d * m) /\ m \in Nat \ {0}
<1>1. n \in Nat /\ d \in Nat \ {0} /\ m \in Nat /\ e \in Nat \ {0} /\ a = Frac(n, d) /\ b = Frac(m, e)
  BY DEF Is
<1>2. m \in Nat \ {0}
  BY <1>1, IsAFraction
<1>3. n * e \in Nat
  BY <1>1
<1>4. d * m \in Nat \ {0}
  BY <1>1, <1>2, ProductIsPositive
<1>5. Over(a, b) = Frac(n * e, d * m)
  BY <1>1, <1>2, OverOfFracs
<1> QED BY <1>2, <1>3, <1>4, <1>5 DEF Is

LEMMA WholeIs ==
  ASSUME NEW n \in Nat
  PROVE  Is(Whole(n), n, 1)
BY WholeIsFrac DEF Is

LEMMA OrderIs ==
  ASSUME NEW a, NEW n, NEW d, Is(a, n, d), NEW b, NEW m, NEW e, Is(b, m, e)
  PROVE  (Leq(a, b) <=> n * e <= m * d) /\ (Less(a, b) <=> n * e < m * d)
BY OrderOfFracs DEF Is

(* A fraction does not depend on how it is written. *)
LEMMA SameFraction ==
  ASSUME NEW a, NEW n, NEW d, Is(a, n, d), NEW b, NEW m, NEW e, Is(b, m, e), n * e = m * d
  PROVE  a = b
<1>1. n \in Nat /\ d \in Nat \ {0} /\ m \in Nat /\ e \in Nat \ {0} /\ a = Frac(n, d) /\ b = Frac(m, e)
  BY DEF Is
<1>2. e * n = n * e /\ d * m = m * d /\ d * e = e * d
  BY <1>1
<1>3. Scaled(n * e, d * e, e, n, d)
  BY <1>1, <1>2 DEF Scaled
<1>4. Scaled(n * e, d * e, d, m, e)
  BY <1>1, <1>2 DEF Scaled
<1>5. Frac(n * e, d * e) = a
  BY <1>1, <1>3, FracScales
<1>6. Frac(n * e, d * e) = b
  BY <1>1, <1>4, FracScales
<1> QED BY <1>5, <1>6

-----------------------------------------------------------------------------
(* Arithmetic of fractions. *)
LEMMA PlusIsFraction ==
  ASSUME NEW a \in Fractions, NEW b \in Fractions
  PROVE  Plus(a, b) \in Fractions /\ (a[1] > 0 \/ b[1] > 0 => Plus(a, b)[1] > 0)
<1>1. PICK n, d : Is(a, n, d)
  BY FractionIs
<1>2. PICK m, e : Is(b, m, e)
  BY FractionIs
<1>3. n \in Nat /\ d \in Nat \ {0} /\ m \in Nat /\ e \in Nat \ {0}
  BY <1>1, <1>2 DEF Is
<1>4. Is(Plus(a, b), n * e + m * d, d * e)
  BY <1>1, <1>2, PlusIs
<1>5. n * e \in Nat /\ m * d \in Nat /\ (n > 0 => n * e > 0) /\ (m > 0 => m * d > 0)
  BY <1>3
<1>6. n > 0 \/ m > 0 => n * e + m * d > 0
  BY <1>3, <1>5
<1> QED BY <1>1, <1>2, <1>4, <1>6, IsAFraction

LEMMA TimesIsFraction ==
  ASSUME NEW a \in Fractions, NEW b \in Fractions
  PROVE  Times(a, b) \in Fractions /\ (a[1] > 0 /\ b[1] > 0 => Times(a, b)[1] > 0)
<1>1. PICK n, d : Is(a, n, d)
  BY FractionIs
<1>2. PICK m, e : Is(b, m, e)
  BY FractionIs
<1>3. n \in Nat /\ d \in Nat \ {0} /\ m \in Nat /\ e \in Nat \ {0}
  BY <1>1, <1>2 DEF Is
<1>4. Is(Times(a, b), n * m, d * e)
  BY <1>1, <1>2, TimesIs
<1>5. n > 0 /\ m > 0 => n * m > 0
  BY <1>3
<1> QED BY <1>1, <1>2, <1>4, <1>5, IsAFraction

LEMMA OverIsFraction ==
  ASSUME NEW a \in Fractions, NEW b \in Fractions, b[1] > 0
  PROVE  Over(a, b) \in Fractions /\ (a[1] > 0 => Over(a, b)[1] > 0)
<1>1. PICK n, d : Is(a, n, d)
  BY FractionIs
<1>2. PICK m, e : Is(b, m, e)
  BY FractionIs
<1>3. n \in Nat /\ d \in Nat \ {0} /\ m \in Nat /\ e \in Nat \ {0}
  BY <1>1, <1>2 DEF Is
<1>4. Is(Over(a, b), n * e, d * m)
  BY <1>1, <1>2, OverIs
<1>5. n > 0 => n * e > 0
  BY <1>3
<1> QED BY <1>1, <1>2, <1>4, <1>5, IsAFraction

LEMMA WholeIsFraction ==
  ASSUME NEW n \in Nat
  PROVE  Whole(n) \in Fractions /\ (Whole(n)[1] > 0 <=> n > 0)
BY WholeIs, IsAFraction

LEMMA PlusCommutes ==
  ASSUME NEW a \in Fractions, NEW b \in Fractions
  PROVE  Plus(a, b) = Plus(b, a)
<1>1. a[1] \in Nat /\ a[2] \in Nat /\ b[1] \in Nat /\ b[2] \in Nat
  BY FractionIsFrac
<1>2. a[1] * b[2] + b[1] * a[2] = b[1] * a[2] + a[1] * b[2] /\ a[2] * b[2] = b[2] * a[2]
  BY <1>1
<1> QED BY <1>2 DEF Plus

LEMMA TimesCommutes ==
  ASSUME NEW a \in Fractions, NEW b \in Fractions
  PROVE  Times(a, b) = Times(b, a)
<1>1. a[1] \in Nat /\ a[2] \in Nat /\ b[1] \in Nat /\ b[2] \in Nat
  BY FractionIsFrac
<1>2. a[1] * b[1] = b[1] * a[1] /\ a[2] * b[2] = b[2] * a[2]
  BY <1>1
<1> QED BY <1>2 DEF Times

LEMMA PlusAssociates ==
  ASSUME NEW a \in Fractions, NEW b \in Fractions, NEW c \in Fractions
  PROVE  Plus(Plus(a, b), c) = Plus(a, Plus(b, c))
<1>1. PICK n, d : Is(a, n, d)
  BY FractionIs
<1>2. PICK m, e : Is(b, m, e)
  BY FractionIs
<1>3. PICK k, f : Is(c, k, f)
  BY FractionIs
<1>4. /\ n \in Nat /\ d \in Nat \ {0} /\ m \in Nat /\ e \in Nat \ {0}
      /\ k \in Nat /\ f \in Nat \ {0}
  BY <1>1, <1>2, <1>3 DEF Is
<1>5. Is(Plus(Plus(a, b), c), (n * e + m * d) * f + k * (d * e), (d * e) * f)
  <2>1. Is(Plus(a, b), n * e + m * d, d * e)
    BY <1>1, <1>2, PlusIs
  <2> QED BY <2>1, <1>3, PlusIs
<1>6. Is(Plus(a, Plus(b, c)), n * (e * f) + (m * f + k * e) * d, d * (e * f))
  <2>1. Is(Plus(b, c), m * f + k * e, e * f)
    BY <1>2, <1>3, PlusIs
  <2> QED BY <2>1, <1>1, PlusIs
<1>7. (d * e) * f = d * (e * f)
  BY <1>4
<1>8. (n * e + m * d) * f + k * (d * e) = n * (e * f) + (m * f + k * e) * d
  BY <1>4
<1> QED BY <1>5, <1>6, <1>7, <1>8 DEF Is

LEMMA TimesAssociates ==
  ASSUME NEW a \in Fractions, NEW b \in Fractions, NEW c \in Fractions
  PROVE  Times(Times(a, b), c) = Times(a, Times(b, c))
<1>1. PICK n, d : Is(a, n, d)
  BY FractionIs
<1>2. PICK m, e : Is(b, m, e)
  BY FractionIs
<1>3. PICK k, f : Is(c, k, f)
  BY FractionIs
<1>4. /\ n \in Nat /\ d \in Nat \ {0} /\ m \in Nat /\ e \in Nat \ {0}
      /\ k \in Nat /\ f \in Nat \ {0}
  BY <1>1, <1>2, <1>3 DEF Is
<1>5. Is(Times(Times(a, b), c), (n * m) * k, (d * e) * f)
  <2>1. Is(Times(a, b), n * m, d * e)
    BY <1>1, <1>2, TimesIs
  <2> QED BY <2>1, <1>3, TimesIs
<1>6. Is(Times(a, Times(b, c)), n * (m * k), d * (e * f))
  <2>1. Is(Times(b, c), m * k, e * f)
    BY <1>2, <1>3, TimesIs
  <2> QED BY <2>1, <1>1, TimesIs
<1>7. (d * e) * f = d * (e * f)
  BY <1>4
<1>8. (n * m) * k = n * (m * k)
  BY <1>4
<1> QED BY <1>5, <1>6, <1>7, <1>8 DEF Is

LEMMA TimesDistributes ==
  ASSUME NEW a \in Fractions, NEW b \in Fractions, NEW c \in Fractions
  PROVE  Times(Plus(a, b), c) = Plus(Times(a, c), Times(b, c))
<1>1. PICK n, d : Is(a, n, d)
  BY FractionIs
<1>2. PICK m, e : Is(b, m, e)
  BY FractionIs
<1>3. PICK k, f : Is(c, k, f)
  BY FractionIs
<1>4. /\ n \in Nat /\ d \in Nat \ {0} /\ m \in Nat /\ e \in Nat \ {0}
      /\ k \in Nat /\ f \in Nat \ {0}
  BY <1>1, <1>2, <1>3 DEF Is
<1>5. Is(Times(Plus(a, b), c), (n * e + m * d) * k, (d * e) * f)
  <2>1. Is(Plus(a, b), n * e + m * d, d * e)
    BY <1>1, <1>2, PlusIs
  <2> QED BY <2>1, <1>3, TimesIs
<1>6. Is(Plus(Times(a, c), Times(b, c)), (n * k) * (e * f) + (m * k) * (d * f), (d * f) * (e * f))
  <2>1. Is(Times(a, c), n * k, d * f)
    BY <1>1, <1>3, TimesIs
  <2>2. Is(Times(b, c), m * k, e * f)
    BY <1>2, <1>3, TimesIs
  <2> QED BY <2>1, <2>2, PlusIs
<1>7. /\ (n * k) * (e * f) + (m * k) * (d * f) = f * ((n * e + m * d) * k)
      /\ (d * f) * (e * f) = f * ((d * e) * f)
  <2>1. (n * k) * (e * f) + (m * k) * (d * f) = f * ((n * e + m * d) * k)
    BY <1>4
  <2>2. (d * f) * (e * f) = f * ((d * e) * f)
    BY <1>4
  <2> QED BY <2>1, <2>2
<1>8. Scaled((n * k) * (e * f) + (m * k) * (d * f), (d * f) * (e * f), f,
             (n * e + m * d) * k, (d * e) * f)
  BY <1>4, <1>5, <1>7 DEF Scaled, Is
<1> QED BY <1>5, <1>6, <1>8, FracScales DEF Is

LEMMA PlusZero ==
  ASSUME NEW a \in Fractions
  PROVE  Plus(Whole(0), a) = a /\ Plus(a, Whole(0)) = a
<1>1. a[1] \in Nat /\ a[2] \in Nat /\ a = Frac(a[1], a[2])
  BY FractionIsFrac
<1>2. 0 * a[2] + a[1] * 1 = a[1] /\ 1 * a[2] = a[2] /\ a[1] * 1 + 0 * a[2] = a[1] /\ a[2] * 1 = a[2]
  BY <1>1
<1> QED BY <1>1, <1>2 DEF Plus, Whole

LEMMA TimesZeroOne ==
  ASSUME NEW a \in Fractions
  PROVE  Times(Whole(1), a) = a /\ Times(Whole(0), a) = Whole(0)
<1>1. a[1] \in Nat /\ a[2] \in Nat \ {0} /\ a = Frac(a[1], a[2])
  BY FractionIsFrac
<1>2. 1 * a[1] = a[1] /\ 1 * a[2] = a[2] /\ 0 * a[1] = 0
  BY <1>1
<1>3. Times(Whole(1), a) = a /\ Times(Whole(0), a) = Frac(0, a[2])
  BY <1>1, <1>2 DEF Times, Whole
<1>4. Is(Frac(0, a[2]), 0, a[2]) /\ Is(Whole(0), 0, 1)
  BY <1>1, WholeIs DEF Is
<1>5. 0 * 1 = 0 * a[2]
  BY <1>1
<1> QED BY <1>3, <1>4, <1>5, SameFraction

(* What is divided and then multiplied is as before. *)
LEMMA TimesOver ==
  ASSUME NEW a \in Fractions, NEW b \in Fractions, a[1] > 0
  PROVE  Times(a, Over(b, a)) = b
<1>1. PICK n, d : Is(a, n, d)
  BY FractionIs
<1>2. PICK m, e : Is(b, m, e)
  BY FractionIs
<1>3. n \in Nat /\ d \in Nat \ {0} /\ m \in Nat /\ e \in Nat \ {0}
  BY <1>1, <1>2 DEF Is
<1>4. Is(Over(b, a), m * d, e * n)
  BY <1>1, <1>2, OverIs
<1>5. Is(Times(a, Over(b, a)), n * (m * d), d * (e * n))
  BY <1>1, <1>4, TimesIs
<1>6. (n * (m * d)) * e = m * (d * (e * n))
  BY <1>3
<1> QED BY <1>2, <1>5, <1>6, SameFraction

LEMMA LeqIsOrder ==
  ASSUME NEW a \in Fractions, NEW b \in Fractions
  PROVE  /\ Leq(a, a) /\ (Leq(a, b) \/ Leq(b, a)) /\ (Less(a, b) <=> ~Leq(b, a))
         /\ (a[1] = 0 => Leq(a, b)) /\ (Leq(a, b) /\ b[1] = 0 => a[1] = 0)
<1>1. a[1] \in Nat /\ a[2] \in Nat \ {0} /\ b[1] \in Nat /\ b[2] \in Nat \ {0}
  BY FractionIsFrac
<1>2. PICK x, y : x = a[1] * b[2] /\ y = b[1] * a[2]
  OBVIOUS
<1>3. x \in Nat /\ y \in Nat /\ a[1] * a[2] \in Nat
  BY <1>1, <1>2
<1>4. (a[1] = 0 <=> x = 0) /\ (b[1] = 0 <=> y = 0)
  BY <1>1, <1>2
<1>5. Leq(a, a) /\ (Leq(a, b) <=> x <= y) /\ (Leq(b, a) <=> y <= x) /\ (Less(a, b) <=> x < y)
  BY <1>2, <1>3 DEF Leq, Less
<1> QED BY <1>3, <1>4, <1>5

LEMMA LeqIsTransitive ==
  ASSUME NEW a \in Fractions, NEW b \in Fractions, NEW c \in Fractions, Leq(a, b), Leq(b, c)
  PROVE  Leq(a, c)
<1>1. PICK n, d : n = a[1] /\ d = a[2]
  OBVIOUS
<1>2. PICK m, e : m = b[1] /\ e = b[2]
  OBVIOUS
<1>3. PICK k, f : k = c[1] /\ f = c[2]
  OBVIOUS
<1>4. /\ n \in Nat /\ d \in Nat \ {0} /\ m \in Nat /\ e \in Nat \ {0}
      /\ k \in Nat /\ f \in Nat \ {0}
  BY <1>1, <1>2, <1>3, FractionIsFrac
<1>5. n * e <= m * d /\ m * f <= k * e
  BY <1>1, <1>2, <1>3 DEF Leq
<1>6. /\ n * e \in Nat /\ m * d \in Nat /\ m * f \in Nat /\ k * e \in Nat
      /\ n * f \in Nat /\ k * d \in Nat
  BY <1>4
<1>7. f * (n * e) <= f * (m * d)
  BY <1>4, <1>5, <1>6, FactorsCancel
<1>8. d * (m * f) <= d * (k * e)
  BY <1>4, <1>5, <1>6, FactorsCancel
<1>9. f * (n * e) = e * (n * f) /\ f * (m * d) = d * (m * f) /\ d * (k * e) = e * (k * d)
  BY <1>4
<1>10. f * (n * e) \in Nat /\ f * (m * d) \in Nat /\ d * (k * e) \in Nat
  BY <1>4, <1>6
<1>11. e * (n * f) <= e * (k * d)
  BY <1>7, <1>8, <1>9, <1>10
<1>12. n * f <= k * d
  BY <1>4, <1>6, <1>11, FactorsCancel
<1> QED BY <1>1, <1>3, <1>12 DEF Leq

LEMMA TimesIsMonotone ==
  ASSUME NEW a \in Fractions, NEW b \in Fractions, NEW c \in Fractions, Leq(a, b)
  PROVE  Leq(Times(a, c), Times(b, c)) /\ Leq(Times(c, a), Times(c, b))
<1>1. PICK n, d : Is(a, n, d)
  BY FractionIs
<1>2. PICK m, e : Is(b, m, e)
  BY FractionIs
<1>3. PICK k, f : Is(c, k, f)
  BY FractionIs
<1>4. /\ n \in Nat /\ d \in Nat \ {0} /\ m \in Nat /\ e \in Nat \ {0}
      /\ k \in Nat /\ f \in Nat \ {0}
  BY <1>1, <1>2, <1>3 DEF Is
<1>5. n * e <= m * d
  BY <1>1, <1>2, OrderIs
<1>6. Is(Times(a, c), n * k, d * f)
  BY <1>1, <1>3, TimesIs
<1>7. Is(Times(b, c), m * k, e * f)
  BY <1>2, <1>3, TimesIs
<1>8. (n * k) * (e * f) <= (m * k) * (d * f)
  <2>1. n * e \in Nat /\ m * d \in Nat /\ k * f \in Nat
    BY <1>4
  <2>2. (n * k) * (e * f) = (k * f) * (n * e)
    BY <1>4
  <2>3. (m * k) * (d * f) = (k * f) * (m * d)
    BY <1>4
  <2>4. CASE k * f # 0
    <3>1. (k * f) * (n * e) <= (k * f) * (m * d)
      BY <1>5, <2>1, <2>4, FactorsCancel
    <3> QED BY <2>2, <2>3, <3>1
  <2>5. CASE k * f = 0
    <3>1. (k * f) * (n * e) = 0 /\ (k * f) * (m * d) = 0
      BY <2>1, <2>5
    <3> QED BY <2>2, <2>3, <3>1
  <2> QED BY <2>4, <2>5
<1>9. Leq(Times(a, c), Times(b, c))
  BY <1>6, <1>7, <1>8, OrderIs
<1>10. Times(c, a) = Times(a, c) /\ Times(c, b) = Times(b, c)
  BY TimesCommutes
<1> QED BY <1>9, <1>10

LEMMA PlusIsMonotone ==
  ASSUME NEW a \in Fractions, NEW b \in Fractions, NEW c \in Fractions, Leq(a, b)
  PROVE  Leq(Plus(a, c), Plus(b, c))
<1>1. PICK n, d : Is(a, n, d)
  BY FractionIs
<1>2. PICK m, e : Is(b, m, e)
  BY FractionIs
<1>3. PICK k, f : Is(c, k, f)
  BY FractionIs
<1>4. /\ n \in Nat /\ d \in Nat \ {0} /\ m \in Nat /\ e \in Nat \ {0}
      /\ k \in Nat /\ f \in Nat \ {0}
  BY <1>1, <1>2, <1>3 DEF Is
<1>5. n * e <= m * d
  BY <1>1, <1>2, OrderIs
<1>6. Is(Plus(a, c), n * f + k * d, d * f)
  BY <1>1, <1>3, PlusIs
<1>7. Is(Plus(b, c), m * f + k * e, e * f)
  BY <1>2, <1>3, PlusIs
<1>8. (n * f + k * d) * (e * f) <= (m * f + k * e) * (d * f)
  <2>1. n * e \in Nat /\ m * d \in Nat /\ f * f \in Nat \ {0} /\ (k * d) * (e * f) \in Nat
    <3>1. n * e \in Nat /\ m * d \in Nat
      BY <1>4
    <3>2. f * f \in Nat \ {0}
      BY <1>4, ProductIsPositive
    <3>3. k * d \in Nat /\ e * f \in Nat
      BY <1>4
    <3>4. (k * d) * (e * f) \in Nat
      BY <3>3
    <3> QED BY <3>1, <3>2, <3>4
  <2>2. (n * f + k * d) * (e * f) = (f * f) * (n * e) + (k * d) * (e * f)
    BY <1>4
  <2>3. (m * f + k * e) * (d * f) = (f * f) * (m * d) + (k * d) * (e * f)
    BY <1>4
  <2>4. (f * f) * (n * e) <= (f * f) * (m * d)
    BY <1>5, <2>1, FactorsCancel
  <2>5. (f * f) * (n * e) \in Nat /\ (f * f) * (m * d) \in Nat
    BY <2>1
  <2> QED BY <2>1, <2>2, <2>3, <2>4, <2>5
<1> QED BY <1>6, <1>7, <1>8, OrderIs

(* Quotients compare as the cross products do. *)
LEMMA OverCompares ==
  ASSUME NEW x \in Fractions, NEW a \in Fractions, NEW y \in Fractions, NEW b \in Fractions,
         a[1] > 0, b[1] > 0, Leq(Times(x, b), Times(y, a))
  PROVE  Leq(Over(x, a), Over(y, b))
<1>1. PICK n, d : Is(x, n, d)
  BY FractionIs
<1>2. PICK m, e : Is(a, m, e)
  BY FractionIs
<1>3. PICK p, q : Is(y, p, q)
  BY FractionIs
<1>4. PICK r, s : Is(b, r, s)
  BY FractionIs
<1>5. Is(Over(x, a), n * e, d * m)
  BY <1>1, <1>2, OverIs
<1>6. Is(Over(y, b), p * s, q * r)
  BY <1>3, <1>4, OverIs
<1>7. Is(Times(x, b), n * r, d * s) /\ Is(Times(y, a), p * m, q * e)
  BY <1>1, <1>2, <1>3, <1>4, TimesIs
<1>8. (n * r) * (q * e) <= (p * m) * (d * s)
  BY <1>7, OrderIs
<1>9. /\ n \in Nat /\ d \in Nat /\ m \in Nat /\ e \in Nat
      /\ p \in Nat /\ q \in Nat /\ r \in Nat /\ s \in Nat
  BY <1>1, <1>2, <1>3, <1>4 DEF Is
<1>10. (n * r) * (q * e) = (n * e) * (q * r) /\ (p * m) * (d * s) = (p * s) * (d * m)
  BY <1>9
<1>11. (n * e) * (q * r) <= (p * s) * (d * m)
  BY <1>8, <1>10
<1> QED BY <1>5, <1>6, <1>11, OrderIs

-----------------------------------------------------------------------------
(* The function that a total over a set of groups is defined with. *)
IsTotal(g, f, A) ==
  g = [s \in A |-> IF s = {} THEN Whole(0) ELSE Plus(f[First(s)], g[s \ {First(s)}])]

LEMMA TotalsAgree ==
  ASSUME NEW S, IsFiniteSet(S), NEW f, NEW h, \A x \in S : f[x] = h[x],
         NEW A, NEW B, SUBSET S \subseteq A, SUBSET S \subseteq B,
         NEW g, NEW k, IsTotal(g, f, A), IsTotal(k, h, B)
  PROVE  g[S] = k[S]
<1> DEFINE T == {s \in SUBSET S : g[s] = k[s]}
<1>1. ASSUME NEW s \in SUBSET S, \A t \in SUBSET s : t # s => t \in T
      PROVE  s \in T
  <2>1. CASE s = {}
    BY <2>1 DEF IsTotal
  <2>2. CASE s # {}
    <3>1. First(s) \in s
      BY <2>2, FirstIsIn
    <3>2. s \ {First(s)} \in T
      BY <1>1, <3>1
    <3>3. s \in A /\ s \in B /\ f[First(s)] = h[First(s)]
      BY <3>1
    <3>4. g[s] = Plus(f[First(s)], g[s \ {First(s)}]) /\ k[s] = Plus(h[First(s)], k[s \ {First(s)}])
      BY <2>2, <3>3 DEF IsTotal
    <3> QED BY <3>2, <3>3, <3>4
  <2> QED BY <2>1, <2>2
<1> HIDE DEF T
<1>2. SUBSET S \subseteq T
  BY <1>1, SubsetsInSet
<1> QED BY <1>2 DEF T

LEMMA TotalsExist ==
  ASSUME NEW f, NEW S, IsFiniteSet(S)
  PROVE  \E g : IsTotal(g, f, SUBSET S)
<1> DEFINE T == {s \in SUBSET S : \E g : IsTotal(g, f, SUBSET s)}
<1>1. ASSUME NEW s \in SUBSET S, \A t \in SUBSET s : t # s => t \in T
      PROVE  s \in T
  <2> DEFINE below(t) == CHOOSE g : IsTotal(g, f, SUBSET t)
             total(t) == IF t = {} THEN Whole(0) ELSE Plus(f[First(t)], below(t \ {First(t)})[t \ {First(t)}])
             g == [t \in SUBSET s |-> total(t)]
  <2>1. ASSUME NEW t \in SUBSET s, t # s
        PROVE  IsTotal(below(t), f, SUBSET t)
    BY <1>1, <2>1
  <2>2. ASSUME NEW t \in SUBSET s, t # s
        PROVE  g[t] = below(t)[t]
    <3>1. CASE t = {}
      <4>1. IsTotal(below(t), f, SUBSET t) /\ g[t] = Whole(0)
        BY <2>1, <2>2, <3>1
      <4> HIDE DEF below, g
      <4> QED BY <3>1, <4>1 DEF IsTotal
    <3>2. CASE t # {}
      <4> DEFINE u == t \ {First(t)}
      <4>1. First(t) \in t
        BY <3>2, FirstIsIn
      <4>2. u \in SUBSET s /\ u # s /\ SUBSET u \subseteq SUBSET t /\ IsFiniteSet(u)
        BY <2>2, <4>1, FS_Subset
      <4>3. IsTotal(below(u), f, SUBSET u) /\ IsTotal(below(t), f, SUBSET t)
        BY <2>1, <2>2, <4>2
      <4>4. PICK b, c : b = below(u) /\ c = below(t)
        OBVIOUS
      <4>5. IsTotal(b, f, SUBSET u) /\ IsTotal(c, f, SUBSET t)
        BY <4>3, <4>4
      <4>6. g[t] = Plus(f[First(t)], b[u])
        BY <2>2, <3>2, <4>4
      <4> HIDE DEF below, g
      <4>7. b[u] = c[u]
        <5>1. PICK v, A, B : v = u /\ A = SUBSET u /\ B = SUBSET t
          OBVIOUS
        <5>2. /\ SUBSET v \subseteq A /\ SUBSET v \subseteq B /\ IsFiniteSet(v)
              /\ IsTotal(b, f, A) /\ IsTotal(c, f, B)
          BY <4>2, <4>5, <5>1
        <5>3. b[v] = c[v]
          BY <5>2, TotalsAgree
        <5> QED BY <5>1, <5>3
      <4>8. c[t] = Plus(f[First(t)], c[u])
        BY <3>2, <4>5 DEF IsTotal
      <4> QED BY <4>4, <4>6, <4>7, <4>8
    <3> QED BY <3>1, <3>2
  <2>3. \A t \in SUBSET s : t # {} => t \ {First(t)} \in SUBSET s /\ t \ {First(t)} # s
    BY FirstIsIn
  <2> HIDE DEF below
  <2>4. g = [t \in SUBSET s |-> IF t = {} THEN Whole(0) ELSE Plus(f[First(t)], g[t \ {First(t)}])]
    BY <2>2, <2>3
  <2>5. IsTotal(g, f, SUBSET s)
    BY <2>4 DEF IsTotal
  <2> QED BY <2>5
<1> HIDE DEF T
<1>2. SUBSET S \subseteq T
  BY <1>1, SubsetsInSet
<1> QED BY <1>2 DEF T

LEMMA TotalOnSet ==
  ASSUME NEW f, NEW S, IsFiniteSet(S)
  PROVE  \E g : IsTotal(g, f, SUBSET S) /\ Total(f, S) = g[S]
<1>1. \E g : IsTotal(g, f, SUBSET S)
  BY TotalsExist
<1> QED BY <1>1 DEF Total, FoldFunctionOnSet, MapThenFoldSet, IsTotal, First

LEMMA TotalOfNothing ==
  ASSUME NEW f
  PROVE  Total(f, {}) = Whole(0)
<1>1. PICK g : IsTotal(g, f, SUBSET {}) /\ Total(f, {}) = g[{}]
  BY TotalOnSet, FS_EmptySet
<1> QED BY <1>1 DEF IsTotal

LEMMA TotalOfEquals ==
  ASSUME NEW S, IsFiniteSet(S), NEW f, NEW h, \A x \in S : f[x] = h[x]
  PROVE  Total(f, S) = Total(h, S)
<1>1. PICK g : IsTotal(g, f, SUBSET S) /\ Total(f, S) = g[S]
  BY TotalOnSet
<1>2. PICK k : IsTotal(k, h, SUBSET S) /\ Total(h, S) = k[S]
  BY TotalOnSet
<1>3. PICK A : A = SUBSET S
  OBVIOUS
<1>4. SUBSET S \subseteq A /\ IsTotal(g, f, A) /\ IsTotal(k, h, A)
  BY <1>1, <1>2, <1>3
<1>5. g[S] = k[S]
  BY <1>4, TotalsAgree
<1> QED BY <1>1, <1>2, <1>5

LEMMA TotalTakesFirst ==
  ASSUME NEW S, IsFiniteSet(S), S # {}, NEW f
  PROVE  Total(f, S) = Plus(f[First(S)], Total(f, S \ {First(S)}))
<1>1. PICK g : IsTotal(g, f, SUBSET S) /\ Total(f, S) = g[S]
  BY TotalOnSet
<1>2. PICK rest : rest = S \ {First(S)}
  OBVIOUS
<1>3. rest \in SUBSET S /\ IsFiniteSet(rest) /\ g[S] = Plus(f[First(S)], g[rest])
  BY <1>1, <1>2, FS_Subset DEF IsTotal
<1>4. PICK k : IsTotal(k, f, SUBSET rest) /\ Total(f, rest) = k[rest]
  BY <1>3, TotalOnSet
<1>5. PICK A, B : A = SUBSET S /\ B = SUBSET rest
  OBVIOUS
<1>6. SUBSET rest \subseteq A /\ SUBSET rest \subseteq B /\ IsTotal(g, f, A) /\ IsTotal(k, f, B)
  BY <1>1, <1>3, <1>4, <1>5
<1>7. g[rest] = k[rest]
  BY <1>3, <1>6, TotalsAgree
<1> QED BY <1>1, <1>2, <1>3, <1>4, <1>7

(* f gives every element of S a fraction. *)
Given(f, S) == IsFiniteSet(S) /\ \A x \in S : f[x] \in Fractions

LEMMA GivenParts ==
  ASSUME NEW f, NEW S, Given(f, S), NEW R \in SUBSET S
  PROVE  Given(f, R)
BY FS_Subset DEF Given

LEMMA TotalIsFraction ==
  ASSUME NEW f, NEW S, Given(f, S)
  PROVE  Total(f, S) \in Fractions /\ (S # {} /\ (\A x \in S : f[x][1] > 0) => Total(f, S)[1] > 0)
<1> DEFINE Sum(s) == Total(f, s)
           T == {s \in SUBSET S : /\ Sum(s) \in Fractions
                                  /\ s # {} /\ (\A x \in s : f[x][1] > 0) => Sum(s)[1] > 0}
<1>1. ASSUME NEW s \in SUBSET S, \A t \in SUBSET s : t # s => t \in T
      PROVE  s \in T
  <2>1. CASE s = {}
    BY <2>1, TotalOfNothing, WholeIsFraction
  <2>2. CASE s # {}
    <3>1. PICK e, u : e = First(s) /\ u = s \ {First(s)}
      OBVIOUS
    <3>2. e \in s /\ IsFiniteSet(s) /\ f[e] \in Fractions
      BY <2>2, <3>1, FirstIsIn, FS_Subset DEF Given
    <3>3. u \in T
      BY <1>1, <3>1, <3>2
    <3>4. Sum(s) = Plus(f[e], Sum(u))
      BY <2>2, <3>1, <3>2, TotalTakesFirst
    <3>5. Sum(u) \in Fractions
      BY <3>3
    <3> HIDE DEF Sum
    <3>6. Sum(s) \in Fractions /\ (f[e][1] > 0 => Sum(s)[1] > 0)
      BY <3>2, <3>4, <3>5, PlusIsFraction
    <3> QED BY <3>2, <3>6
  <2> QED BY <2>1, <2>2
<1> HIDE DEF T
<1>2. SUBSET S \subseteq T
  BY <1>1, SubsetsInSet DEF Given
<1> QED BY <1>2 DEF T

(* A total may take any of its elements first. *)
LEMMA TotalTakesAny ==
  ASSUME NEW f, NEW S, Given(f, S), NEW y \in S
  PROVE  Total(f, S) = Plus(f[y], Total(f, S \ {y}))
<1> DEFINE Sum(s) == Total(f, s)
           T == {s \in SUBSET S : \A x \in s : Sum(s) = Plus(f[x], Sum(s \ {x}))}
<1>1. ASSUME NEW s \in SUBSET S, \A t \in SUBSET s : t # s => t \in T, NEW x \in s
      PROVE  Sum(s) = Plus(f[x], Sum(s \ {x}))
  <2>1. PICK e : e = First(s)
    OBVIOUS
  <2>2. e \in s /\ IsFiniteSet(s) /\ Sum(s) = Plus(f[e], Sum(s \ {e}))
    BY <2>1, FirstIsIn, FS_Subset, TotalTakesFirst DEF Given
  <2>3. CASE x # e
    <3>1. s \ {e} \in T /\ s \ {x} \in T /\ x \in s \ {e} /\ e \in s \ {x}
      BY <1>1, <2>2, <2>3
    <3>2. /\ Sum(s \ {e}) = Plus(f[x], Sum((s \ {e}) \ {x}))
          /\ Sum(s \ {x}) = Plus(f[e], Sum((s \ {x}) \ {e}))
      BY <3>1
    <3>3. PICK u : u = (s \ {e}) \ {x}
      OBVIOUS
    <3>4. u = (s \ {x}) \ {e} /\ u \in SUBSET S
      BY <3>3
    <3>5. Given(f, u)
      BY <3>4, GivenParts
    <3>6. Sum(u) \in Fractions
      BY <3>5, TotalIsFraction
    <3>7. f[e] \in Fractions /\ f[x] \in Fractions
      BY <2>2 DEF Given
    <3>8. PICK v : v = Sum(u)
      OBVIOUS
    <3>9. Plus(f[e], Plus(f[x], v)) = Plus(Plus(f[e], f[x]), v)
      BY <3>6, <3>7, <3>8, PlusAssociates
    <3>10. Plus(f[x], Plus(f[e], v)) = Plus(Plus(f[x], f[e]), v)
      BY <3>6, <3>7, <3>8, PlusAssociates
    <3>11. Plus(f[e], f[x]) = Plus(f[x], f[e])
      BY <3>7, PlusCommutes
    <3> HIDE DEF Sum
    <3> QED BY <2>2, <3>2, <3>3, <3>4, <3>8, <3>9, <3>10, <3>11
  <2> QED BY <2>2, <2>3
<1>2. \A s \in SUBSET S : (\A t \in SUBSET s : t # s => t \in T) => s \in T
  BY <1>1
<1> HIDE DEF T
<1>3. SUBSET S \subseteq T
  BY <1>2, SubsetsInSet DEF Given
<1> QED BY <1>3 DEF T

(* A total grows with its parts, and scales with them. *)
LEMMA TotalIsMonotone ==
  ASSUME NEW f, NEW h, NEW S, Given(f, S), Given(h, S), \A x \in S : Leq(f[x], h[x])
  PROVE  Leq(Total(f, S), Total(h, S))
<1> DEFINE T == {s \in SUBSET S : Leq(Total(f, s), Total(h, s))}
<1>1. ASSUME NEW s \in SUBSET S, \A t \in SUBSET s : t # s => t \in T
      PROVE  s \in T
  <2>1. CASE s = {}
    <3>1. Total(f, s) = Whole(0) /\ Total(h, s) = Whole(0) /\ Whole(0) \in Fractions
      BY <2>1, TotalOfNothing, WholeIsFraction
    <3> QED BY <3>1, LeqIsOrder
  <2>2. CASE s # {}
    <3>1. PICK e, u : e = First(s) /\ u = s \ {First(s)}
      OBVIOUS
    <3>2. e \in s /\ IsFiniteSet(s) /\ f[e] \in Fractions /\ h[e] \in Fractions /\ Leq(f[e], h[e])
      BY <2>2, <3>1, FirstIsIn, FS_Subset DEF Given
    <3>3. u \in T /\ u \in SUBSET S
      BY <1>1, <3>1, <3>2
    <3>4. Total(f, s) = Plus(f[e], Total(f, u)) /\ Total(h, s) = Plus(h[e], Total(h, u))
      BY <2>2, <3>1, <3>2, TotalTakesFirst
    <3>5. Given(f, u) /\ Given(h, u)
      BY <3>3, GivenParts
    <3>6. PICK v, w : v = Total(f, u) /\ w = Total(h, u)
      OBVIOUS
    <3>7. v \in Fractions /\ w \in Fractions /\ Leq(v, w)
      BY <3>3, <3>5, <3>6, TotalIsFraction
    <3>8. Leq(Plus(f[e], v), Plus(h[e], v)) /\ Leq(Plus(v, h[e]), Plus(w, h[e]))
      BY <3>2, <3>7, PlusIsMonotone
    <3>9. Plus(v, h[e]) = Plus(h[e], v) /\ Plus(w, h[e]) = Plus(h[e], w)
      BY <3>2, <3>7, PlusCommutes
    <3>10. Plus(f[e], v) \in Fractions /\ Plus(h[e], v) \in Fractions /\ Plus(h[e], w) \in Fractions
      BY <3>2, <3>7, PlusIsFraction
    <3>11. Leq(Plus(f[e], v), Plus(h[e], w))
      BY <3>8, <3>9, <3>10, LeqIsTransitive
    <3> QED BY <3>4, <3>6, <3>11
  <2> QED BY <2>1, <2>2
<1> HIDE DEF T
<1>2. SUBSET S \subseteq T
  BY <1>1, SubsetsInSet DEF Given
<1> QED BY <1>2 DEF T

LEMMA TotalScales ==
  ASSUME NEW f, NEW h, NEW S, NEW c \in Fractions, Given(f, S),
         \A x \in S : h[x] = Times(f[x], c)
  PROVE  Total(h, S) = Times(Total(f, S), c)
<1> DEFINE T == {s \in SUBSET S : Total(h, s) = Times(Total(f, s), c)}
<1>1. ASSUME NEW s \in SUBSET S, \A t \in SUBSET s : t # s => t \in T
      PROVE  s \in T
  <2>1. CASE s = {}
    BY <2>1, TotalOfNothing, TimesZeroOne
  <2>2. CASE s # {}
    <3>1. PICK e, u : e = First(s) /\ u = s \ {First(s)}
      OBVIOUS
    <3>2. e \in s /\ IsFiniteSet(s) /\ f[e] \in Fractions /\ h[e] = Times(f[e], c)
      BY <2>2, <3>1, FirstIsIn, FS_Subset DEF Given
    <3>3. u \in T /\ u \in SUBSET S
      BY <1>1, <3>1, <3>2
    <3>4. Total(f, s) = Plus(f[e], Total(f, u)) /\ Total(h, s) = Plus(h[e], Total(h, u))
      BY <2>2, <3>1, <3>2, TotalTakesFirst
    <3>5. Given(f, u)
      BY <3>3, GivenParts
    <3>6. PICK v : v = Total(f, u)
      OBVIOUS
    <3>7. v \in Fractions /\ Total(h, u) = Times(v, c)
      BY <3>3, <3>5, <3>6, TotalIsFraction
    <3>8. Times(Plus(f[e], v), c) = Plus(Times(f[e], c), Times(v, c))
      BY <3>2, <3>7, TimesDistributes
    <3> QED BY <3>2, <3>4, <3>6, <3>7, <3>8
  <2> QED BY <2>1, <2>2
<1> HIDE DEF T
<1>2. SUBSET S \subseteq T
  BY <1>1, SubsetsInSet DEF Given
<1> QED BY <1>2 DEF T

(* What is zero does not change a total. *)
LEMMA TotalWithZero ==
  ASSUME NEW f, NEW h, NEW S, Given(f, S), NEW y, y \notin S, h[y] = Whole(0),
         \A x \in S : h[x] = f[x]
  PROVE  Total(h, S \cup {y}) = Total(f, S)
<1>1. PICK R : R = S \cup {y}
  OBVIOUS
<1>2. IsFiniteSet(R)
  BY <1>1, FS_AddElement DEF Given
<1>3. Given(h, R)
  BY <1>1, <1>2, WholeIsFraction DEF Given
<1>4. Total(h, R) = Plus(h[y], Total(h, R \ {y})) /\ R \ {y} = S
  BY <1>1, <1>3, TotalTakesAny
<1>5. Total(h, S) = Total(f, S)
  BY TotalOfEquals DEF Given
<1>6. Total(f, S) \in Fractions
  BY TotalIsFraction
<1>7. Plus(Whole(0), Total(f, S)) = Total(f, S)
  BY <1>6, PlusZero
<1> QED BY <1>1, <1>4, <1>5, <1>7

-----------------------------------------------------------------------------
(* Rates: a fraction above zero. *)
Positive == {a \in Fractions : a[1] > 0}

LEMMA LeastIs ==
  ASSUME NEW a \in Fractions, NEW b \in Fractions
  PROVE  /\ Least(a, b) \in {a, b} /\ Leq(Least(a, b), a) /\ Leq(Least(a, b), b)
         /\ (Least(a, b) = b \/ (Least(a, b) = a /\ Leq(a, b)))
         /\ (Least(a, b) = a \/ (Least(a, b) = b /\ ~Leq(a, b)))
BY LeqIsOrder DEF Least

LEMMA LeastIsMonotone ==
  ASSUME NEW a \in Fractions, NEW b \in Fractions, NEW c \in Fractions, Leq(a, b)
  PROVE  Leq(Least(a, c), Least(b, c))
<1>1. PICK x, y : x = Least(a, c) /\ y = Least(b, c)
  OBVIOUS
<1>2. x \in Fractions /\ Leq(x, a) /\ Leq(x, c)
  BY <1>1, LeastIs
<1>3. y = b \/ y = c
  BY <1>1, LeastIs
<1>4. Leq(x, b)
  BY <1>2, LeqIsTransitive
<1> QED BY <1>1, <1>2, <1>3, <1>4

(* A group's seats: the house's share of it, f * a, if that is not below the   *)
(* senate's share s, and else the senate's share but no more than the group.   *)
LEMMA SeatsAre ==
  ASSUME NEW a \in Positive, NEW f \in Positive, NEW s \in Positive, Leq(f, Whole(1)),
         NEW x, x = Seats(a, f, s)
  PROVE  /\ x \in Positive /\ Leq(x, a)
         /\ \/ ~Less(Times(f, a), s) /\ x = Times(f, a)
            \/ Less(Times(f, a), s) /\ x = a /\ Leq(a, s)
            \/ Less(Times(f, a), s) /\ x = s /\ ~Leq(a, s)
<1>1. Times(f, a) \in Positive
  BY TimesIsFraction DEF Positive
<1>2. Leq(Times(f, a), a)
  <2>1. Leq(Times(f, a), Times(Whole(1), a))
    BY TimesIsMonotone, WholeIsFraction DEF Positive
  <2>2. Times(Whole(1), a) = a
    BY TimesZeroOne DEF Positive
  <2> QED BY <2>1, <2>2
<1>3. PICK house : house = Times(f, a)
  OBVIOUS
<1>4. x = IF Less(house, s) THEN Least(a, s) ELSE house
  BY <1>3 DEF Seats
<1>5. CASE ~Less(house, s)
  BY <1>1, <1>2, <1>3, <1>4, <1>5
<1>6. CASE Less(house, s)
  <2>1. a \in Fractions /\ s \in Fractions
    BY DEF Positive
  <2>2. (x = a /\ Leq(a, s)) \/ (x = s /\ ~Leq(a, s))
    BY <1>4, <1>6, <2>1, LeastIs
  <2>3. Leq(x, a)
    BY <1>4, <1>6, <2>1, LeastIs
  <2>4. x \in Positive
    BY <2>2
  <2> QED BY <1>3, <1>6, <2>2, <2>3, <2>4
<1> QED BY <1>5, <1>6

(* Seats per entry go down as a group's average goes up. *)
LEMMA SeatsAreFair ==
  ASSUME NEW a \in Positive, NEW b \in Positive, Leq(a, b),
         NEW f \in Positive, NEW s \in Positive, Leq(f, Whole(1)),
         NEW x, NEW y, x = Seats(a, f, s), y = Seats(b, f, s)
  PROVE  Leq(Times(y, a), Times(x, b))
<1>1. a \in Fractions /\ b \in Fractions /\ f \in Fractions /\ s \in Fractions
  BY DEF Positive
<1>2. /\ x \in Fractions
      /\ \/ ~Less(Times(f, a), s) /\ x = Times(f, a)
         \/ Less(Times(f, a), s) /\ x = a /\ Leq(a, s)
         \/ Less(Times(f, a), s) /\ x = s /\ ~Leq(a, s)
  BY SeatsAre DEF Positive
<1>3. /\ y \in Fractions /\ Leq(y, b)
      /\ \/ ~Less(Times(f, b), s) /\ y = Times(f, b)
         \/ Less(Times(f, b), s) /\ y = b /\ Leq(b, s)
         \/ Less(Times(f, b), s) /\ y = s /\ ~Leq(b, s)
  BY SeatsAre DEF Positive
<1>4. PICK u, v : u = Times(f, a) /\ v = Times(f, b)
  OBVIOUS
<1>5. u \in Fractions /\ v \in Fractions /\ Leq(u, v)
  BY <1>1, <1>4, TimesIsFraction, TimesIsMonotone
<1>6. Times(v, a) = Times(u, b)
  <2>1. Times(Times(f, b), a) = Times(f, Times(b, a))
    BY <1>1, TimesAssociates
  <2>2. Times(Times(f, a), b) = Times(f, Times(a, b))
    BY <1>1, TimesAssociates
  <2>3. Times(b, a) = Times(a, b)
    BY <1>1, TimesCommutes
  <2> QED BY <1>4, <2>1, <2>2, <2>3
<1>7. Times(u, b) \in Fractions /\ Leq(Times(u, b), Times(u, b))
  BY <1>1, <1>5, TimesIsFraction, LeqIsOrder
<1>8. CASE ~Less(u, s) /\ x = u
  <2>1. Leq(s, u)
    BY <1>1, <1>5, <1>8, LeqIsOrder
  <2>2. Leq(s, v)
    BY <1>1, <1>5, <2>1, LeqIsTransitive
  <2>3. ~Less(v, s)
    BY <1>1, <1>5, <2>2, LeqIsOrder
  <2>4. y = v
    BY <1>3, <1>4, <2>3
  <2> QED BY <1>6, <1>7, <1>8, <2>4
<1>9. CASE x = a
  <2>1. Leq(Times(y, a), Times(b, a))
    BY <1>1, <1>3, TimesIsMonotone
  <2>2. Times(b, a) = Times(a, b)
    BY <1>1, TimesCommutes
  <2> QED BY <1>9, <2>1, <2>2
<1>10. CASE Less(u, s) /\ x = s /\ ~Leq(a, s)
  <2>1. CASE y = v
    <3>1. Leq(u, s)
      BY <1>1, <1>5, <1>10, LeqIsOrder
    <3>2. Leq(Times(u, b), Times(s, b))
      BY <1>1, <1>5, <3>1, TimesIsMonotone
    <3> QED BY <1>6, <1>10, <2>1, <3>2
  <2>2. CASE y = b /\ Leq(b, s)
    <3>1. Leq(a, s)
      BY <1>1, <2>2, LeqIsTransitive
    <3> QED BY <1>10, <3>1
  <2>3. CASE y = s
    <3>1. Leq(Times(s, a), Times(s, b))
      BY <1>1, TimesIsMonotone
    <3> QED BY <1>10, <2>3, <3>1
  <2> QED BY <1>3, <1>4, <2>1, <2>2, <2>3
<1> QED BY <1>2, <1>4, <1>8, <1>9, <1>10

(* The groups of K have averages A and seats s, of which none is nothing. *)
Seated(A, s, K) == K # {} /\ IsFiniteSet(K) /\ \A g \in K : A[g] \in Positive /\ s[g] \in Positive

Scale(s, K) == Over(Whole(Target), Total(s, K))
Rate(a, x, c) == Least(Over(Times(x, c), a), Whole(1))

LEMMA ScaleIs ==
  ASSUME NEW A, NEW s, NEW K, Seated(A, s, K)
  PROVE  Scale(s, K) \in Positive /\ Times(Total(s, K), Scale(s, K)) = Whole(Target)
<1>1. Given(s, K) /\ K # {} /\ \A x \in K : s[x][1] > 0
  BY DEF Seated, Given, Positive
<1>2. PICK t : t = Total(s, K)
  OBVIOUS
<1>3. t \in Fractions /\ t[1] > 0
  BY <1>1, <1>2, TotalIsFraction
<1>4. Whole(Target) \in Fractions /\ Whole(Target)[1] > 0
  BY CongressAssumption, WholeIsFraction
<1>5. Over(Whole(Target), t) \in Positive
  BY <1>3, <1>4, OverIsFraction DEF Positive
<1>6. Times(t, Over(Whole(Target), t)) = Whole(Target)
  BY <1>3, <1>4, TimesOver
<1> QED BY <1>2, <1>5, <1>6 DEF Scale

LEMMA RateIs ==
  ASSUME NEW a \in Positive, NEW x \in Positive, NEW c \in Positive
  PROVE  /\ Rate(a, x, c) \in Positive /\ Leq(Rate(a, x, c), Whole(1))
         /\ Leq(Times(a, Rate(a, x, c)), Times(x, c))
<1>1. a \in Fractions /\ a[1] > 0 /\ Whole(1) \in Positive /\ Whole(1) \in Fractions
  BY WholeIsFraction DEF Positive
<1>2. PICK z : z = Times(x, c)
  OBVIOUS
<1>3. z \in Fractions /\ z[1] > 0
  BY <1>2, TimesIsFraction DEF Positive
<1>4. PICK o : o = Over(z, a)
  OBVIOUS
<1>5. o \in Positive /\ o \in Fractions
  BY <1>1, <1>3, <1>4, OverIsFraction DEF Positive
<1>6. PICK r : r = Least(o, Whole(1))
  OBVIOUS
<1>7. r \in {o, Whole(1)} /\ Leq(r, o) /\ Leq(r, Whole(1))
  BY <1>1, <1>5, <1>6, LeastIs
<1>8. r \in Positive /\ r \in Fractions
  BY <1>1, <1>5, <1>7
<1>9. Leq(Times(a, r), Times(a, o))
  BY <1>1, <1>5, <1>7, <1>8, TimesIsMonotone
<1>10. Times(a, o) = z
  BY <1>1, <1>3, <1>4, TimesOver
<1> QED BY <1>2, <1>4, <1>6, <1>7, <1>8, <1>9, <1>10 DEF Rate

LEMMA RateIsFair ==
  ASSUME NEW a \in Positive, NEW b \in Positive, NEW x \in Positive, NEW y \in Positive,
         NEW c \in Positive, Leq(Times(y, a), Times(x, b))
  PROVE  Leq(Rate(b, y, c), Rate(a, x, c))
<1>1. /\ a \in Fractions /\ b \in Fractions /\ x \in Fractions /\ y \in Fractions /\ c \in Fractions
      /\ a[1] > 0 /\ b[1] > 0
  BY DEF Positive
<1>2. Times(Times(y, c), a) = Times(Times(y, a), c)
  <2>1. Times(Times(y, c), a) = Times(y, Times(c, a))
    BY <1>1, TimesAssociates
  <2>2. Times(Times(y, a), c) = Times(y, Times(a, c))
    BY <1>1, TimesAssociates
  <2>3. Times(c, a) = Times(a, c)
    BY <1>1, TimesCommutes
  <2> QED BY <2>1, <2>2, <2>3
<1>3. Times(Times(x, c), b) = Times(Times(x, b), c)
  <2>1. Times(Times(x, c), b) = Times(x, Times(c, b))
    BY <1>1, TimesAssociates
  <2>2. Times(Times(x, b), c) = Times(x, Times(b, c))
    BY <1>1, TimesAssociates
  <2>3. Times(c, b) = Times(b, c)
    BY <1>1, TimesCommutes
  <2> QED BY <2>1, <2>2, <2>3
<1>4. Leq(Times(Times(y, a), c), Times(Times(x, b), c))
  <2>1. Times(y, a) \in Fractions /\ Times(x, b) \in Fractions
    BY <1>1, TimesIsFraction
  <2> QED BY <1>1, <2>1, TimesIsMonotone
<1>5. PICK v, w : v = Times(y, c) /\ w = Times(x, c)
  OBVIOUS
<1>6. v \in Fractions /\ w \in Fractions /\ Leq(Times(v, a), Times(w, b))
  BY <1>1, <1>2, <1>3, <1>4, <1>5, TimesIsFraction
<1>7. Leq(Over(v, b), Over(w, a))
  BY <1>1, <1>6, OverCompares
<1>8. Over(v, b) \in Fractions /\ Over(w, a) \in Fractions /\ Whole(1) \in Fractions
  BY <1>1, <1>6, OverIsFraction, WholeIsFraction
<1>9. Leq(Least(Over(v, b), Whole(1)), Least(Over(w, a), Whole(1)))
  BY <1>7, <1>8, LeastIsMonotone
<1> QED BY <1>5, <1>9 DEF Rate

(* The congress meets its target: what is expected of all groups together. *)
LEMMA TargetIsMet ==
  ASSUME NEW A, NEW s, NEW K, Seated(A, s, K), NEW e,
         \A g \in K : e[g] = Times(A[g], Rate(A[g], s[g], Scale(s, K)))
  PROVE  Leq(Total(e, K), Whole(Target))
<1>1. PICK c : c = Scale(s, K)
  OBVIOUS
<1>2. c \in Positive /\ Times(Total(s, K), c) = Whole(Target)
  BY <1>1, ScaleIs
<1> DEFINE h == [g \in K |-> Times(s[g], c)]
<1>3. ASSUME NEW g \in K
      PROVE  e[g] \in Fractions /\ h[g] \in Fractions /\ Leq(e[g], h[g]) /\ s[g] \in Fractions
  <2>1. A[g] \in Positive /\ s[g] \in Positive
    BY DEF Seated
  <2>2. PICK r : r = Rate(A[g], s[g], c)
    OBVIOUS
  <2>3. r \in Positive /\ Leq(Times(A[g], r), Times(s[g], c))
    BY <1>2, <2>1, <2>2, RateIs
  <2>4. Times(A[g], r) \in Fractions /\ Times(s[g], c) \in Fractions
    BY <1>2, <2>1, <2>3, TimesIsFraction DEF Positive
  <2> QED BY <1>1, <2>1, <2>2, <2>3, <2>4 DEF Positive
<1>4. \A g \in K : h[g] = Times(s[g], c)
  OBVIOUS
<1> HIDE DEF h
<1>5. Given(e, K) /\ Given(h, K) /\ Given(s, K)
  BY <1>3 DEF Given, Seated
<1>6. Leq(Total(e, K), Total(h, K))
  BY <1>3, <1>5, TotalIsMonotone
<1>7. Total(h, K) = Times(Total(s, K), c)
  BY <1>2, <1>4, <1>5, TotalScales DEF Positive
<1> QED BY <1>2, <1>6, <1>7

-----------------------------------------------------------------------------
(* rate_to_n_alpha: for a rate q / p with p = n * q + r, the multiplicity is n   *)
(* with probability (q - r) / q and n + 1 with probability r / q.              *)
LEMMA WeightIsUnbiased ==
  ASSUME NEW rate, NEW k, Drawn(rate, k)
  PROVE  LET n == RateToN(rate)
             alpha == Alpha(rate)
             beta == Frac(alpha[2] - alpha[1], alpha[2])
         IN  /\ alpha[1] > 0 /\ Leq(alpha, Whole(1))
             /\ Plus(Times(alpha, Whole(n)), Times(beta, Whole(n + 1))) = Over(Whole(1), rate)
             /\ k = n \/ (k = n + 1 /\ beta[1] > 0)
<1> DEFINE n == RateToN(rate)
           alpha == Alpha(rate)
           beta == Frac(alpha[2] - alpha[1], alpha[2])
<1>1. PICK q, p : q = rate[1] /\ p = rate[2]
  OBVIOUS
<1>2. q \in Nat \ {0} /\ p \in Nat \ {0} /\ rate = Frac(q, p) /\ rate[1] > 0
  BY <1>1, FractionIsFrac DEF Drawn
<1>3. PICK r : r = p % q
  OBVIOUS
<1>4. p \div q \in Nat /\ p % q \in 0..(q - 1) /\ p = q * (p \div q) + (p % q)
  BY <1>2, DivMod
<1>5. n = p \div q
  BY <1>1 DEF RateToN
<1>6. n \in Nat /\ r \in 0..(q - 1) /\ p = q * n + r
  BY <1>3, <1>4, <1>5
<1>7. (n + 1) * q - p = q - r
  <2>1. (n + 1) * q = q * n + q
    BY <1>2, <1>6
  <2>2. q * n \in Nat
    BY <1>2, <1>6
  <2> HIDE DEF n
  <2> QED BY <1>2, <1>6, <2>1, <2>2
<1>8. alpha = Frac(q - r, q)
  BY <1>1, <1>7 DEF Alpha
<1> HIDE DEF n, alpha
<1>9. PICK t : t = q - r
  OBVIOUS
<1>10. t \in Nat \ {0} /\ t <= q /\ r \in Nat /\ q = t + r
  BY <1>2, <1>6, <1>9
<1>11. Is(alpha, t, q) /\ Is(Whole(1), 1, 1) /\ Is(Whole(n), n, 1) /\ Is(Whole(n + 1), n + 1, 1)
  BY <1>2, <1>6, <1>8, <1>9, <1>10, WholeIs DEF Is
<1>12. alpha[1] > 0
  BY <1>10, <1>11, IsAFraction
<1>13. (Leq(alpha, Whole(1)) <=> t * 1 <= 1 * q) /\ (Less(alpha, Whole(1)) <=> t * 1 < 1 * q)
  BY <1>11, OrderIs
<1>14. Leq(alpha, Whole(1)) /\ (Less(alpha, Whole(1)) => r > 0)
  BY <1>2, <1>10, <1>13
<1>15. Is(beta, r, q)
  <2>1. PICK g, x, y : Scaled(t, q, g, x, y) /\ Frac(t, q) = <<x, y>>
    BY <1>2, <1>10, FracParts
  <2>2. g \in Nat \ {0} /\ x \in Nat /\ y \in Nat \ {0} /\ t = g * x /\ q = g * y
    BY <2>1 DEF Scaled
  <2>3. alpha[1] = x /\ alpha[2] = y
    BY <1>8, <1>9, <2>1
  <2>4. g * x <= g * y
    BY <1>10, <2>2
  <2>5. x <= y
    BY <2>2, <2>4, FactorsCancel
  <2>6. PICK z \in Nat : z = y - x
    BY <2>2, <2>5
  <2>7. g * z = g * y - g * x
    BY <2>2, <2>6
  <2>8. r = g * z
    BY <1>10, <2>2, <2>7
  <2>9. Scaled(r, q, g, z, y)
    BY <2>2, <2>6, <2>8 DEF Scaled
  <2>10. Frac(r, q) = Frac(z, y)
    BY <2>9, FracScales
  <2>11. beta = Frac(z, y)
    BY <2>3, <2>6
  <2> QED BY <1>2, <1>10, <2>10, <2>11 DEF Is
<1> HIDE DEF beta
<1>16. Less(alpha, Whole(1)) => beta[1] > 0
  BY <1>14, <1>15, IsAFraction
<1>17. k = n \/ (k = n + 1 /\ beta[1] > 0)
  BY <1>16 DEF Drawn, Multiplicities, n, alpha
<1>18. Is(Plus(Times(alpha, Whole(n)), Times(beta, Whole(n + 1))),
          (t * n) * (q * 1) + (r * (n + 1)) * (q * 1), (q * 1) * (q * 1))
  <2>1. Is(Times(alpha, Whole(n)), t * n, q * 1)
    BY <1>11, TimesIs
  <2>2. Is(Times(beta, Whole(n + 1)), r * (n + 1), q * 1)
    BY <1>11, <1>15, TimesIs
  <2> QED BY <2>1, <2>2, PlusIs
<1>19. Is(Over(Whole(1), rate), 1 * p, 1 * q)
  <2>1. Is(rate, q, p)
    BY <1>2 DEF Is
  <2> QED BY <1>2, <1>11, <2>1, OverIs
<1>20. ((t * n) * (q * 1) + (r * (n + 1)) * (q * 1)) * (1 * q) = (1 * p) * ((q * 1) * (q * 1))
  <2>1. (t + r) * n = q * n
    BY <1>10
  <2>2. t * n + r * (n + 1) = (t + r) * n + r
    BY <1>6, <1>10
  <2>3. t * n + r * (n + 1) = p
    BY <1>6, <2>1, <2>2
  <2>4. ((t * n) * (q * 1) + (r * (n + 1)) * (q * 1)) * (1 * q) = (t * n + r * (n + 1)) * (q * q)
    BY <1>2, <1>6, <1>10
  <2>5. (1 * p) * ((q * 1) * (q * 1)) = p * (q * q)
    BY <1>2
  <2> QED BY <2>3, <2>4, <2>5
<1>21. Plus(Times(alpha, Whole(n)), Times(beta, Whole(n + 1))) = Over(Whole(1), rate)
  BY <1>18, <1>19, <1>20, SameFraction
<1> QED BY <1>12, <1>14, <1>17, <1>21 DEF n, alpha, beta

-----------------------------------------------------------------------------
(* RatesAreFair, of any state of the groups. *)
Expected(G) == [g \in DOMAIN G |-> Times(G[g].average, G[g].rate)]

Fair(G) ==
  /\ \A g \in DOMAIN G : G[g].rate[1] > 0 /\ Leq(G[g].rate, Whole(1))
  /\ \A g, h \in DOMAIN G : Leq(G[g].average, G[h].average) => Leq(G[h].rate, G[g].rate)
  /\ (\E g \in DOMAIN G : G[g].rate # Whole(1)) => Leq(Total(Expected(G), DOMAIN G), Whole(Target))

AllRated(G) == IsFiniteSet(DOMAIN G) /\ \A g \in DOMAIN G : Rated(G[g])

LEMMA FairIsFair == RatesAreFair <=> Fair(groups)
<1> DEFINE rate == [g \in DOMAIN groups |-> groups[g].rate]
           expected == [g \in DOMAIN groups |-> Times(groups[g].average, rate[g])]
<1>1. expected = Expected(groups) /\ \A g \in DOMAIN groups : rate[g] = groups[g].rate
  BY DEF Expected
<1>2. RatesAreFair <=>
        /\ \A g \in DOMAIN groups : rate[g][1] > 0 /\ Leq(rate[g], Whole(1))
        /\ \A g, h \in DOMAIN groups :
             Leq(groups[g].average, groups[h].average) => Leq(rate[h], rate[g])
        /\ (\E g \in DOMAIN groups : rate[g] # Whole(1)) =>
             Leq(Total(expected, DOMAIN groups), Whole(Target))
  BY DEF RatesAreFair
<1> HIDE DEF rate, expected
<1> QED BY <1>1, <1>2 DEF Fair

(* A group after update_and_retain has an average above zero. *)
LEMMA UpdatedAverage ==
  ASSUME NEW s, Rated(s)
  PROVE  /\ DOMAIN Updated(s) = DOMAIN NewGroup
         /\ Updated(s).current_observed = 0 /\ Updated(s).samples \in Nat
         /\ Updated(s).average \in Positive
<1>1. /\ DOMAIN s = {"current_observed", "no_observations", "samples", "average", "rate"}
      /\ DOMAIN NewGroup = DOMAIN s
      /\ s.current_observed \in Nat /\ s.samples \in Nat /\ s.average \in Fractions
      /\ s.current_observed = 0 => s.average[1] > 0
  BY DEF Rated, NewGroup
<1>2. CASE s.current_observed > 0
  <2>1. PICK n, c : n = (IF s.samples < Window THEN s.samples + 1 ELSE Window) /\ c = s.current_observed
    OBVIOUS
  <2>2. n \in Nat \ {0} /\ n - 1 \in Nat /\ c \in Nat /\ c > 0
    BY <1>1, <1>2, <2>1, CongressAssumption
  <2>3. PICK a : a = Plus(Frac(c, n), Times(Frac(n - 1, n), s.average))
    OBVIOUS
  <2>4. Frac(c, n) \in Fractions /\ Frac(c, n)[1] > 0 /\ Frac(n - 1, n) \in Fractions
    BY <2>2, FracIsFraction
  <2>5. Times(Frac(n - 1, n), s.average) \in Fractions
    BY <1>1, <2>4, TimesIsFraction
  <2>6. a \in Positive
    BY <2>3, <2>4, <2>5, PlusIsFraction DEF Positive
  <2>7. AddSample(s) = [s EXCEPT !.samples = n, !.average = a]
    BY <2>1, <2>3 DEF AddSample
  <2>8. Updated(s) = [AddSample(s) EXCEPT !.current_observed = 0, !.no_observations = 0]
    BY <1>2 DEF Updated
  <2> QED BY <1>1, <2>2, <2>6, <2>7, <2>8
<1>3. CASE ~(s.current_observed > 0)
  <2>1. s.current_observed = 0
    BY <1>1, <1>3
  <2>2. Updated(s) = [s EXCEPT !.no_observations = @ + 1]
    BY <1>3 DEF Updated
  <2>3. DOMAIN Updated(s) = DOMAIN s /\ Updated(s).samples = s.samples /\ Updated(s).average = s.average
    BY <1>1, <2>2
  <2>4. Updated(s).current_observed = 0
    BY <1>1, <2>1, <2>2
  <2> QED BY <1>1, <2>1, <2>3, <2>4 DEF Positive
<1> QED BY <1>2, <1>3

(* update_rates: whatever the averages, the new rates are fair. *)
LEMMA UpdateRatesIsFair ==
  ASSUME AllRated(groups), current_observed \in Nat
  PROVE  AllRated(UpdateRates) /\ Fair(UpdateRates)
<1> DEFINE kept == {g \in DOMAIN groups : Retained(groups[g])}
           avg == [g \in kept |-> Updated(groups[g]).average]
           flat == Frac(Target, current_observed)
           senate == Frac(Target, Cardinality(kept))
           seats == [g \in kept |-> Seats(avg[g], flat, senate)]
           new(g) == IF current_observed <= Target THEN Whole(1)
                     ELSE Rate(avg[g], seats[g], Scale(seats, kept))
<1>1. /\ IsFiniteSet(kept)
      /\ \A g \in kept : Rated(groups[g])
  <2>1. IsFiniteSet(kept)
    BY FS_Subset DEF AllRated
  <2> QED BY <2>1 DEF AllRated
<1>2. ASSUME NEW g \in kept
      PROVE  /\ DOMAIN Updated(groups[g]) = DOMAIN NewGroup
             /\ Updated(groups[g]).current_observed = 0 /\ Updated(groups[g]).samples \in Nat
             /\ avg[g] \in Positive /\ avg[g] = Updated(groups[g]).average
  <2>1. Rated(groups[g])
    BY <1>1
  <2>2. PICK s : s = groups[g]
    OBVIOUS
  <2>3. /\ DOMAIN Updated(s) = DOMAIN NewGroup
        /\ Updated(s).current_observed = 0 /\ Updated(s).samples \in Nat
        /\ Updated(s).average \in Positive
    BY <2>1, <2>2, UpdatedAverage
  <2> QED BY <2>2, <2>3
<1>3. DOMAIN UpdateRates = kept
  BY DEF UpdateRates
<1>4. ASSUME NEW g \in kept
      PROVE  UpdateRates[g] = [Updated(groups[g]) EXCEPT !.rate = new(g)]
  <2> DEFINE next == [h \in kept |-> Updated(groups[h])]
             places == [h \in kept |->
                  Seats(next[h].average, Frac(Target, current_observed),
                        Frac(Target, Cardinality(kept)))]
             rate(h) == IF next[h].average[1] <= 0 THEN Whole(1)
                 ELSE Least(Over(Times(places[h], ScaleFactor(places)), next[h].average), Whole(1))
  <2>1. UpdateRates = [h \in kept |->
         [next[h] EXCEPT !.rate = IF current_observed <= Target THEN Whole(1) ELSE rate(h)]]
    BY DEF UpdateRates
  <2>2. places = seats
    OBVIOUS
  <2>3. DOMAIN places = kept
    OBVIOUS
  <2>4. ScaleFactor(places) = Scale(seats, kept)
    BY <2>2, <2>3 DEF ScaleFactor, Scale
  <2>5. next[g] = Updated(groups[g]) /\ next[g].average = avg[g]
    OBVIOUS
  <2>6. ~(avg[g][1] <= 0)
    <3>1. avg[g][1] > 0 /\ avg[g][1] \in Nat
      BY <1>2, FractionIsFrac DEF Positive
    <3> QED BY <3>1
  <2>7. rate(g) = Rate(avg[g], seats[g], Scale(seats, kept))
    BY <2>2, <2>4, <2>5, <2>6 DEF Rate
  <2>8. UpdateRates[g] =
          [next[g] EXCEPT !.rate = IF current_observed <= Target THEN Whole(1) ELSE rate(g)]
    BY <2>1
  <2> QED BY <2>5, <2>7, <2>8
<1> HIDE DEF kept, avg
<1>5. ASSUME NEW g \in kept
      PROVE  /\ DOMAIN UpdateRates[g] = DOMAIN NewGroup
             /\ UpdateRates[g].current_observed = 0 /\ UpdateRates[g].samples \in Nat
             /\ UpdateRates[g].average = avg[g] /\ UpdateRates[g].rate = new(g)
  <2>1. PICK s, r : s = Updated(groups[g]) /\ r = new(g)
    OBVIOUS
  <2>2. /\ DOMAIN s = DOMAIN NewGroup /\ s.current_observed = 0 /\ s.samples \in Nat
        /\ avg[g] = s.average /\ UpdateRates[g] = [s EXCEPT !.rate = r]
    BY <1>2, <1>4, <2>1
  <2>3. "rate" \in DOMAIN s
    BY <2>2 DEF NewGroup
  <2> QED BY <2>1, <2>2, <2>3
<1>6. Whole(1) \in Positive /\ Leq(Whole(1), Whole(1))
  BY WholeIsFraction, LeqIsOrder DEF Positive
<1>7. CASE current_observed <= Target
  <2>1. \A g \in kept : new(g) = Whole(1)
    BY <1>7
  <2> HIDE DEF new
  <2>2. \A g \in kept : UpdateRates[g].rate = Whole(1) /\ avg[g][1] > 0 /\ avg[g] \in Fractions
    BY <1>2, <1>5, <2>1 DEF Positive
  <2>3. Fair(UpdateRates)
    BY <1>3, <1>6, <2>2 DEF Fair, Positive
  <2>4. AllRated(UpdateRates)
    BY <1>1, <1>3, <1>5, <1>6, <2>2 DEF AllRated, Rated, Positive
  <2> QED BY <2>3, <2>4
<1>8. CASE ~(current_observed <= Target) /\ kept # {}
  <2>1. flat \in Positive /\ Leq(flat, Whole(1))
    <3>1. current_observed \in Nat \ {0} /\ Target \in Nat \ {0} /\ Target <= current_observed
      BY <1>8, CongressAssumption
    <3>2. flat \in Positive
      BY <3>1, FracIsFraction DEF Positive
    <3>3. Is(flat, Target, current_observed) /\ Is(Whole(1), 1, 1)
      BY <3>1, WholeIs DEF Is
    <3>4. Leq(flat, Whole(1)) <=> Target * 1 <= 1 * current_observed
      <4> HIDE DEF flat
      <4> QED BY <3>3, OrderIs
    <3> QED BY <3>1, <3>2, <3>4
  <2>2. senate \in Positive
    <3>1. Cardinality(kept) \in Nat
      BY <1>1, FS_CardinalityType
    <3>2. Cardinality(kept) # 0
      BY <1>1, <1>8, FS_EmptySet
    <3> QED BY <3>1, <3>2, CongressAssumption, FracIsFraction DEF Positive
  <2>3. PICK f, s : f = flat /\ s = senate
    OBVIOUS
  <2>4. f \in Positive /\ Leq(f, Whole(1)) /\ s \in Positive
    BY <2>1, <2>2, <2>3
  <2>5. \A g \in kept : seats[g] = Seats(avg[g], f, s)
    BY <2>3
  <2> HIDE DEF seats
  <2>6. \A g \in kept : avg[g] \in Positive /\ seats[g] \in Positive
    BY <1>2, <2>4, <2>5, SeatsAre
  <2>7. Seated(avg, seats, kept)
    BY <1>1, <1>8, <2>6 DEF Seated
  <2>8. PICK c : c = Scale(seats, kept)
    OBVIOUS
  <2>9. c \in Positive
    BY <2>7, <2>8, ScaleIs
  <2>10. \A g \in kept : new(g) = Rate(avg[g], seats[g], c)
    BY <1>8, <2>8
  <2> HIDE DEF new
  <2>11. ASSUME NEW g \in kept PROVE new(g) \in Positive /\ Leq(new(g), Whole(1))
    <3>1. Rate(avg[g], seats[g], c) \in Positive /\ Leq(Rate(avg[g], seats[g], c), Whole(1))
      BY <2>6, <2>9, RateIs
    <3> QED BY <2>10, <3>1
  <2>12. ASSUME NEW g \in kept, NEW h \in kept, Leq(avg[g], avg[h])
         PROVE  Leq(new(h), new(g))
    <3>1. Leq(Times(seats[h], avg[g]), Times(seats[g], avg[h]))
      BY <2>4, <2>5, <2>6, <2>12, SeatsAreFair
    <3>2. Leq(Rate(avg[h], seats[h], c), Rate(avg[g], seats[g], c))
      BY <2>6, <2>9, <3>1, RateIsFair
    <3> QED BY <2>10, <3>2
  <2>13. Leq(Total(Expected(UpdateRates), kept), Whole(Target))
    <3>1. PICK e : e = Expected(UpdateRates)
      OBVIOUS
    <3>2. \A g \in kept : e[g] = Times(avg[g], Rate(avg[g], seats[g], Scale(seats, kept)))
      BY <1>3, <1>5, <2>8, <2>10, <3>1 DEF Expected
    <3>3. Leq(Total(e, kept), Whole(Target))
      BY <2>7, <3>2, TargetIsMet
    <3> QED BY <3>1, <3>3
  <2>14. Fair(UpdateRates)
    BY <1>3, <1>5, <2>11, <2>12, <2>13 DEF Fair, Positive
  <2>15. AllRated(UpdateRates)
    <3>1. \A g \in kept : avg[g] \in Fractions /\ avg[g][1] > 0 /\ new(g) \in Fractions
      BY <2>6, <2>11 DEF Positive
    <3> QED BY <1>1, <1>3, <1>5, <3>1 DEF AllRated, Rated
  <2> QED BY <2>14, <2>15
<1>9. CASE kept = {}
  BY <1>1, <1>3, <1>9, <1>7, <1>8, FS_EmptySet DEF Fair, AllRated
<1> QED BY <1>7, <1>8, <1>9

(* An entry of g, whose state is s, turns the groups G into new. *)
Entered(G, g, s, new) ==
  /\ s = IF g \in DOMAIN G THEN G[g] ELSE NewGroup
  /\ new = [h \in DOMAIN G \cup {g} |->
              IF h = g THEN [s EXCEPT !.current_observed = @ + 1] ELSE G[h]]

LEMMA EntryKeepsFair ==
  ASSUME NEW G, AllRated(G), Fair(G), NEW g, NEW s, NEW new, Entered(G, g, s, new)
  PROVE  /\ AllRated(new) /\ Fair(new)
         /\ s.rate \in Fractions /\ s.rate[1] > 0 /\ Leq(s.rate, Whole(1))
<1>1. /\ DOMAIN new = DOMAIN G \cup {g}
      /\ \A h \in DOMAIN G : h # g => new[h] = G[h]
      /\ new[g] = [s EXCEPT !.current_observed = @ + 1]
  BY DEF Entered
<1>2. /\ Whole(1) \in Fractions /\ Whole(1)[1] > 0 /\ Leq(Whole(1), Whole(1))
      /\ Whole(0) \in Fractions /\ Whole(0)[1] = 0
  <2>1. Whole(1) \in Fractions /\ Whole(0) \in Fractions
    BY WholeIsFraction
  <2>2. Leq(Whole(1), Whole(1))
    BY <2>1, LeqIsOrder
  <2> QED BY <2>1, <2>2 DEF Whole
<1>3. /\ DOMAIN s = DOMAIN NewGroup /\ s.current_observed \in Nat /\ s.samples \in Nat
      /\ s.average \in Fractions /\ s.rate \in Fractions
      /\ s.average[1] = 0 => s.rate = Whole(1)
      /\ s.rate[1] > 0 /\ Leq(s.rate, Whole(1))
  <2>1. CASE g \in DOMAIN G
    BY <2>1 DEF AllRated, Rated, Fair, Entered
  <2>2. CASE g \notin DOMAIN G
    BY <1>2, <2>2 DEF NewGroup, Entered
  <2> QED BY <2>1, <2>2
<1>4. /\ DOMAIN new[g] = DOMAIN NewGroup /\ new[g].current_observed = s.current_observed + 1
      /\ new[g].samples = s.samples /\ new[g].average = s.average /\ new[g].rate = s.rate
  <2>1. {"current_observed", "samples", "average", "rate"} \subseteq DOMAIN s
    BY <1>3 DEF NewGroup
  <2> QED BY <1>1, <1>3, <2>1
<1>5. AllRated(new)
  <2>1. IsFiniteSet(DOMAIN new)
    BY <1>1, FS_AddElement DEF AllRated
  <2>2. Rated(new[g])
    BY <1>3, <1>4 DEF Rated
  <2> QED BY <1>1, <2>1, <2>2 DEF AllRated
<1>6. CASE g \in DOMAIN G
  <2>1. DOMAIN new = DOMAIN G
    BY <1>1, <1>6
  <2>2. \A h \in DOMAIN G : new[h].average = G[h].average /\ new[h].rate = G[h].rate
    BY <1>1, <1>4, <1>6 DEF Entered
  <2>3. Expected(new) = Expected(G)
    BY <2>1, <2>2 DEF Expected
  <2>4. Fair(new)
    BY <2>1, <2>2, <2>3 DEF Fair
  <2> QED BY <1>3, <1>5, <2>4
<1>7. CASE g \notin DOMAIN G
  <2>1. new[g].average = Whole(0) /\ new[g].rate = Whole(1)
    BY <1>4, <1>7 DEF NewGroup, Entered
  <2>2. \A h \in DOMAIN G : new[h] = G[h]
    BY <1>1, <1>7
  <2>3. \A h \in DOMAIN new : new[h].rate[1] > 0 /\ Leq(new[h].rate, Whole(1))
    BY <1>1, <1>2, <2>1, <2>2 DEF Fair
  <2>4. ASSUME NEW x \in DOMAIN new, NEW y \in DOMAIN new, Leq(new[x].average, new[y].average)
        PROVE  Leq(new[y].rate, new[x].rate)
    <3>1. CASE x = g
      BY <2>1, <2>3, <3>1
    <3>2. CASE x # g /\ y = g
      <4>1. /\ new[x].average \in Fractions /\ Leq(new[x].average, Whole(0))
            /\ new[x].average[1] = 0 => new[x].rate = Whole(1)
        BY <1>5, <2>1, <2>4, <3>2 DEF AllRated, Rated
      <4>2. new[x].average[1] = 0
        BY <1>2, <4>1, LeqIsOrder
      <4> QED BY <1>2, <2>1, <3>2, <4>1, <4>2
    <3>3. CASE x # g /\ y # g
      <4>1. x \in DOMAIN G /\ y \in DOMAIN G
        BY <1>1, <3>3
      <4> QED BY <2>2, <2>4, <4>1 DEF Fair
    <3> QED BY <3>1, <3>2, <3>3
  <2>5. ASSUME NEW x \in DOMAIN new, new[x].rate # Whole(1)
        PROVE  Leq(Total(Expected(new), DOMAIN new), Whole(Target))
    <3>1. x \in DOMAIN G
      BY <1>1, <2>1, <2>5
    <3>2. Leq(Total(Expected(G), DOMAIN G), Whole(Target))
      BY <2>2, <2>5, <3>1 DEF Fair
    <3>3. PICK e, n, K : e = Expected(G) /\ n = Expected(new) /\ K = DOMAIN G
      OBVIOUS
    <3>4. Given(e, K)
      <4>1. \A h \in K : G[h].average \in Fractions /\ G[h].rate \in Fractions
        BY <3>3 DEF AllRated, Rated
      <4>2. \A h \in K : Times(G[h].average, G[h].rate) \in Fractions
        BY <4>1, TimesIsFraction
      <4>3. \A h \in K : e[h] = Times(G[h].average, G[h].rate)
        BY <3>3 DEF Expected
      <4> QED BY <3>3, <4>2, <4>3 DEF Given, AllRated
    <3>5. n[g] = Whole(0) /\ \A h \in K : n[h] = e[h]
      <4>1. n[g] = Times(Whole(0), Whole(1))
        BY <1>1, <2>1, <3>3 DEF Expected
      <4>2. Times(Whole(0), Whole(1)) = Whole(0)
        BY <1>2, TimesZeroOne
      <4>3. \A h \in K : n[h] = e[h]
        BY <1>1, <2>2, <3>3 DEF Expected
      <4> QED BY <4>1, <4>2, <4>3
    <3>6. Total(n, K \cup {g}) = Total(e, K)
      BY <1>7, <3>3, <3>4, <3>5, TotalWithZero
    <3> QED BY <1>1, <3>2, <3>3, <3>6
  <2>6. Fair(new)
    BY <2>3, <2>4, <2>5 DEF Fair
  <2> QED BY <1>3, <1>5, <2>6
<1> QED BY <1>6, <1>7

LEMMA RatesInParts ==
  RatesInv <=>
    /\ AllRated(groups) /\ Fair(groups) /\ current_observed \in Nat
    /\ formatted.kept => Drawn(formatted.rate, formatted.n)
BY FairIsFair DEF RatesInv, AllRated

LEMMA FormatKeepsRates ==
  ASSUME RatesInv, NEW g \in Groups, Format(g)
  PROVE  RatesInv'
<1> DEFINE refreshed == IF elapsed THEN UpdateRates ELSE groups
           state == IF g \in DOMAIN refreshed THEN refreshed[g] ELSE NewGroup
<1>1. AllRated(groups) /\ Fair(groups) /\ current_observed \in Nat
  BY RatesInParts
<1>2. AllRated(refreshed) /\ Fair(refreshed)
  BY <1>1, UpdateRatesIsFair
<1>3. /\ groups' = [h \in DOMAIN refreshed \cup {g} |->
                      IF h = g THEN [state EXCEPT !.current_observed = @ + 1] ELSE refreshed[h]]
      /\ current_observed' = IF elapsed THEN 1 ELSE current_observed + 1
      /\ \/ \E n \in Multiplicities(state.rate) :
              formatted' = [kept |-> TRUE, rate |-> state.rate, n |-> n]
         \/ formatted' = [kept |-> FALSE]
  BY DEF Format
<1>4. PICK G, s, new : G = refreshed /\ s = state /\ new = groups'
  OBVIOUS
<1>5. AllRated(G) /\ Fair(G) /\ Entered(G, g, s, new)
  BY <1>2, <1>3, <1>4 DEF Entered
<1> HIDE DEF refreshed, state
<1>6. /\ AllRated(new) /\ Fair(new)
      /\ s.rate \in Fractions /\ s.rate[1] > 0 /\ Leq(s.rate, Whole(1))
  BY <1>5, EntryKeepsFair
<1>7. formatted'.kept => Drawn(formatted'.rate, formatted'.n)
  BY <1>3, <1>4, <1>6 DEF Drawn
<1>8. current_observed' \in Nat
  BY <1>1, <1>3
<1>9. AllRated(groups') /\ Fair(groups')
  BY <1>4, <1>6
<1>10. (RatesAreFair <=> Fair(groups))'
  BY FairIsFair, PTL
<1> QED BY <1>7, <1>8, <1>9, <1>10 DEF RatesInv, AllRated

-----------------------------------------------------------------------------
LEMMA RatesInvAlways == CongressSpec => []RatesInv
<1>1. CongressInit => RatesInv
  <2> SUFFICES ASSUME CongressInit PROVE RatesInv
    OBVIOUS
  <2>1. DOMAIN groups = {} /\ current_observed = 0 /\ ~formatted.kept
    BY DEF CongressInit
  <2>2. IsFiniteSet(DOMAIN groups)
    BY <2>1, FS_EmptySet
  <2> QED BY <2>1, <2>2, RatesInParts DEF AllRated, Fair
<1>2. RatesInv /\ [CongressNext]_congress_vars => RatesInv'
  <2> SUFFICES ASSUME RatesInv, [CongressNext]_congress_vars PROVE RatesInv'
    OBVIOUS
  <2>1. CASE IntervalEnds \/ UNCHANGED congress_vars
    <3>1. groups' = groups /\ current_observed' = current_observed /\ formatted' = formatted
      BY <2>1 DEF IntervalEnds, congress_vars
    <3> QED BY <3>1 DEF RatesInv, RatesAreFair
  <2>2. CASE \E g \in Groups : Format(g)
    BY <2>2, FormatKeepsRates
  <2> QED BY <2>1, <2>2 DEF CongressNext
<1> QED BY <1>1, <1>2, PTL DEF CongressSpec

(* The rates of CongressSample::update_rates, for any groups, target, window and  *)
(* load: none is zero or above one, no group is sampled harder than a more        *)
(* frequent one, and when anything is dropped the expected output of an average   *)
(* interval is within target_observed.                                         *)
THEOREM CongressIsFair == CongressSpec => []RatesAreFair
<1>1. RatesInv => RatesAreFair
  BY DEF RatesInv
<1> QED BY <1>1, RatesInvAlways, PTL

(* The multiplicity that rate_to_n draws for a kept entry is 1 / rate on average, *)
(* from outcomes that both have their probability in (0, 1], for every rate that  *)
(* the sampler can give.                                                       *)
THEOREM SamplingIsUnbiased == CongressSpec => []WeightsAreUnbiased
<1>1. RatesInv => WeightsAreUnbiased
  <2> SUFFICES ASSUME RatesInv, formatted.kept PROVE WeightsAreUnbiased
    BY DEF WeightsAreUnbiased
  <2>1. PICK rate, k : rate = formatted.rate /\ k = formatted.n
    OBVIOUS
  <2>2. Drawn(rate, k)
    BY <2>1 DEF RatesInv
  <2> QED BY <2>1, <2>2, WeightIsUnbiased DEF WeightsAreUnbiased
<1> QED BY <1>1, RatesInvAlways, PTL
=============================================================================
