----------------------------- MODULE EngineProofs -----------------------------
(***************************************************************************)
(* Theorems about Engine and the arithmetic of Market.                     *)
(***************************************************************************)
EXTENDS Engine, FiniteSetTheorems, TLAPS

-----------------------------------------------------------------------------
(* Sums.  SumFunctionOnSet(f, S) takes the members of S away one by one; what *)
(* it comes to is shown for the least set on which it would come to something *)
(* else.                                                                     *)

Total(f, S) == SumFunctionOnSet(f, S)

Some(S) == CHOOSE x \in S : TRUE

\* The partial sums over the members of a family of sets.
Adds(g, f, D) ==
  g = [T \in D |-> IF T = {} THEN 0 ELSE f[Some(T)] + g[T \ {Some(T)}]]

LEMMA TotalIs == \A f, S : Total(f, S) = (CHOOSE g : Adds(g, f, SUBSET S))[S]
BY DEF Total, SumFunctionOnSet, FoldFunctionOnSet, MapThenFoldSet, Adds, Some

\* Of the subsets of a finite set that are in a class there is a least.
LEMMA LeastSet ==
  ASSUME NEW S, IsFiniteSet(S), NEW Bad, Bad \subseteq SUBSET S, Bad # {}
  PROVE  \E T \in Bad : \A U \in Bad : U \subseteq T => U = T
<1>1. IsWellFoundedOn(StrictSubsetOrdering(S), SUBSET S)
  BY FS_StrictSubsetOrderingWellFounded, FS_FiniteSubsetsOfFinite
<1>2. PICK T \in Bad : \A U \in Bad : <<U, T>> \notin StrictSubsetOrdering(S)
  BY <1>1, WFMin
<1>3. \A U \in Bad : U \subseteq T => U = T
  BY <1>2 DEF StrictSubsetOrdering
<1> QED  BY <1>3

\* What holds of a set as soon as it holds of the set without any one member
\* holds of every finite set.
LEMMA SetsGrow ==
  ASSUME NEW S, IsFiniteSet(S), NEW Good,
         \A T \in SUBSET S : (\A x \in T : T \ {x} \in Good) => T \in Good
  PROVE  \A T \in SUBSET S : T \in Good
<1> DEFINE Bad == {T \in SUBSET S : T \notin Good}
<1> SUFFICES ASSUME Bad # {}  PROVE FALSE
  OBVIOUS
<1>1. PICK T \in Bad : \A U \in Bad : U \subseteq T => U = T
  <2>1. Bad \subseteq SUBSET S
    OBVIOUS
  <2> HIDE DEF Bad
  <2> QED  BY <2>1, LeastSet
<1>2. ASSUME NEW x \in T  PROVE T \ {x} \in Good
  <2>1. T \ {x} \subseteq T /\ T \ {x} # T /\ T \ {x} \in SUBSET S
    OBVIOUS
  <2> QED  BY <1>1, <2>1
<1>3. T \in SUBSET S /\ T \notin Good
  BY <1>1
<1> QED  BY <1>2, <1>3

LEMMA AddsOnce ==
  ASSUME NEW f, NEW A, NEW B, IsFiniteSet(A), IsFiniteSet(B), NEW g, NEW h,
         Adds(g, f, SUBSET A), Adds(h, f, SUBSET B)
  PROVE  \A T \in SUBSET (A \cap B) : g[T] = h[T]
<1> DEFINE Bad == {T \in SUBSET (A \cap B) : g[T] # h[T]}
<1> SUFFICES ASSUME Bad # {}  PROVE FALSE
  OBVIOUS
<1>1. IsFiniteSet(A \cap B)
  BY FS_Subset
<1>0. Bad \subseteq SUBSET (A \cap B)
  OBVIOUS
<1>2. PICK T \in Bad : \A U \in Bad : U \subseteq T => U = T
  <2> HIDE DEF Bad
  <2> QED  BY <1>0, <1>1, LeastSet
<1>3. g[T] = IF T = {} THEN 0 ELSE f[Some(T)] + g[T \ {Some(T)}]
  BY DEF Adds
<1>4. h[T] = IF T = {} THEN 0 ELSE f[Some(T)] + h[T \ {Some(T)}]
  BY DEF Adds
<1>5. CASE T # {}
  <2>1. Some(T) \in T
    BY <1>5 DEF Some
  <2>2. T \ {Some(T)} \notin Bad
    BY <1>2, <2>1
  <2>3. g[T \ {Some(T)}] = h[T \ {Some(T)}]
    BY <2>2
  <2> QED  BY <1>3, <1>4, <1>5, <2>3
<1> QED  BY <1>3, <1>4, <1>5

\* The sum of a set is a member and the sum of the others.
LEMMA TotalUnfolds ==
  ASSUME NEW f, NEW S, IsFiniteSet(S)
  PROVE  Total(f, S) = IF S = {} THEN 0 ELSE f[Some(S)] + Total(f, S \ {Some(S)})
<1> DEFINE Bad == {T \in SUBSET S : ~\E g : Adds(g, f, SUBSET T)}
<1>1. ASSUME NEW T \in SUBSET S, \E g : Adds(g, f, SUBSET T)
      PROVE  Adds(CHOOSE g : Adds(g, f, SUBSET T), f, SUBSET T)
  BY <1>1
<1>2. ASSUME NEW T \in SUBSET S, NEW g, Adds(g, f, SUBSET T), NEW U \in SUBSET T,
             \A V \in SUBSET T : \E h : Adds(h, f, SUBSET V)
      PROVE  g[U] = Total(f, U)
  <2>1. PICK h : h = CHOOSE x : Adds(x, f, SUBSET U)
    OBVIOUS
  <2>2. Adds(h, f, SUBSET U)
    BY <1>2, <2>1
  <2>3. IsFiniteSet(U) /\ IsFiniteSet(T)
    BY FS_Subset
  <2>4. \A W \in SUBSET (T \cap U) : g[W] = h[W]
    BY <1>2, <2>2, <2>3, AddsOnce
  <2> QED  BY <2>1, <2>4, TotalIs
<1>3. Bad = {}
  <2> SUFFICES ASSUME Bad # {}  PROVE FALSE
    OBVIOUS
  <2>0. Bad \subseteq SUBSET S
    OBVIOUS
  <2>1. PICK T \in Bad : \A U \in Bad : U \subseteq T => U = T
    <3> HIDE DEF Bad
    <3> QED  BY <2>0, LeastSet
  <2> DEFINE g == [U \in SUBSET T |-> IF U = {} THEN 0 ELSE f[Some(U)] + Total(f, U \ {Some(U)})]
  <2>2. ASSUME NEW V \in SUBSET T, V # T  PROVE g[V] = Total(f, V)
    <3>1. \A U \in SUBSET V : \E h : Adds(h, f, SUBSET U)
      BY <2>1, <2>2
    <3>2. PICK h : Adds(h, f, SUBSET V)
      BY <3>1
    <3>3. \A U \in SUBSET V : h[U] = Total(f, U)
      BY <1>2, <3>1, <3>2
    <3>4. h[V] = IF V = {} THEN 0 ELSE f[Some(V)] + h[V \ {Some(V)}]
      BY <3>2 DEF Adds
    <3> QED  BY <3>3, <3>4
  <2>3. ASSUME NEW U \in SUBSET T, U # {}  PROVE g[U \ {Some(U)}] = Total(f, U \ {Some(U)})
    <3>1. Some(U) \in U
      BY <2>3 DEF Some
    <3> QED  BY <2>2, <3>1
  <2>4. Adds(g, f, SUBSET T)
    <3>1. \A U \in SUBSET T : g[U] = IF U = {} THEN 0 ELSE f[Some(U)] + g[U \ {Some(U)}]
      BY <2>3
    <3> QED  BY <3>1 DEF Adds
  <2> QED  BY <2>4
<1>4. PICK g : Adds(g, f, SUBSET S)
  BY <1>3
<1>5. \A U \in SUBSET S : g[U] = Total(f, U)
  BY <1>2, <1>3, <1>4
<1>6. g[S] = IF S = {} THEN 0 ELSE f[Some(S)] + g[S \ {Some(S)}]
  BY <1>4 DEF Adds
<1> QED  BY <1>5, <1>6

LEMMA TotalEmpty == \A f : Total(f, {}) = 0
BY TotalUnfolds, FS_EmptySet

LEMMA TotalInt ==
  ASSUME NEW S, IsFiniteSet(S), NEW f, \A x \in S : f[x] \in Int
  PROVE  Total(f, S) \in Int
<1> DEFINE Good == {T \in SUBSET S : Total(f, T) \in Int}
<1>1. ASSUME NEW T \in SUBSET S, \A x \in T : T \ {x} \in Good  PROVE T \in Good
  <2>1. IsFiniteSet(T) /\ (T # {} => Some(T) \in T)
    BY FS_Subset DEF Some
  <2>2. CASE T = {}
    BY <2>2, TotalEmpty
  <2>3. CASE T # {}
    <3>1. Total(f, T) = f[Some(T)] + Total(f, T \ {Some(T)})
      BY <2>1, <2>3, TotalUnfolds
    <3>2. f[Some(T)] \in Int /\ Total(f, T \ {Some(T)}) \in Int
      BY <1>1, <2>1, <2>3
    <3> QED  BY <3>1, <3>2
  <2> QED  BY <2>2, <2>3
<1>2. \A T \in SUBSET S : T \in Good
  <2> HIDE DEF Good
  <2> QED  BY <1>1, SetsGrow
<1> QED  BY <1>2

\* ... and whichever member is taken.
LEMMA TotalTakes ==
  ASSUME NEW S, IsFiniteSet(S), NEW f, \A x \in S : f[x] \in Int
  PROVE  \A x \in S : Total(f, S) = f[x] + Total(f, S \ {x})
<1> DEFINE Fits(T) == \A y \in T : Total(f, T) = f[y] + Total(f, T \ {y})
           Good == {T \in SUBSET S : Fits(T)}
<1>1. ASSUME NEW T \in SUBSET S, \A x \in T : T \ {x} \in Good  PROVE T \in Good
  <2>1. CASE T = {}
    BY <2>1, TotalEmpty
  <2>2. CASE T # {}
    <3>1. PICK c \in T : c = Some(T)
      BY <2>2 DEF Some
    <3>2. IsFiniteSet(T)
      BY FS_Subset
    <3>3. Total(f, T) = f[c] + Total(f, T \ {c})
      BY <2>2, <3>1, <3>2, TotalUnfolds
    <3>4. \A U \in SUBSET T : Total(f, U) \in Int
      BY <3>2, FS_Subset, TotalInt
    <3>5. ASSUME NEW y \in T, y # c  PROVE Total(f, T) = f[y] + Total(f, T \ {y})
      <4> DEFINE U == (T \ {c}) \ {y}
      <4>1. U = (T \ {y}) \ {c}
        OBVIOUS
      <4>2. Total(f, T \ {c}) = f[y] + Total(f, U)
        BY <1>1, <3>5
      <4>3. Total(f, T \ {y}) = f[c] + Total(f, U)
        BY <1>1, <3>5, <4>1
      <4>4. f[y] \in Int /\ f[c] \in Int /\ U \in SUBSET T
        OBVIOUS
      <4>5. Total(f, U) \in Int
        BY <3>4, <4>4
      <4> HIDE DEF U
      <4> QED  BY <3>3, <4>2, <4>3, <4>4, <4>5
    <3> QED  BY <3>3, <3>5
  <2> QED  BY <2>1, <2>2
<1>2. \A T \in SUBSET S : T \in Good
  <2> HIDE DEF Good
  <2> QED  BY <1>1, SetsGrow
<1> QED  BY <1>2

LEMMA TotalNat ==
  ASSUME NEW S, IsFiniteSet(S), NEW f, \A x \in S : f[x] \in Nat
  PROVE  Total(f, S) \in Nat
<1> DEFINE Good == {T \in SUBSET S : Total(f, T) \in Nat}
<1>1. ASSUME NEW T \in SUBSET S, \A x \in T : T \ {x} \in Good  PROVE T \in Good
  <2>1. IsFiniteSet(T) /\ \A x \in T : f[x] \in Int /\ f[x] \in Nat
    BY FS_Subset
  <2>2. \A x \in T : Total(f, T) = f[x] + Total(f, T \ {x})
    BY <2>1, TotalTakes
  <2>3. CASE T = {}
    BY <2>3, TotalEmpty
  <2>4. ASSUME NEW x \in T  PROVE Total(f, T) \in Nat
    <3>1. f[x] \in Nat /\ Total(f, T \ {x}) \in Nat
      BY <1>1, <2>1
    <3> QED  BY <2>2, <3>1
  <2> QED  BY <2>3, <2>4
<1>2. \A T \in SUBSET S : T \in Good
  <2> HIDE DEF Good
  <2> QED  BY <1>1, SetsGrow
<1> QED  BY <1>2

\* Sums of functions that are the same on the set are the same.
LEMMA TotalSame ==
  ASSUME NEW S, IsFiniteSet(S), NEW f, NEW g, \A x \in S : f[x] = g[x]
  PROVE  Total(f, S) = Total(g, S)
<1> DEFINE Good == {T \in SUBSET S : Total(f, T) = Total(g, T)}
<1>1. ASSUME NEW T \in SUBSET S, \A x \in T : T \ {x} \in Good  PROVE T \in Good
  <2>1. IsFiniteSet(T)
    BY FS_Subset
  <2>2. T # {} => Some(T) \in T
    BY DEF Some
  <2>3. CASE T = {}
    BY <2>3, TotalEmpty
  <2>4. CASE T # {}
    <3>1. Total(f, T) = f[Some(T)] + Total(f, T \ {Some(T)}) /\ Total(g, T) = g[Some(T)] + Total(g, T \ {Some(T)})
      BY <2>1, <2>4, TotalUnfolds
    <3> QED  BY <1>1, <2>2, <2>4, <3>1
  <2> QED  BY <2>3, <2>4
<1>2. \A T \in SUBSET S : T \in Good
  <2> HIDE DEF Good
  <2> QED  BY <1>1, SetsGrow
<1> QED  BY <1>2

\* What is zero outside of a part sums up to the sum of the part, and what is
\* nowhere negative to no less.
LEMMA TotalPart ==
  ASSUME NEW S, IsFiniteSet(S), NEW A \in SUBSET S, NEW f, \A x \in S : f[x] \in Nat
  PROVE  /\ Total(f, A) <= Total(f, S)
         /\ (\A x \in S \ A : f[x] = 0) => Total(f, S) = Total(f, A)
<1> DEFINE Fits(T) == /\ Total(f, A \cap T) <= Total(f, T)
                      /\ (\A x \in S \ A : f[x] = 0) => Total(f, T) = Total(f, A \cap T)
           Good == {T \in SUBSET S : Fits(T)}
<1>1. ASSUME NEW T \in SUBSET S, \A x \in T : T \ {x} \in Good  PROVE T \in Good
  <2>1. CASE T = {}
    <3>1. A \cap T = {} /\ Total(f, {}) = 0
      BY <2>1, TotalEmpty
    <3> QED  BY <2>1, <3>1
  <2>2. ASSUME NEW x \in T  PROVE Fits(T)
    <3> DEFINE U == T \ {x}
    <3>1. IsFiniteSet(T) /\ IsFiniteSet(A \cap T) /\ IsFiniteSet(U) /\ IsFiniteSet(A \cap U)
      BY FS_Subset
    <3>2. Total(f, T) = f[x] + Total(f, U) /\ f[x] \in Nat /\ Total(f, U) \in Nat
          /\ Total(f, A \cap U) \in Nat
      BY <3>1, TotalTakes, TotalNat
    <3>3. Total(f, A \cap T) = IF x \in A THEN f[x] + Total(f, A \cap U) ELSE Total(f, A \cap U)
      <4>1. CASE x \in A
        <5>1. x \in A \cap T /\ A \cap U = (A \cap T) \ {x} /\ \A y \in A \cap T : f[y] \in Int
          BY <4>1
        <5> QED  BY <4>1, <5>1, <3>1, TotalTakes
      <4>2. CASE x \notin A
        <5>1. A \cap U = A \cap T
          BY <4>2
        <5> QED  BY <4>2, <5>1
      <4> QED  BY <4>1, <4>2
    <3>4. Fits(U)
      BY <1>1
    <3>5. x \in A \/ x \in S \ A
      OBVIOUS
    <3>6. (\A y \in S \ A : f[y] = 0) => x \in A \/ f[x] = 0
      BY <3>5
    <3> HIDE DEF U
    <3> QED  BY <3>2, <3>3, <3>4, <3>6
  <2> QED  BY <2>1, <2>2
<1>2. S \in Good
  <2> HIDE DEF Good
  <2> QED  BY <1>1, SetsGrow
<1>3. A \cap S = A
  OBVIOUS
<1> QED  BY <1>2, <1>3

\* Each entry times k is the sum times k.
LEMMA TotalTimes ==
  ASSUME NEW S, IsFiniteSet(S), NEW f, \A x \in S : f[x] \in Nat,
         NEW k \in Nat, NEW g, \A x \in S : g[x] = k * f[x]
  PROVE  Total(g, S) = k * Total(f, S)
<1> DEFINE Good == {T \in SUBSET S : Total(g, T) = k * Total(f, T)}
<1>1. ASSUME NEW T \in SUBSET S, \A x \in T : T \ {x} \in Good  PROVE T \in Good
  <2>1. IsFiniteSet(T) /\ \A x \in T : f[x] \in Int /\ g[x] \in Int
    BY FS_Subset
  <2>2. CASE T = {}
    BY <2>2, TotalEmpty
  <2>3. ASSUME NEW x \in T  PROVE Total(g, T) = k * Total(f, T)
    <3>1. Total(f, T) = f[x] + Total(f, T \ {x}) /\ Total(g, T) = g[x] + Total(g, T \ {x})
      BY <2>1, TotalTakes
    <3>2. Total(g, T \ {x}) = k * Total(f, T \ {x}) /\ g[x] = k * f[x]
      BY <1>1
    <3>3. f[x] \in Nat /\ Total(f, T \ {x}) \in Nat
      <4>1. IsFiniteSet(T \ {x})
        BY <2>1, FS_Subset
      <4> QED  BY <4>1, TotalNat
    <3>4. \A a, b \in Nat : k * (a + b) = k * a + k * b
      OBVIOUS
    <3> QED  BY <3>1, <3>2, <3>3, <3>4
  <2> QED  BY <2>2, <2>3
<1>2. \A T \in SUBSET S : T \in Good
  <2> HIDE DEF Good
  <2> QED  BY <1>1, SetsGrow
<1> QED  BY <1>2

-----------------------------------------------------------------------------
(* The arithmetic of a round.  Nothing it counts turns negative.            *)

LEMMA ListFinite ==
  ASSUME NEW n \in Nat, NEW R, NEW f \in [1..n -> R]
  PROVE  IsFiniteSet({f[i] : i \in 1..n})
<1> DEFINE T == {f[i] : i \in 1..n}
<1>1. f \in [1..n -> T]
  OBVIOUS
<1>2. f \in Surjection(1..n, T)
  BY <1>1 DEF Surjection
<1>3. IsFiniteSet(1..n)
  BY FS_Interval
<1> HIDE DEF T
<1>4. IsFiniteSet(T)
  BY <1>2, <1>3, FS_Surjection
<1> QED  BY <1>4 DEF T

LEMMA EventTypeFinite == IsFiniteSet(EventType)
<1> DEFINE f == << "OPERATIONAL_FAILURE", "REGULATORY_CHANGE", "COMPETITOR_PROMOTION",
                   "REPUTATION_DAMAGE", "LOT_CONTAMINATION", "INVENTORY_THEFT",
                   "PAYMENT_SYSTEM_FAILURE", "CYBER_ATTACK", "DATA_BREACH",
                   "LOGISTICS_PROBLEM", "POWER_OUTAGE", "DEMAND_SURGE",
                   "CLIMATE_EVENT", "INPUT_COST_INCREASE" >>
<1>1. IsFiniteSet({f[i] : i \in 1..14})
  <2>1. f \in [1..14 -> EventType]
    BY DEF EventType, BaseRisk
  <2> HIDE DEF f
  <2> QED  BY <2>1, ListFinite
<1>2. EventType \subseteq {f[i] : i \in 1..14}
  BY DEF EventType, BaseRisk
<1> QED  BY <1>1, <1>2, FS_Subset

LEMMA CapexFinite == IsFiniteSet(Capex)
<1> DEFINE f == <<"SECURITY", "FREEZER", "SITE", "SELF_CHECKOUT", "NETWORK", "AUTOMATION">>
<1>1. IsFiniteSet({f[i] : i \in 1..6})
  <2>1. f \in [1..6 -> CapexType]
    BY DEF CapexType
  <2> HIDE DEF f
  <2> QED  BY <2>1, ListFinite
<1>2. Capex \subseteq {f[i] : i \in 1..6}
  BY MarketAssumption DEF CapexType
<1> QED  BY <1>1, <1>2, FS_Subset

\* The tables of effects are numbers by event.
Tables == {DaysOf, FineOf, CsatLossOf, DemandLossOf, PerishableLossOf, TheftOf, ShortageOf,
           CostIncreaseOf}

LEMMA TablesOK == \A t \in Tables : DOMAIN t \subseteq EventType /\ \A e \in DOMAIN t : t[e] \in Nat
BY DEF Tables, EventType, BaseRisk, DaysOf, FineOf, CsatLossOf, DemandLossOf, PerishableLossOf,
       TheftOf, ShortageOf, CostIncreaseOf

LEMMA EffectNat ==
  ASSUME NEW t \in Tables, NEW happened
  PROVE  Effect(t, happened) \in Nat /\ Effect(t, happened) <= Total(t, DOMAIN t)
         /\ Effect(t, happened) = Total(t, happened \cap DOMAIN t)
<1>1. IsFiniteSet(DOMAIN t) /\ IsFiniteSet(happened \cap DOMAIN t)
  BY TablesOK, EventTypeFinite, FS_Subset
<1>2. Effect(t, happened) = Total(t, happened \cap DOMAIN t)
  BY DEF Effect, Total
<1>3. \A e \in DOMAIN t : t[e] \in Nat
  BY TablesOK
<1>4. happened \cap DOMAIN t \in SUBSET DOMAIN t
  OBVIOUS
<1> QED  BY <1>1, <1>2, <1>3, <1>4, TotalNat, TotalPart

\* At most everything that takes of the goods or of the demand happens at once.
LEMMA EffectBounds ==
  ASSUME NEW happened
  PROVE  /\ Effect(TheftOf, happened) \in 0..10 /\ Effect(PerishableLossOf, happened) \in 0..45
         /\ Effect(ShortageOf, happened) \in 0..20 /\ Effect(DemandLossOf, happened) \in 0..25
<1>1. \A x : Total(TheftOf, {"INVENTORY_THEFT"}) = 10 /\ Total(ShortageOf, {"LOGISTICS_PROBLEM"}) = 20
  <2>1. \A x : IsFiniteSet({x}) /\ {x} \ {x} = {}
    BY FS_Singleton
  <2>2. \A f, x : f[x] \in Int => Total(f, {x}) = f[x]
    <3>1. ASSUME NEW f, NEW x, f[x] \in Int  PROVE Total(f, {x}) = f[x]
      <4>1. Total(f, {x}) = f[x] + Total(f, {x} \ {x})
        BY <3>1, <2>1, TotalTakes
      <4> QED  BY <3>1, <4>1, <2>1, TotalEmpty
    <3> QED  BY <3>1
  <2> QED  BY <2>2 DEF TheftOf, ShortageOf
<1>2. ASSUME NEW f, NEW x, NEW y, x # y, f[x] \in Int, f[y] \in Int  PROVE Total(f, {x, y}) = f[x] + f[y]
  <2>1. IsFiniteSet({x, y}) /\ IsFiniteSet({y})
    <3>1. IsFiniteSet({y}) /\ {x, y} = {y} \cup {x}
      BY FS_Singleton
    <3> QED  BY <3>1, FS_AddElement
  <2>2. Total(f, {x, y}) = f[x] + Total(f, {x, y} \ {x}) /\ Total(f, {y}) = f[y] + Total(f, {y} \ {y})
    <3>1. (\A z \in {x, y} : f[z] \in Int) /\ \A z \in {y} : f[z] \in Int
      BY <1>2
    <3> QED  BY <2>1, <3>1, TotalTakes
  <2>3. {x, y} \ {x} = {y} /\ {y} \ {y} = {}
    BY <1>2
  <2>4. Total(f, {x, y}) = f[x] + Total(f, {y}) /\ Total(f, {y}) = f[y] + 0
    BY <2>2, <2>3, TotalEmpty
  <2> QED  BY <1>2, <2>4
<1>3. Total(PerishableLossOf, {"LOT_CONTAMINATION", "CLIMATE_EVENT"}) = 45
  BY <1>2 DEF PerishableLossOf
<1>4. Total(DemandLossOf, {"COMPETITOR_PROMOTION", "CLIMATE_EVENT"}) = 25
  BY <1>2 DEF DemandLossOf
<1>5. /\ DOMAIN TheftOf = {"INVENTORY_THEFT"} /\ DOMAIN ShortageOf = {"LOGISTICS_PROBLEM"}
      /\ DOMAIN PerishableLossOf = {"LOT_CONTAMINATION", "CLIMATE_EVENT"}
      /\ DOMAIN DemandLossOf = {"COMPETITOR_PROMOTION", "CLIMATE_EVENT"}
  BY DEF TheftOf, ShortageOf, PerishableLossOf, DemandLossOf
<1>6. {TheftOf, ShortageOf, PerishableLossOf, DemandLossOf} \subseteq Tables
  BY DEF Tables
<1>7. ASSUME NEW t \in Tables, NEW n \in Nat, Total(t, DOMAIN t) = n  PROVE Effect(t, happened) \in 0..n
  <2>1. Effect(t, happened) \in Nat /\ Effect(t, happened) <= n
    BY <1>7, EffectNat
  <2> QED  BY <2>1
<1> QED  BY <1>1, <1>3, <1>4, <1>5, <1>6, <1>7

\* What is kept of a number of units after a loss of some per cent.
LEMMA KeptNat ==
  ASSUME NEW n \in Nat, NEW loss \in 0..100
  PROVE  (n * (100 - loss)) \div 100 \in Nat
<1>1. 100 - loss \in Nat
  OBVIOUS
<1>2. n * (100 - loss) \in Nat
  <2> DEFINE k == 100 - loss
  <2>1. k \in Nat
    BY <1>1
  <2> HIDE DEF k
  <2>2. n * k \in Nat
    BY <2>1
  <2> QED  BY <2>2 DEF k
<1>3. \A m \in Nat : m \div 100 \in Nat
  OBVIOUS
<1> QED  BY <1>2, <1>3

LEMMA DeliveredNat ==
  ASSUME NEW plan \in Decisions, NEW happened, NEW c \in Categories
  PROVE  Delivered(plan, happened, c) \in Nat
<1> DEFINE Keep(n, loss) == (n * (100 - loss)) \div 100
           a == Keep(plan.bought[c], Effect(TheftOf, happened))
           b == IF c \in Perishable THEN Keep(a, Effect(PerishableLossOf, happened)) ELSE a
<1>1. plan.bought[c] \in Nat
  BY DEF Decisions
<1>2. /\ Effect(TheftOf, happened) \in 0..100 /\ Effect(PerishableLossOf, happened) \in 0..100
      /\ Effect(ShortageOf, happened) \in 0..100
  BY EffectBounds
<1>3. a \in Nat
  BY <1>1, <1>2, KeptNat
<1> HIDE DEF a
<1>4. b \in Nat
  BY <1>2, <1>3, KeptNat
<1> HIDE DEF b
<1>5. Keep(b, Effect(ShortageOf, happened)) \in Nat
  BY <1>2, <1>4, KeptNat
<1> QED  BY <1>5 DEF Delivered, a, b

LEMMA ProductNat == \A m, n \in Nat : m * n \in Nat
OBVIOUS

LEMMA PricesNat ==
  ASSUME NEW plan \in Decisions, NEW happened, NEW c \in Categories
  PROVE  CostPaid(happened, c) \in Nat /\ Price(plan, happened, c) \in Nat
<1>1. UnitCost[c] \in Nat /\ 10 + plan.margin[c] \in Nat
  BY MarketAssumption DEF Decisions
<1>2. 20 + Effect(CostIncreaseOf, happened) \div 5 \in Nat
  <2>1. Effect(CostIncreaseOf, happened) \in Nat
    BY EffectNat DEF Tables
  <2>2. \A m \in Nat : 20 + m \div 5 \in Nat
    OBVIOUS
  <2> QED  BY <2>1, <2>2
<1>3. CostPaid(happened, c) \in Nat
  BY <1>1, <1>2, ProductNat DEF CostPaid
<1> QED  BY <1>1, <1>3, ProductNat DEF Price

\* Sums over the categories.
LEMMA CategorySum ==
  ASSUME NEW f \in [Categories -> Nat]
  PROVE  SumFunction(f) \in Nat
<1>1. Total(f, Categories) \in Nat
  BY MarketAssumption, TotalNat
<1>2. DOMAIN f = Categories
  OBVIOUS
<1> QED  BY <1>1, <1>2 DEF SumFunction, Total

LEMMA UnitsNat ==
  ASSUME NEW plan \in Decisions, NEW happened
  PROVE  Units(plan, happened) \in Nat
<1>1. [c \in Categories |-> Delivered(plan, happened, c)] \in [Categories -> Nat]
  BY DeliveredNat
<1> QED  BY <1>1, CategorySum DEF Units

LEMMA BasketNat ==
  ASSUME NEW plan \in Decisions, NEW happened
  PROVE  BasketPrice(plan, happened) \in Quotient /\ Availability(plan, happened) \in Quotient
<1>1. [c \in Categories |-> Delivered(plan, happened, c) * Price(plan, happened, c)] \in [Categories -> Nat]
  BY DeliveredNat, PricesNat, ProductNat
<1>2. OnOffer \in [Categories -> Nat]
  BY MarketAssumption
<1>3. SumFunction(OnOffer) \in Nat
  BY <1>2, CategorySum
<1>4. SumFunction([c \in Categories |-> Delivered(plan, happened, c) * Price(plan, happened, c)]) \in Nat
  BY <1>1, CategorySum
<1> QED  BY <1>3, <1>4, UnitsNat DEF BasketPrice, Availability, Quotient

LEMMA CapacityBounds ==
  ASSUME NEW plan \in Decisions
  PROVE  Capacity(plan) \in 0..10000
<1>1. plan.cashier \in Nat
  BY DEF Decisions
<1> QED  BY <1>1 DEF Capacity

LEMMA CsatBounds ==
  ASSUME NEW plan \in Decisions, NEW happened, NEW mark \in Nat
  PROVE  Csat(plan, mark, happened) \in 0..10000
<1>1. plan.cashier * mark * 10 \in Int
  <2>1. plan.cashier \in Nat
    BY DEF Decisions
  <2>2. plan.cashier * mark \in Nat
    BY <2>1, ProductNat
  <2> QED  BY <2>2
<1>2. Effect(CsatLossOf, happened) \in Nat
  BY EffectNat DEF Tables
<1>3. OverflowLoss(plan, happened) \in Int
  <2>1. \A n \in 0..10000 : (10000 - n) \div 40 \in Int
    OBVIOUS
  <2>2. (10000 - Capacity(plan)) \div 40 \in Int
    <3>1. PICK n \in 0..10000 : n = Capacity(plan)
      BY CapacityBounds
    <3> QED  BY <2>1, <3>1
  <2>3. CASE "DEMAND_SURGE" \in happened
    BY <2>2, <2>3 DEF OverflowLoss
  <2>4. CASE "DEMAND_SURGE" \notin happened
    <3>1. OverflowLoss(plan, happened) = 0
      BY <2>4 DEF OverflowLoss
    <3> QED  BY <3>1
  <2> QED  BY <2>3, <2>4
<1> DEFINE x == Clamp(plan.cashier * mark * 10)
           y == Effect(CsatLossOf, happened)
           z == OverflowLoss(plan, happened)
<1>4. x \in Int /\ y \in Int /\ z \in Int
  <2>1. x \in 0..10000
    <3>1. PICK n \in Int : n = plan.cashier * mark * 10
      BY <1>1
    <3>2. x = IF n < 0 THEN 0 ELSE IF n > 10000 THEN 10000 ELSE n
      BY <3>1 DEF Clamp
    <3> HIDE DEF x
    <3> QED  BY <3>2
  <2>2. y \in Nat /\ z \in Int
    BY <1>2, <1>3
  <2> HIDE DEF x, y, z
  <2> QED  BY <2>1, <2>2
<1>5. Csat(plan, mark, happened) = Clamp(x - 100 * y - z)
  BY DEF Csat
<1> HIDE DEF x, y, z
<1>6. PICK n \in Int : n = x - 100 * y - z
  BY <1>4
<1>7. Csat(plan, mark, happened) = IF n < 0 THEN 0 ELSE IF n > 10000 THEN 10000 ELSE n
  BY <1>5, <1>6 DEF Clamp
<1> QED  BY <1>7

\* What a store sells is no more than what it was delivered.
LEMMA SalesNat ==
  ASSUME NEW plan \in Decisions, NEW happened, NEW score \in Nat, NEW total \in Nat
  PROVE  /\ \A c \in Categories : /\ Sold(score, total, plan, happened, c) \in Nat
                                  /\ Unsold(score, total, plan, happened, c) \in Nat
         /\ CostOfGoods(score, total, plan, happened) \in Nat
         /\ GrossRevenue(score, total, plan, happened) \in Nat
<1>1. Demand(score, plan, happened) \in Nat
  <2>1. 20 - Effect(DemandLossOf, happened) \div 5 \in Nat
    <3>1. \A n \in 0..25 : 20 - n \div 5 \in Nat
      OBVIOUS
    <3> QED  BY <3>1, EffectBounds
  <2>2. 200 + DemandBonus(plan, happened) \in Nat
    <3>1. \A n \in 0..10000 : 200 + n \div 200 \in Nat
      OBVIOUS
    <3>2. 200 + Capacity(plan) \div 200 \in Nat
      <4>1. PICK n \in 0..10000 : n = Capacity(plan)
        BY CapacityBounds
      <4>2. 200 + n \div 200 \in Nat
        BY <3>1
      <4> QED  BY <4>1, <4>2
    <3>3. CASE "DEMAND_SURGE" \in happened
      BY <3>2, <3>3 DEF DemandBonus
    <3>4. CASE "DEMAND_SURGE" \notin happened
      <4>1. DemandBonus(plan, happened) = 0
        BY <3>4 DEF DemandBonus
      <4> QED  BY <4>1
    <3> QED  BY <3>3, <3>4
  <2>3. score * (20 - Effect(DemandLossOf, happened) \div 5) \in Nat
    BY <2>1, ProductNat
  <2> QED  BY <2>2, <2>3, ProductNat DEF Demand
<1>2. ASSUME NEW c \in Categories
      PROVE  Sold(score, total, plan, happened, c) \in Nat /\ Unsold(score, total, plan, happened, c) \in Nat
  <2>1. OnOffer[c] * Demand(score, plan, happened) \in Nat
    BY <1>1, MarketAssumption, ProductNat
  <2>2. Delivered(plan, happened, c) * 4000 * total \in Nat
    BY DeliveredNat, ProductNat
  <2> DEFINE have == Delivered(plan, happened, c) * 4000 * total
             limit == OnOffer[c] * Demand(score, plan, happened)
  <2>3. Sold(score, total, plan, happened, c) = IF have < limit THEN have ELSE limit
    BY DEF Sold
  <2>4. Unsold(score, total, plan, happened, c) = have - Sold(score, total, plan, happened, c)
    BY DEF Unsold
  <2>5. have \in Nat /\ limit \in Nat
    BY <2>1, <2>2
  <2> HIDE DEF have, limit
  <2> QED  BY <2>3, <2>4, <2>5
<1>3. [c \in Categories |-> Sold(score, total, plan, happened, c) * CostPaid(happened, c)] \in [Categories -> Nat]
  BY <1>2, PricesNat, ProductNat
<1>4. [c \in Categories |-> Sold(score, total, plan, happened, c) * Price(plan, happened, c)] \in [Categories -> Nat]
  BY <1>2, PricesNat, ProductNat
<1> QED  BY <1>2, <1>3, <1>4, CategorySum DEF CostOfGoods, GrossRevenue

LEMMA DaysNat ==
  ASSUME NEW o \in Capex, NEW drawn, NEW plan \in Decisions
  PROVE  DaysDown(o, drawn, plan) \in Nat
<1>1. Downtime[o] \in Nat /\ plan.service \in Nat
  BY MarketAssumption DEF Decisions
<1>2. SlaDays(plan.service) \in Nat
  BY <1>1 DEF SlaDays
<1> QED  BY <1>1, <1>2 DEF DaysDown

-----------------------------------------------------------------------------
(* The competition.                                                        *)

LEMMA RankNat ==
  ASSUME NEW S, IsFiniteSet(S), NEW order, NEW s \in S
  PROVE  Rank(order, s, S) \in Nat
<1> DEFINE better == {t \in S : <<t, s>> \in order}
           tied == {t \in S : <<t, s>> \notin order /\ <<s, t>> \notin order}
<1>1. /\ IsFiniteSet(better) /\ IsFiniteSet(tied) /\ better \cap tied = {}
      /\ better \cup tied \in SUBSET S
  BY FS_Subset
<1>2. Rank(order, s, S) = (Cardinality(S) - Cardinality(better)) - Cardinality(tied) + 1
  BY DEF Rank
<1> HIDE DEF better, tied
<1>3. Cardinality(better \cup tied) = Cardinality(better) + Cardinality(tied) - 0
  BY <1>1, FS_Union, FS_EmptySet
<1>4. Cardinality(better \cup tied) <= Cardinality(S)
  BY <1>1, FS_Subset
<1>5. Cardinality(S) \in Nat /\ Cardinality(better) \in Nat /\ Cardinality(tied) \in Nat
  BY <1>1, FS_CardinalityType
<1> QED  BY <1>2, <1>3, <1>4, <1>5

\* Every store has its part of the total.
LEMMA ScoreNat ==
  ASSUME NEW ind, IsFiniteSet(DOMAIN ind), NEW s \in DOMAIN ind
  PROVE  Score(ind, s) \in Nat /\ TotalScore(ind, s) \in Nat /\ Score(ind, s) <= TotalScore(ind, s)
<1> DEFINE S == DOMAIN ind
           f == [t \in S |-> Score(ind, t)]
<1>1. \A t \in S : Score(ind, t) \in Nat
  BY RankNat DEF Score
<1>2. IsFiniteSet(S) /\ IsFiniteSet(S \ {s})
  BY FS_Subset
<1>3. TotalScore(ind, s) = Total(f, S)
  BY DEF TotalScore, SumFunction, Total
<1>4. (\A t \in S : f[t] \in Nat) /\ (\A t \in S : f[t] \in Int) /\ \A t \in S \ {s} : f[t] \in Nat
  BY <1>1
<1>5. f[s] = Score(ind, s)
  OBVIOUS
<1> HIDE DEF f
<1>6. Total(f, S) = f[s] + Total(f, S \ {s}) /\ Total(f, S) \in Nat /\ Total(f, S \ {s}) \in Nat
  BY <1>2, <1>4, TotalTakes, TotalNat
<1> QED  BY <1>1, <1>3, <1>4, <1>5, <1>6

-----------------------------------------------------------------------------
(* Types.  A row has no more than its part of the total; a call holds plans, *)
(* rows and indicators that are well formed.                                 *)

Entry == { x \in [ indicators : Indicator,
                   score : Nat, total : Nat ] : x.score <= x.total }

RowOK(r) == {x \in Row(r) : x.score <= x.total}

Rows == RowOK(1) \cup RowOK(3)

Seen    == [Stores -> Plan \cup {None}]
Markets == {None} \cup UNION {[P -> Entry] : P \in SUBSET Stores}
Places  == Stores \cup {None}
Past    == [1..2 -> RowOK(1) \cup {None}]
Before  == [1..2 -> Plan \cup {None}]
First   == RowOK(1) \cup {None}
Start   == Plan \cup {None}
Left    == SUBSET (EventTypes \cup Capex)

Jobs ==
  [ step : Steps, round : Rounds, seen : Seen, market : Markets, sound : BOOLEAN,
    todo : SUBSET Stores, store : Places, pastResults : Past, pastPlans : Before,
    firstResult : First, firstPlan : Start, gross : Nat, left : Left ]

JobOK(q) ==
  /\ q \in Jobs
  /\ q.step # "idle" => q.market \in [Playing(q.seen) -> Entry] /\ q.todo \subseteq Playing(q.seen)
  /\ q.step \notin {"idle", "next"} => q.store \in Playing(q.seen) \ q.todo
  /\ q.step = "events" => q.left \subseteq EventTypes /\ q.left # {}
  /\ q.step = "slas" => q.left \subseteq Capex /\ q.left # {}

DeskOK ==
  /\ luck \in Luck
  /\ quiz \in [Stores -> [Rounds -> 0..100 \cup {None}]]
  /\ plans \in [Stores -> [Versions -> Plan \cup {None}]]

TablesTypeOK ==
  /\ results \in [Stores -> [Rounds -> Rows \cup {None}]]
  /\ \A s \in Stores, r \in Rounds : results[s][r] \in RowOK(r) \cup {None}
  /\ events \in [Stores -> [Rounds -> [EventTypes -> Loss \cup {None}]]]
  /\ slas \in [Stores -> [Rounds -> [Capex -> Loss \cup {None}]]]

JobsOK == job \in [Runners -> Jobs] /\ \A w \in Runners : JobOK(job[w])

CountsOK ==
  /\ calls \in 0..MaxCalls /\ fails \in 0..MaxFails
  /\ whole \subseteq Rounds /\ settled \subseteq Rounds

TypeInv == DeskOK /\ TablesTypeOK /\ JobsOK /\ CountsOK

LEMMA QuotientIs == \A m, n \in Nat : <<m, n>> \in Quotient
BY DEF Quotient

LEMMA EntryIs ==
  \A i \in Indicator, m, n \in Nat : m <= n => [indicators |-> i, score |-> m, total |-> n] \in Entry
BY DEF Entry

LEMMA EntryHas ==
  \A x \in Entry : x.indicators \in Indicator /\ x.score \in Nat /\ x.total \in Nat /\ x.score <= x.total
BY DEF Entry

\* Of a plan the engine makes indicators and a part of the demand.
LEMMA CompetitionOK ==
  ASSUME NEW seen \in [Stores -> Plan \cup {None}],
         NEW scores \in [Stores -> 0..100 \cup {None}], NEW r \in Rounds
  PROVE  Competition(seen, scores, r) \in [Playing(seen) -> Entry]
<1> DEFINE ind == Indicators(seen, scores, r)
<1>1. DOMAIN ind = Playing(seen) /\ IsFiniteSet(Playing(seen))
  BY MarketAssumption, FS_Subset DEF Indicators, Playing
<1>2. ASSUME NEW s \in Playing(seen)
      PROVE  ind[s] \in Indicator
  <2>1. seen[s].decided \in Decisions
    BY DEF Playing, Plan
  <2>2. QuizScore(scores, s) \in Nat
    <3>1. scores[s] \in 0..100 \cup {None}
      BY DEF Playing
    <3> QED  BY <3>1 DEF QuizScore
  <2>3. PICK p : p = seen[s].decided
    OBVIOUS
  <2>4. PICK m : m = QuizScore(scores, s)
    OBVIOUS
  <2>5. PICK h : h = Happened(seen, r, s)
    OBVIOUS
  <2>6. ind[s] = [price |-> BasketPrice(p, h), availability |-> Availability(p, h), csat |-> Csat(p, m, h)]
    BY <2>3, <2>4, <2>5 DEF Indicators
  <2>7. p \in Decisions /\ m \in Nat
    BY <2>1, <2>2, <2>3, <2>4
  <2> HIDE DEF ind
  <2>8. BasketPrice(p, h) \in Quotient /\ Availability(p, h) \in Quotient
    BY <2>7, BasketNat
  <2>9. Csat(p, m, h) \in 0..10000
    BY <2>7, CsatBounds
  <2> QED  BY <2>6, <2>8, <2>9 DEF Indicator
<1>3. ASSUME NEW s \in Playing(seen)
      PROVE  Score(ind, s) \in Nat /\ TotalScore(ind, s) \in Nat /\ Score(ind, s) <= TotalScore(ind, s)
  BY <1>1, ScoreNat
<1>4. Competition(seen, scores, r) =
        [s \in Playing(seen) |->
           [indicators |-> ind[s], score |-> Score(ind, s), total |-> TotalScore(ind, s)]]
  BY DEF Competition
<1> HIDE DEF ind
<1>5. ASSUME NEW s \in Playing(seen)
      PROVE  [indicators |-> ind[s], score |-> Score(ind, s), total |-> TotalScore(ind, s)] \in Entry
  BY <1>2, <1>3, EntryIs
<1> QED  BY <1>4, <1>5

\* The result of a store of a well formed call is a well formed row.
LEMMA ResultOK ==
  ASSUME NEW q \in Jobs, q.market \in [Playing(q.seen) -> Entry], NEW s \in Playing(q.seen)
  PROVE  Result(q, s) \in RowOK(q.round)
<1> DEFINE plan == q.seen[s].decided
           happened == Happened(q.seen, q.round, s)
           score == q.market[s].score
           total == q.market[s].total
           gross == GrossRevenue(score, total, plan, happened)
           losses == [o \in Capex |-> gross * OptionDays(plan, q.round, s, o)]
           spoilt == ShrinkageInputs(score, total, plan, happened, q.pastPlans, q.pastResults)
<1>1. plan \in Decisions /\ q.round \in Rounds
  BY DEF Jobs, Seen, Playing, Plan
<1>2. /\ q.market[s].indicators \in Indicator
      /\ score \in Nat /\ total \in Nat /\ score <= total
  <2>1. PICK x \in Entry : x = q.market[s]
    OBVIOUS
  <2> QED  BY <2>1, EntryHas
<1>3. /\ gross \in Nat /\ CostOfGoods(score, total, plan, happened) \in Nat
      /\ \A c \in Categories : Unsold(score, total, plan, happened, c) \in Nat
  <2>1. PICK p \in Decisions, m \in Nat, n \in Nat : p = plan /\ m = score /\ n = total
    BY <1>1, <1>2
  <2>2. PICK h : h = happened
    OBVIOUS
  <2>3. /\ GrossRevenue(m, n, p, h) \in Nat /\ CostOfGoods(m, n, p, h) \in Nat
        /\ \A c \in Categories : Unsold(m, n, p, h, c) \in Nat
    BY SalesNat
  <2> HIDE DEF plan, happened, score, total
  <2> QED  BY <2>1, <2>2, <2>3
<1>4. Effect(FineOf, happened) \in Nat /\ gross * Effect(DaysOf, happened) \in Nat
  BY <1>3, EffectNat, ProductNat DEF Tables
<1>5. SlaLoss(gross, plan, q.round, s) \in Nat
  <2>1. \A o \in Capex : OptionDays(plan, q.round, s, o) \in Nat
    BY <1>1, DaysNat DEF OptionDays
  <2>2. losses \in [Capex -> Nat]
    BY <1>3, <2>1, ProductNat
  <2> HIDE DEF losses
  <2>3. Total(losses, Capex) \in Nat
    BY <2>2, CapexFinite, TotalNat
  <2>4. DOMAIN losses = Capex
    BY <2>2
  <2>5. SumFunction(losses) \in Nat
    BY <2>3, <2>4 DEF SumFunction, Total
  <2> QED  BY <2>5 DEF SlaLoss, losses
<1>6. CapexCost \in [Capex -> Nat] /\ \A x \in SUBSET Capex : SumFunctionOnSet(CapexCost, x) \in Nat
  <2>1. CapexCost \in [Capex -> Nat]
    BY EngineAssumption
  <2>2. ASSUME NEW x \in SUBSET Capex  PROVE Total(CapexCost, x) \in Nat
    <3>1. IsFiniteSet(x) /\ \A o \in x : CapexCost[o] \in Nat
      BY <2>1, CapexFinite, FS_Subset
    <3> QED  BY <3>1, TotalNat
  <2> QED  BY <2>1, <2>2 DEF Total
<1>7. CashUsed(plan) \in Nat
  <2>1. [c \in Categories |-> plan.bought[c] * UnitCost[c]] \in [Categories -> Nat]
    <3>1. \A c \in Categories : plan.bought[c] \in Nat /\ UnitCost[c] \in Nat
      BY <1>1, MarketAssumption DEF Decisions
    <3> QED  BY <3>1, ProductNat
  <2>2. plan.capex \in SUBSET Capex
    BY <1>1 DEF Decisions
  <2>3. SumFunction([c \in Categories |-> plan.bought[c] * UnitCost[c]]) \in Nat
    BY <2>1, CategorySum
  <2> QED  BY <1>6, <2>2, <2>3 DEF CashUsed
<1>8. Threshold(q.firstResult, q.firstPlan) \in Int
  <2>1. InitialCash \in Nat
    BY EngineAssumption
  <2>2. CASE q.firstResult = None
    BY <2>1, <2>2 DEF Threshold
  <2>3. CASE q.firstResult # None
    <3>1. q.firstResult.cash \in Nat
      <4>1. PICK x \in RowOK(1) : x = q.firstResult
        BY <2>3 DEF Jobs, First
      <4> QED  BY <4>1 DEF RowOK, Row
    <3> DEFINE back == IF q.firstPlan = None THEN 0
                       ELSE SumFunctionOnSet(CapexCost, Capex \ q.firstPlan.decided.capex)
    <3>2. back \in Nat
      BY <1>6
    <3>3. Threshold(q.firstResult, q.firstPlan) = InitialCash - q.firstResult.cash + back
      BY <2>3 DEF Threshold
    <3> HIDE DEF back
    <3> QED  BY <2>1, <3>1, <3>2, <3>3
  <2> QED  BY <2>2, <2>3
<1>9. q.round = 3 => spoilt \in [Categories -> [Versions -> Quotient]]
  <2>1. ASSUME NEW c \in Categories, NEW n \in Quotient
        PROVE  Shrinkage(n, q.pastPlans, q.pastResults, c) \in [Versions -> Quotient]
    <3>1. ASSUME NEW v \in Versions, v < 3, q.pastPlans[v] # None, q.pastResults[v] # None
          PROVE  LeftOver(q.pastPlans[v].decided, q.pastResults[v], c) \in Quotient
      <4>1. v \in 1..2
        BY <3>1 DEF Versions
      <4>2. q.pastPlans[v].decided.bought[c] \in Nat
        BY <3>1, <4>1 DEF Jobs, Before, Plan, Decisions
      <4>3. PICK x \in RowOK(1) : x = q.pastResults[v]
        BY <3>1, <4>1 DEF Jobs, Past
      <4>4. x.total \in Nat /\ x.score \in Nat /\ x.score <= x.total
        BY DEF RowOK, Row
      <4>5. x.total - x.score \in Nat
        BY <4>4
      <4> DEFINE n1 == q.pastPlans[v].decided.bought[c]
                 d == x.total - x.score
      <4>6. LeftOver(q.pastPlans[v].decided, q.pastResults[v], c)
              = IF x.goods > 0 THEN <<n1 * d, x.total>> ELSE <<n1, 1>>
        BY <4>3 DEF LeftOver
      <4>7. n1 \in Nat /\ d \in Nat
        BY <4>2, <4>5
      <4> HIDE DEF n1, d
      <4>8. n1 * d \in Nat
        BY <4>7, ProductNat
      <4> QED  BY <4>4, <4>6, <4>7, <4>8, QuotientIs
    <3> DEFINE pp == q.pastPlans
               pr == q.pastResults
    <3>2. <<0, 1>> \in Quotient
      BY QuotientIs
    <3>3. Shrinkage(n, q.pastPlans, q.pastResults, c) =
            [ v \in Versions |->
                CASE v = 3 -> n
                  [] v < 3 /\ pp[v] # None /\ pr[v] # None -> LeftOver(pp[v].decided, pr[v], c)
                  [] OTHER -> <<0, 1>> ]
      BY DEF Shrinkage
    <3>4. ASSUME NEW v \in Versions
          PROVE  (CASE v = 3 -> n
                    [] v < 3 /\ pp[v] # None /\ pr[v] # None -> LeftOver(pp[v].decided, pr[v], c)
                    [] OTHER -> <<0, 1>>) \in Quotient
      <4>1. CASE v = 3
        BY <4>1
      <4>2. CASE v < 3 /\ pp[v] # None /\ pr[v] # None
        BY <3>1, <4>2
      <4>3. CASE ~(v = 3) /\ ~(v < 3 /\ pp[v] # None /\ pr[v] # None)
        BY <3>2, <4>3
      <4> QED  BY <4>1, <4>2, <4>3
    <3> QED  BY <3>3, <3>4
  <2>2. \A c \in Categories : <<Unsold(score, total, plan, happened, c), 4000 * total>> \in Quotient
    <3>1. 4000 * total \in Nat
      BY <1>2, ProductNat
    <3> HIDE DEF score, total, happened, plan
    <3> QED  BY <1>3, <3>1, QuotientIs
  <2> QED  BY <2>1, <2>2 DEF ShrinkageInputs
<1>10. ConfigVersion(q.round) \in Versions
  BY <1>1 DEF ConfigVersion, Versions
<1>11. Result(q, s) =
         [ version |-> ConfigVersion(q.round), plan |-> plan, indicators |-> q.market[s].indicators,
           score |-> score, total |-> total, gross |-> gross,
           goods |-> CostOfGoods(score, total, plan, happened), slaLoss |-> SlaLoss(gross, plan, q.round, s),
           fines |-> Effect(FineOf, happened), downtime |-> gross * Effect(DaysOf, happened),
           cash |-> CashUsed(plan), threshold |-> Threshold(q.firstResult, q.firstPlan),
           shrinkage |-> IF q.round # 3 THEN None ELSE spoilt ]
  BY DEF Result
<1> HIDE DEF plan, happened, score, total, gross, losses, spoilt
<1>12. Result(q, s) \in Row(q.round)
  BY <1>1, <1>2, <1>3, <1>4, <1>5, <1>7, <1>8, <1>9, <1>10, <1>11 DEF Row
<1>13. Result(q, s).score = score /\ Result(q, s).total = total
  BY <1>11
<1> QED  BY <1>2, <1>12, <1>13 DEF RowOK

\* What is written of an event or an option is well formed.
LEMMA LossOK ==
  ASSUME NEW q \in Jobs, NEW s \in Playing(q.seen)
  PROVE  /\ \A e \in EventTypes : EventRow(q, s, e) \in Loss
         /\ \A o \in Capex : SlaRow(q, s, o) \in Loss
<1>1. q.gross \in Nat /\ q.seen[s].decided \in Decisions
  BY DEF Jobs, Seen, Playing, Plan
<1>2. ASSUME NEW e \in EventTypes  PROVE EventRow(q, s, e) \in Loss
  <2>1. e \in DOMAIN DaysOf => q.gross * DaysOf[e] \in Nat
    <3>1. DaysOf \in Tables
      BY DEF Tables
    <3> QED  BY <1>1, <3>1, TablesOK, ProductNat
  <2> QED  BY <2>1 DEF EventRow, Loss
<1>3. ASSUME NEW o \in Capex  PROVE SlaRow(q, s, o) \in Loss
  <2>1. PICK d : d = OptionDays(q.seen[s].decided, q.round, s, o)
    OBVIOUS
  <2>2. d \in Nat
    BY <1>1, <2>1, DaysNat DEF OptionDays
  <2>3. SlaRow(q, s, o) = [occurred |-> d > 0, lost |-> q.gross * d]
    BY <2>1 DEF SlaRow
  <2>4. q.gross * d \in Nat
    BY <1>1, <2>2, ProductNat
  <2> QED  BY <2>3, <2>4 DEF Loss
<1> QED  BY <1>2, <1>3

\* An idle call is well formed.
LEMMA IdleOK == JobOK(Idle)
<1>1. Idle \in Jobs
  <2>1. 1 \in Rounds /\ "idle" \in Steps /\ 0 \in Nat
    BY DEF Rounds, Steps
  <2>2. [s \in Stores |-> None] \in Seen
    BY DEF Seen
  <2>3. <<None, None>> \in Past /\ <<None, None>> \in Before
    BY DEF Past, Before
  <2>4. None \in Markets /\ None \in Places /\ None \in First /\ None \in Start /\ {} \in Left
    BY DEF Markets, Places, First, Start, Left
  <2> QED  BY <2>1, <2>2, <2>3, <2>4 DEF Idle, Jobs
<1> QED  BY <1>1 DEF JobOK, Idle

LEMMA RowsRound == RowOK(1) = RowOK(2)
BY DEF RowOK, Row

-----------------------------------------------------------------------------
(* A step of a call changes that call's record, and the tables where it      *)
(* writes.                                                                   *)

LEMMA JobsStep ==
  ASSUME JobsOK, NEW w \in Runners, NEW n, JobOK(n), job' = [job EXCEPT ![w] = n]
  PROVE  JobsOK'
BY DEF JobsOK, JobOK

LEMMA JobHas ==
  ASSUME JobsOK, NEW w \in Runners
  PROVE  job[w] \in Jobs /\ JobOK(job[w])
BY DEF JobsOK

LEMMA NextStoreOK ==
  ASSUME TypeInv, NEW w \in Runners, NEW s \in Stores, NextStore(w, s)
  PROVE  JobsOK'
<1> DEFINE q == job[w]
           n == [q EXCEPT !.step = FirstStep(q.round), !.store = s, !.todo = @ \ {s}]
<1>1. q \in Jobs /\ JobOK(q) /\ q.step = "next" /\ s \in q.todo
  BY JobHas DEF TypeInv, NextStore, At
<1>2. job' = [job EXCEPT ![w] = n]
  BY DEF NextStore
<1>3. FirstStep(q.round) \in Steps /\ FirstStep(q.round) \notin {"idle", "next", "events", "slas"}
  BY <1>1 DEF Jobs, Rounds, FirstStep, Steps
<1>4. JobOK(n)
  <2> HIDE DEF q
  <2>1. n \in Jobs
    BY <1>1, <1>3 DEF Jobs, Places
  <2> QED  BY <1>1, <1>3, <2>1 DEF JobOK, Jobs
<1> QED  BY <1>2, <1>4, JobsStep DEF TypeInv

LEMMA ReadsOK ==
  ASSUME TypeInv, NEW w \in Runners, PastResults(w) \/ PastPlans(w) \/ FirstResult(w) \/ FirstPlan(w)
  PROVE  JobsOK'
<1> DEFINE q == job[w]
<1>1. q \in Jobs /\ JobOK(q)
  BY JobHas DEF TypeInv
<1>2. q.step \notin {"idle", "next"} => q.store \in Stores
  BY <1>1 DEF JobOK, Playing
<1>3. CASE PastResults(w)
  <2> DEFINE n == [q EXCEPT !.step = "past_plans", !.pastResults = [r \in 1..2 |-> results[q.store][r]]]
  <2>1. job' = [job EXCEPT ![w] = n] /\ q.step = "past_results"
    BY <1>3 DEF PastResults, At
  <2>2. [r \in 1..2 |-> results[q.store][r]] \in Past
    <3>1. \A r \in 1..2 : results[q.store][r] \in RowOK(1) \cup {None}
      <4>1. \A r \in 1..2 : r \in Rounds /\ results[q.store][r] \in RowOK(r) \cup {None}
        BY <1>2, <2>1 DEF TypeInv, TablesTypeOK, Rounds
      <4>2. \A r \in 1..2 : r = 1 \/ r = 2
        OBVIOUS
      <4> QED  BY <4>1, <4>2, RowsRound
    <3> QED  BY <3>1 DEF Past
  <2>3. "past_plans" \in Steps
    BY DEF Steps
  <2>4. JobOK(n)
    <3> HIDE DEF q
    <3>1. n \in Jobs
      BY <1>1, <2>2, <2>3 DEF Jobs
    <3> QED  BY <1>1, <2>1, <3>1 DEF JobOK, Jobs
  <2> QED  BY <2>1, <2>4, JobsStep DEF TypeInv
<1>4. CASE PastPlans(w)
  <2> DEFINE n == [q EXCEPT !.step = "first_result", !.pastPlans = [v \in 1..2 |-> plans[q.store][v]]]
  <2>1. job' = [job EXCEPT ![w] = n] /\ q.step = "past_plans"
    BY <1>4 DEF PastPlans, At
  <2>2. [v \in 1..2 |-> plans[q.store][v]] \in Before
    BY <1>2, <2>1 DEF TypeInv, DeskOK, Versions, Before
  <2>3. "first_result" \in Steps
    BY DEF Steps
  <2>4. JobOK(n)
    <3> HIDE DEF q
    <3>1. n \in Jobs
      BY <1>1, <2>2, <2>3 DEF Jobs
    <3> QED  BY <1>1, <2>1, <3>1 DEF JobOK, Jobs
  <2> QED  BY <2>1, <2>4, JobsStep DEF TypeInv
<1>5. CASE FirstResult(w)
  <2> DEFINE found == results[q.store][1]
             n == [q EXCEPT !.step = IF found = None THEN "result" ELSE "first_plan",
                            !.firstResult = found, !.firstPlan = None]
  <2>1. job' = [job EXCEPT ![w] = n] /\ q.step = "first_result"
    BY <1>5 DEF FirstResult, At
  <2>2. found \in First /\ None \in Start
    BY <1>2, <2>1 DEF TypeInv, TablesTypeOK, Rounds, First, Start
  <2>3. "result" \in Steps /\ "first_plan" \in Steps
    BY DEF Steps
  <2>4. JobOK(n)
    <3> HIDE DEF q, found
    <3>1. n \in Jobs
      BY <1>1, <2>2, <2>3 DEF Jobs
    <3> QED  BY <1>1, <2>1, <3>1 DEF JobOK, Jobs
  <2> QED  BY <2>1, <2>4, JobsStep DEF TypeInv
<1>6. CASE FirstPlan(w)
  <2> DEFINE n == [q EXCEPT !.step = "result", !.firstPlan = plans[q.store][1]]
  <2>1. job' = [job EXCEPT ![w] = n] /\ q.step = "first_plan"
    BY <1>6 DEF FirstPlan, At
  <2>2. plans[q.store][1] \in Start
    BY <1>2, <2>1 DEF TypeInv, DeskOK, Versions, Start
  <2>3. "result" \in Steps
    BY DEF Steps
  <2>4. JobOK(n)
    <3> HIDE DEF q
    <3>1. n \in Jobs
      BY <1>1, <2>2, <2>3 DEF Jobs
    <3> QED  BY <1>1, <2>1, <3>1 DEF JobOK, Jobs
  <2> QED  BY <2>1, <2>4, JobsStep DEF TypeInv
<1> QED  BY <1>3, <1>4, <1>5, <1>6

\* A call that starts.
LEMMA LoadOK ==
  ASSUME TypeInv, NEW w \in Runners, NEW r \in Rounds, Load(w, r)
  PROVE  JobsOK'
<1> DEFINE seen == [s \in Stores |-> plans[s][ConfigVersion(r)]]
           scores == [s \in Stores |-> quiz[s][r]]
           market == Competition(seen, scores, r)
           sound == /\ 1..(r - 1) \subseteq settled
                    /\ \A s \in Stores : seen[s] # None /\ quiz[s][r] # None
                    /\ \A s \in Playing(seen) : seen[s].confirmed
           n == [Idle EXCEPT !.step = "next", !.round = r, !.seen = seen, !.todo = Playing(seen),
                             !.market = market, !.sound = sound]
<1>1. job' = [job EXCEPT ![w] = n]
  BY DEF Load
<1>2. seen \in Seen /\ Seen = [Stores -> Plan \cup {None}]
  <2>1. ConfigVersion(r) \in Versions
    BY DEF ConfigVersion, Rounds, Versions
  <2> QED  BY <2>1 DEF TypeInv, DeskOK, Seen
<1>3. scores \in [Stores -> 0..100 \cup {None}]
  BY DEF TypeInv, DeskOK
<1>4. market \in [Playing(seen) -> Entry]
  <2> HIDE DEF seen, scores
  <2> QED  BY <1>2, <1>3, CompetitionOK
<1>5. Playing(seen) \in SUBSET Stores
  BY DEF Playing
<1>6. market \in Markets
  BY <1>4, <1>5 DEF Markets
<1>7. Idle \in Jobs
  BY IdleOK DEF JobOK
<1>8. "next" \in Steps
  BY DEF Steps
<1>9. sound \in BOOLEAN
  OBVIOUS
<1>10. JobOK(n)
  <2> HIDE DEF seen, scores, market, sound
  <2>1. n \in Jobs
    BY <1>2, <1>5, <1>6, <1>7, <1>8, <1>9 DEF Jobs
  <2>2. n.step = "next" /\ n.market = market /\ n.seen = seen /\ n.todo = Playing(seen)
    BY DEF Idle
  <2> HIDE DEF n
  <2> QED  BY <1>4, <2>1, <2>2 DEF JobOK
<1> HIDE DEF n
<1> QED  BY <1>1, <1>10, JobsStep DEF TypeInv

\* A call that ends or fails.
LEMMA IdleAgain ==
  ASSUME TypeInv, NEW w \in Runners, job' = [job EXCEPT ![w] = Idle]
  PROVE  JobsOK'
BY IdleOK, JobsStep DEF TypeInv

LEMMA WriteResultOK ==
  ASSUME TypeInv, NEW w \in Runners, WriteResult(w)
  PROVE  JobsOK' /\ TablesTypeOK'
<1> DEFINE q == job[w]
           row == Result(q, q.store)
           n == [q EXCEPT !.step = "events", !.left = EventTypes, !.gross = row.gross]
<1>1. q \in Jobs /\ JobOK(q) /\ q.step = "result"
  BY JobHas DEF TypeInv, WriteResult, At
<1>2. q.store \in Playing(q.seen) \ q.todo /\ q.market \in [Playing(q.seen) -> Entry]
  BY <1>1 DEF JobOK
<1>3. row \in RowOK(q.round) /\ q.round \in Rounds /\ q.store \in Stores
  <2>1. q.round \in Rounds
    BY <1>1 DEF Jobs
  <2>2. PICK x \in Jobs : x = q
    BY <1>1
  <2> HIDE DEF q
  <2>3. Result(x, x.store) \in RowOK(x.round)
    BY <1>2, <2>2, ResultOK
  <2> QED  BY <1>2, <2>1, <2>2, <2>3 DEF Playing
<1>4. row.gross \in Nat /\ row \in Rows
  <2> HIDE DEF row
  <2>1. PICK x \in RowOK(q.round) : x = row
    BY <1>3
  <2>2. x.gross \in Nat
    BY <2>1 DEF RowOK, Row
  <2>3. q.round = 1 \/ q.round = 2 \/ q.round = 3
    BY <1>3 DEF Rounds
  <2> QED  BY <1>3, <2>1, <2>2, <2>3, RowsRound DEF Rows
<1>5. job' = [job EXCEPT ![w] = n]
  BY DEF WriteResult
<1>6. EventTypes \in Left /\ "events" \in Steps /\ EventTypes # {}
  BY EngineAssumption DEF Left, Steps
<1>7. JobOK(n)
  <2> HIDE DEF row, q
  <2>1. n \in Jobs
    BY <1>1, <1>4, <1>6 DEF Jobs
  <2> QED  BY <1>1, <1>2, <1>6, <2>1 DEF JobOK, Jobs
<1>8. results' = [results EXCEPT ![q.store][q.round] = row] /\ UNCHANGED <<events, slas>>
  BY DEF WriteResult
<1>9. TablesTypeOK'
  <2> HIDE DEF row, q
  <2>1. results' \in [Stores -> [Rounds -> Rows \cup {None}]]
    BY <1>4, <1>8 DEF TypeInv, TablesTypeOK
  <2>2. \A s \in Stores, r \in Rounds : results'[s][r] \in RowOK(r) \cup {None}
    BY <1>3, <1>8 DEF TypeInv, TablesTypeOK
  <2> QED  BY <1>8, <2>1, <2>2 DEF TypeInv, TablesTypeOK
<1> HIDE DEF n
<1> QED  BY <1>5, <1>7, <1>9, JobsStep DEF TypeInv

LEMMA WriteEventOK ==
  ASSUME TypeInv, NEW w \in Runners, WriteEvent(w)
  PROVE  JobsOK' /\ TablesTypeOK'
<1> DEFINE q == job[w]
           e == CHOOSE x \in q.left : TRUE
           rest == IF q.left = {e} THEN Capex ELSE q.left \ {e}
           step == IF q.left = {e} THEN "slas" ELSE q.step
           n == [q EXCEPT !.left = rest, !.step = step]
           row == EventRow(q, q.store, e)
<1>1. q \in Jobs /\ JobOK(q) /\ q.step = "events"
  BY JobHas DEF TypeInv, WriteEvent, At
<1>2. q.store \in Playing(q.seen) \ q.todo /\ q.left \subseteq EventTypes /\ q.left # {} /\ e \in q.left
  BY <1>1 DEF JobOK
<1>3. row \in Loss /\ q.round \in Rounds /\ q.store \in Stores
  <2>1. q.round \in Rounds
    BY <1>1 DEF Jobs
  <2> HIDE DEF q, e
  <2> QED  BY <1>1, <1>2, <2>1, LossOK DEF Playing
<1>4. job' = [job EXCEPT ![w] = n]
  BY DEF WriteEvent
<1>5. /\ rest \in Left /\ step \in Steps /\ rest # {}
      /\ (step = "slas" /\ rest \subseteq Capex) \/ (step = "events" /\ rest \subseteq EventTypes)
  BY <1>1, <1>2, EngineAssumption DEF Left, Steps
<1>6. JobOK(n)
  <2> HIDE DEF q, rest, step
  <2>1. n \in Jobs
    BY <1>1, <1>5 DEF Jobs
  <2> QED  BY <1>1, <1>2, <1>5, <2>1 DEF JobOK, Jobs
<1>7. events' = [events EXCEPT ![q.store][q.round][e] = row] /\ UNCHANGED <<results, slas>>
  BY DEF WriteEvent
<1>8. TablesTypeOK'
  <2>1. e \in EventTypes
    BY <1>2
  <2> HIDE DEF row, q, e
  <2>2. events' \in [Stores -> [Rounds -> [EventTypes -> Loss \cup {None}]]]
    BY <1>3, <1>7, <2>1 DEF TypeInv, TablesTypeOK
  <2> QED  BY <1>7, <2>2 DEF TypeInv, TablesTypeOK
<1> HIDE DEF n
<1> QED  BY <1>4, <1>6, <1>8, JobsStep DEF TypeInv

LEMMA WriteSlaOK ==
  ASSUME TypeInv, NEW w \in Runners, WriteSla(w)
  PROVE  JobsOK' /\ TablesTypeOK'
<1> DEFINE q == job[w]
           o == CHOOSE x \in q.left : TRUE
           step == IF q.left = {o} THEN "next" ELSE q.step
           n == [q EXCEPT !.left = q.left \ {o}, !.step = step]
           row == SlaRow(q, q.store, o)
<1>1. q \in Jobs /\ JobOK(q) /\ q.step = "slas"
  BY JobHas DEF TypeInv, WriteSla, At
<1>2. q.store \in Playing(q.seen) \ q.todo /\ q.left \subseteq Capex /\ q.left # {} /\ o \in q.left
  BY <1>1 DEF JobOK
<1>3. row \in Loss /\ q.round \in Rounds /\ q.store \in Stores
  <2>1. q.round \in Rounds
    BY <1>1 DEF Jobs
  <2> HIDE DEF q, o
  <2> QED  BY <1>1, <1>2, <2>1, LossOK DEF Playing
<1>4. job' = [job EXCEPT ![w] = n]
  BY DEF WriteSla
<1>5. /\ q.left \ {o} \in Left /\ step \in Steps
      /\ step = "next" \/ (step = "slas" /\ q.left \ {o} # {})
  BY <1>1, <1>2 DEF Left, Steps
<1>6. JobOK(n)
  <2> HIDE DEF q, step, o
  <2>1. n \in Jobs
    BY <1>1, <1>5 DEF Jobs
  <2> QED  BY <1>1, <1>2, <1>5, <2>1 DEF JobOK, Jobs
<1>7. slas' = [slas EXCEPT ![q.store][q.round][o] = row] /\ UNCHANGED <<results, events>>
  BY DEF WriteSla
<1>8. TablesTypeOK'
  <2>1. o \in Capex
    BY <1>2
  <2> HIDE DEF row, q, o
  <2>2. slas' \in [Stores -> [Rounds -> [Capex -> Loss \cup {None}]]]
    BY <1>3, <1>7, <2>1 DEF TypeInv, TablesTypeOK
  <2> QED  BY <1>7, <2>2 DEF TypeInv, TablesTypeOK
<1> HIDE DEF n
<1> QED  BY <1>4, <1>6, <1>8, JobsStep DEF TypeInv

LEMMA Bounds ==
  /\ MaxCalls \in Nat /\ MaxFails \in Nat /\ Options \subseteq Decisions /\ Scores \subseteq 0..100
  /\ InitialPlans \in [Stores -> [Versions -> Plan \cup {None}]]
  /\ InitialQuiz \in [Stores -> [Rounds -> Scores \cup {None}]]
BY EngineAssumption

LEMMA PlayersOK ==
  ASSUME TypeInv,
         \/ \E s \in Stores, phase \in Status : Visit(s, VersionShown(phase))
         \/ \E s \in Stores, v \in Versions :
              Confirm(s, v) \/ \E choice \in Options : Edit(s, v, choice)
         \/ \E s \in Stores, r \in Rounds, n \in Scores : Consolidate(s, r, n)
  PROVE  DeskOK' /\ UNCHANGED <<luck, tables, job, calls, fails, history>>
<1>1. ASSUME NEW s \in Stores, NEW v \in Versions, Visit(s, v)  PROVE DeskOK'
  <2>1. [decided |-> Nothing, confirmed |-> FALSE] \in Plan
    <3>1. Nothing \in Decisions
      BY DEF Nothing, Decisions
    <3> QED  BY <3>1 DEF Plan
  <2> QED  BY <1>1, <2>1 DEF Visit, TypeInv, DeskOK
<1>2. ASSUME NEW s \in Stores, NEW v \in Versions, Confirm(s, v)  PROVE DeskOK'
  <2>1. [plans[s][v] EXCEPT !.confirmed = TRUE] \in Plan
    <3>1. PICK p \in Plan : p = plans[s][v]
      BY <1>2 DEF Confirm, TypeInv, DeskOK
    <3>2. [p EXCEPT !.confirmed = TRUE] \in Plan
      BY DEF Plan
    <3> QED  BY <3>1, <3>2
  <2>2. plans' = [plans EXCEPT ![s][v] = [plans[s][v] EXCEPT !.confirmed = TRUE]]
    BY <1>2 DEF Confirm, TypeInv, DeskOK
  <2> QED  BY <1>2, <2>1, <2>2 DEF Confirm, TypeInv, DeskOK
<1>3. ASSUME NEW s \in Stores, NEW v \in Versions, NEW choice \in Options, Edit(s, v, choice)  PROVE DeskOK'
  <2>1. [plans[s][v] EXCEPT !.decided = choice] \in Plan
    <3>1. PICK p \in Plan : p = plans[s][v]
      BY <1>3 DEF Edit, TypeInv, DeskOK
    <3>2. [p EXCEPT !.decided = choice] \in Plan
      BY Bounds DEF Plan
    <3> QED  BY <3>1, <3>2
  <2>2. plans' = [plans EXCEPT ![s][v] = [plans[s][v] EXCEPT !.decided = choice]]
    BY <1>3 DEF Edit, TypeInv, DeskOK
  <2> QED  BY <1>3, <2>1, <2>2 DEF Edit, TypeInv, DeskOK
<1>4. ASSUME NEW s \in Stores, NEW r \in Rounds, NEW n \in Scores, Consolidate(s, r, n)  PROVE DeskOK'
  BY <1>4, EngineAssumption DEF Consolidate, TypeInv, DeskOK
<1>5. \A phase : VersionShown(phase) \in Versions
  BY DEF VersionShown, Versions
<1> QED  BY <1>1, <1>2, <1>3, <1>4, <1>5 DEF Visit, Confirm, Edit, Consolidate

LEMMA TypeInit == Init => TypeInv
<1> SUFFICES ASSUME Init  PROVE TypeInv
  OBVIOUS
<1>1. DeskOK
  <2>1. InitialQuiz \in [Stores -> [Rounds -> 0..100 \cup {None}]]
    BY Bounds
  <2> QED  BY <2>1, Bounds DEF Init, DeskOK
<1>2. TablesTypeOK
  BY DEF Init, TablesTypeOK, Empty
<1>3. JobsOK
  BY IdleOK DEF Init, JobsOK, JobOK
<1>4. CountsOK
  BY Bounds DEF Init, CountsOK
<1> QED  BY <1>1, <1>2, <1>3, <1>4 DEF TypeInv

LEMMA TypeNext == TypeInv /\ [Next]_vars => TypeInv'
<1> SUFFICES ASSUME TypeInv, [Next]_vars  PROVE TypeInv'
  OBVIOUS
<1> USE DEF tables, desk, history
<1>1. ASSUME NEW w \in Runners, NEW r \in Rounds, Load(w, r)  PROVE TypeInv'
  <2>1. CountsOK'
    BY <1>1, Bounds DEF Load, TypeInv, CountsOK
  <2> QED  BY <1>1, <2>1, LoadOK DEF Load, TypeInv, DeskOK, TablesTypeOK
<1>2. ASSUME NEW w \in Runners, NEW s \in Stores, NextStore(w, s)  PROVE TypeInv'
  BY <1>2, NextStoreOK DEF NextStore, TypeInv, DeskOK, TablesTypeOK, CountsOK
<1>3. ASSUME NEW w \in Runners, PastResults(w) \/ PastPlans(w) \/ FirstResult(w) \/ FirstPlan(w)
      PROVE  TypeInv'
  BY <1>3, ReadsOK
     DEF PastResults, PastPlans, FirstResult, FirstPlan, TypeInv, DeskOK, TablesTypeOK, CountsOK
<1>4. ASSUME NEW w \in Runners, WriteResult(w)  PROVE TypeInv'
  BY <1>4, WriteResultOK DEF WriteResult, TypeInv, DeskOK, CountsOK
<1>5. ASSUME NEW w \in Runners, WriteEvent(w)  PROVE TypeInv'
  BY <1>5, WriteEventOK DEF WriteEvent, TypeInv, DeskOK, CountsOK
<1>6. ASSUME NEW w \in Runners, WriteSla(w)  PROVE TypeInv'
  BY <1>6, WriteSlaOK DEF WriteSla, TypeInv, DeskOK, CountsOK
<1>7. ASSUME NEW w \in Runners, Announce(w)  PROVE TypeInv'
  <2>1. job[w].round \in Rounds
    BY JobHas DEF TypeInv, Jobs
  <2>2. CountsOK'
    BY <1>7, <2>1 DEF Announce, TypeInv, CountsOK
  <2> QED  BY <1>7, <2>2, IdleAgain DEF Announce, TypeInv, DeskOK, TablesTypeOK
<1>8. ASSUME NEW w \in Runners, Fail(w)  PROVE TypeInv'
  <2>1. CountsOK'
    BY <1>8, Bounds DEF Fail, TypeInv, CountsOK
  <2> QED  BY <1>8, <2>1, IdleAgain DEF Fail, TypeInv, DeskOK, TablesTypeOK
<1>9. ASSUME \/ \E s \in Stores, phase \in Status : Visit(s, VersionShown(phase))
             \/ \E s \in Stores, v \in Versions :
                  Confirm(s, v) \/ \E choice \in Options : Edit(s, v, choice)
             \/ \E s \in Stores, r \in Rounds, n \in Scores : Consolidate(s, r, n)
      PROVE  TypeInv'
  BY <1>9, PlayersOK DEF TypeInv, TablesTypeOK, JobsOK, CountsOK
<1>10. CASE UNCHANGED vars
  BY <1>10 DEF vars, TypeInv, DeskOK, TablesTypeOK, JobsOK, CountsOK
<1> QED  BY <1>1, <1>2, <1>3, <1>4, <1>5, <1>6, <1>7, <1>8, <1>9, <1>10 DEF Next, Step

LEMMA TypeAlways == EngineSpec => []TypeInv
BY TypeInit, TypeNext, PTL DEF EngineSpec

\* Whatever was decided, answered and drawn, and however many calls run at a
\* time, the rows are well formed: nothing sold, left over or lost is negative.
THEOREM RowsTheorem == EngineSpec => []EngineTypeOK
<1>1. TypeInv => EngineTypeOK
  <2> SUFFICES ASSUME TypeInv  PROVE EngineTypeOK
    OBVIOUS
  <2>1. \A w \in Runners : job[w].step \in Steps /\ job[w].todo \subseteq Stores
    <3>1. \A q \in Jobs : q.step \in Steps /\ q.todo \subseteq Stores
      BY DEF Jobs
    <3> QED  BY <3>1, JobHas DEF TypeInv
  <2>2. \A r : RowOK(r) \subseteq Row(r)
    BY DEF RowOK
  <2> QED  BY <2>1, <2>2 DEF TypeInv, DeskOK, TablesTypeOK, CountsOK, EngineTypeOK
<1> QED  BY <1>1, TypeAlways, PTL

-----------------------------------------------------------------------------
(* What holds while one call runs at a time.                                *)

Alone == \A v, w \in Runners : v = w

Busy(w) == job[w].step # "idle"

\* Stores whose result the call has written, and their events and options.
Written(q) ==
  {s \in Playing(q.seen) \ q.todo : s = q.store => q.step \in {"next", "events", "slas"}}

Told(q, s) ==
  IF s # q.store \/ q.step \in {"next", "slas"} THEN EventTypes
  ELSE IF q.step = "events" THEN EventTypes \ q.left ELSE {}

Failed(q, s) ==
  IF s # q.store \/ q.step = "next" THEN Capex
  ELSE IF q.step = "slas" THEN Capex \ q.left ELSE {}

-----------------------------------------------------------------------------
(* The shares of the demand.                                               *)

PlansThere ==
  \A s \in Stores, r \in Rounds : results[s][r] # None => plans[s][ConfigVersion(r)] # None

MarketAdds(q) ==
  \A s \in Playing(q.seen) :
    q.market[s].total = SumFunction([t \in Playing(q.seen) |-> q.market[t].score])

SharesOf(q) ==
  /\ \A s \in Stores : results[s][q.round] # None => s \in Playing(q.seen)
  /\ \A s \in Playing(q.seen) : plans[s][ConfigVersion(q.round)] # None
  /\ \A s \in Written(q) :
       /\ results[s][q.round] # None
       /\ results[s][q.round].score = q.market[s].score
       /\ results[s][q.round].total = q.market[s].total

DemandInv ==
  /\ DemandShared
  /\ PlansThere
  /\ \A w \in Runners : Busy(w) =>
       job[w].round \notin whole /\ MarketAdds(job[w]) /\ SharesOf(job[w])

-----------------------------------------------------------------------------
(* The losses.                                                             *)

EventLoss(q, s, gross, e) ==
  IF e \in Happened(q.seen, q.round, s) /\ e \in DOMAIN DaysOf THEN gross * DaysOf[e] ELSE 0

LossesOf(q, s) ==
  LET row == results[s][q.round]
      plan == q.seen[s].decided
  IN  /\ row.slaLoss = SlaLoss(row.gross, plan, q.round, s)
      /\ row.downtime = row.gross * Effect(DaysOf, Happened(q.seen, q.round, s))
      /\ \A e \in Told(q, s) : events[s][q.round][e].lost = EventLoss(q, s, row.gross, e)
      /\ \A o \in Failed(q, s) :
           slas[s][q.round][o].lost = row.gross * OptionDays(plan, q.round, s, o)
      /\ s = q.store /\ q.step \in {"events", "slas"} => q.gross = row.gross

LossInv ==
  /\ LossesAddUp
  /\ \A w \in Runners : Busy(w) => \A s \in Written(job[w]) : LossesOf(job[w], s)

-----------------------------------------------------------------------------
(* What settled inputs come to.                                            *)

Wanted(r)  == [s \in Stores |-> plans[s][ConfigVersion(r)]]
Answers(r) == [s \in Stores |-> quiz[s][r]]

\* Nothing a player does changes the plans and the scores of the round.
Locked(r) ==
  \A s \in Stores : /\ quiz[s][r] # None
                    /\ plans[s][ConfigVersion(r)] # None /\ plans[s][ConfigVersion(r)].confirmed

Ground(r) == 1..(r - 1) \subseteq settled /\ Locked(r)

\* A call of the round that has read what there is to read for the store.
Ideal(r, s) ==
  [ Idle EXCEPT !.round = r, !.seen = Wanted(r), !.store = s,
      !.market = Competition(Wanted(r), Answers(r), r),
      !.pastResults = [k \in 1..2 |-> results[s][k]],
      !.pastPlans = [v \in 1..2 |-> plans[s][v]],
      !.firstResult = IF r = 1 THEN None ELSE results[s][1],
      !.firstPlan = IF r = 1 \/ results[s][1] = None THEN None ELSE plans[s][1] ]

IdealRow(r, s) == Result(Ideal(r, s), s)
IdealJob(r, s) == [Ideal(r, s) EXCEPT !.gross = IdealRow(r, s).gross]

IdealEvent(r, s, e) == EventRow(IdealJob(r, s), s, e)
IdealSla(r, s, o)   == SlaRow(IdealJob(r, s), s, o)

\* What the call has read for the store it is at is what the ideal one has.
ReadSoFar(q) ==
  LET past == [k \in 1..2 |-> results[q.store][k]]
      before == [v \in 1..2 |-> plans[q.store][v]]
      first == IF q.round = 1 THEN None ELSE results[q.store][1]
      start == IF q.round = 1 \/ results[q.store][1] = None THEN None ELSE plans[q.store][1]
  IN
  /\ q.round = 3 /\ q.step # "past_results" => q.pastResults = past
  /\ q.round = 3 /\ q.step \notin {"past_results", "past_plans"} => q.pastPlans = before
  /\ q.step \in {"first_plan", "result", "events", "slas"} => q.firstResult = first
  /\ q.step \in {"result", "events", "slas"} => q.firstPlan = start
  /\ q.step = "first_plan" => q.firstResult # None
  /\ q.step \in {"first_result", "first_plan"} => q.round # 1
  /\ q.step \in {"past_results", "past_plans"} => q.round = 3
  /\ q.step \in {"events", "slas"} => q.gross = IdealRow(q.round, q.store).gross

SoundJob(q) ==
  /\ Ground(q.round)
  /\ q.seen = Wanted(q.round) /\ q.market = Competition(Wanted(q.round), Answers(q.round), q.round)
  /\ q.step # "next" => ReadSoFar(q)
  /\ q.round = 1 => q.firstResult = None /\ q.firstPlan = None
  /\ \A s \in Written(q) :
       /\ results[s][q.round] = IdealRow(q.round, s)
       /\ \A e \in Told(q, s) : events[s][q.round][e] = IdealEvent(q.round, s, e)
       /\ \A o \in Failed(q, s) : slas[s][q.round][o] = IdealSla(q.round, s, o)

SettledRows ==
  \A r \in settled :
    /\ Ground(r)
    /\ \A s \in Stores :
         /\ results[s][r] = IdealRow(r, s)
         /\ \A e \in EventTypes : events[s][r][e] = IdealEvent(r, s, e)
         /\ \A o \in Capex : slas[s][r][o] = IdealSla(r, s, o)

SettledInv ==
  /\ SettledRows
  /\ \A w \in Runners : Busy(w) =>
       /\ job[w].round \in settled => job[w].sound
       /\ job[w].sound => SoundJob(job[w])

-----------------------------------------------------------------------------
(* The proof that the demand is shared.                                    *)

LEMMA OneRunner ==
  ASSUME Alone, NEW w \in Runners
  PROVE  \A v \in Runners : v = w
BY DEF Alone

\* The scores in the market of a call add up to its total.
LEMMA CompetitionAdds ==
  ASSUME NEW seen, NEW scores, NEW r
  PROVE  \A s \in Playing(seen) :
           Competition(seen, scores, r)[s].total =
             SumFunction([t \in Playing(seen) |-> Competition(seen, scores, r)[t].score])
<1> DEFINE ind == Indicators(seen, scores, r)
           market == Competition(seen, scores, r)
<1>1. DOMAIN ind = Playing(seen)
  BY DEF Indicators
<1>2. market = [s \in Playing(seen) |->
                  [indicators |-> ind[s], score |-> Score(ind, s), total |-> TotalScore(ind, s)]]
  BY DEF Competition
<1> HIDE DEF ind, market
<1>3. \A s \in Playing(seen) : market[s].score = Score(ind, s) /\ market[s].total = TotalScore(ind, s)
  BY <1>2
<1>4. [t \in Playing(seen) |-> market[t].score] = [t \in Playing(seen) |-> Score(ind, t)]
  BY <1>3
<1>5. \A s : TotalScore(ind, s) = SumFunction([t \in Playing(seen) |-> Score(ind, t)])
  BY <1>1 DEF TotalScore
<1>6. \A s \in Playing(seen) : market[s].total = SumFunction([t \in Playing(seen) |-> market[t].score])
  BY <1>3, <1>4, <1>5
<1> QED  BY <1>6 DEF market

LEMMA SharedKeeps ==
  ASSUME DemandShared, whole' \subseteq whole,
         \A r \in whole', s \in Stores : results'[s][r] = results[s][r]
  PROVE  DemandShared'
<1> SUFFICES ASSUME NEW r \in whole', NEW s \in Stores, results'[s][r] # None
             PROVE  results'[s][r].total = SumFunction([t \in Ranked(r)' |-> results'[t][r].score])
  BY DEF DemandShared
<1>1. Ranked(r)' = Ranked(r)
  BY DEF Ranked
<1>2. [t \in Ranked(r)' |-> results'[t][r].score] = [t \in Ranked(r) |-> results[t][r].score]
  BY <1>1 DEF Ranked
<1>3. results[s][r].total = SumFunction([t \in Ranked(r) |-> results[t][r].score])
  BY DEF DemandShared
<1> QED  BY <1>2, <1>3

\* What a call of round r starts from.
Loaded(r) ==
  [ Idle EXCEPT !.step = "next", !.round = r, !.seen = Wanted(r), !.todo = Playing(Wanted(r)),
      !.market = Competition(Wanted(r), Answers(r), r),
      !.sound = /\ 1..(r - 1) \subseteq settled
                /\ \A s \in Stores : Wanted(r)[s] # None /\ quiz[s][r] # None
                /\ \A s \in Playing(Wanted(r)) : Wanted(r)[s].confirmed ]

LEMMA LoadIs ==
  ASSUME TypeInv, NEW w \in Runners, NEW r \in Rounds, Load(w, r)
  PROVE  /\ job' = [job EXCEPT ![w] = Loaded(r)] /\ job'[w] = Loaded(r)
         /\ Written(Loaded(r)) = {}
<1>1. job' = [job EXCEPT ![w] = Loaded(r)]
  BY DEF Load, Loaded, Wanted, Answers
<1>2. Written(Loaded(r)) = {}
  BY DEF Written, Loaded, Idle
<1> QED  BY <1>1, <1>2 DEF TypeInv, JobsOK

LEMMA JobFields ==
  ASSUME NEW q \in Jobs
  PROVE  /\ q.step \in Steps /\ q.round \in Rounds /\ q.sound \in BOOLEAN /\ q.seen \in Seen
         /\ q.todo \subseteq Stores /\ q.gross \in Nat /\ q.left \in Left
BY DEF Jobs

\* A step of a call that goes on leaves what the call was loaded with.
LEMMA CallGoesOn ==
  ASSUME TypeInv, NEW w \in Runners, Step(w), ~Announce(w)
  PROVE  /\ job[w].step # "idle" /\ job'[w].step # "idle"
         /\ job'[w].round = job[w].round /\ job'[w].seen = job[w].seen
         /\ job'[w].market = job[w].market /\ job'[w].sound = job[w].sound
         /\ UNCHANGED <<desk, whole, settled>>
<1> DEFINE q == job[w]
<1>1. q \in Jobs /\ job \in [Runners -> Jobs] /\ q.round \in Rounds
  BY JobHas, JobFields DEF TypeInv, JobsOK
<1>2. FirstStep(q.round) # "idle"
  BY <1>1 DEF FirstStep, Rounds
<1>3. CASE \E s \in Stores : NextStore(w, s)
  BY <1>1, <1>2, <1>3 DEF NextStore, At, Jobs, history, desk
<1>4. CASE PastResults(w)
  BY <1>1, <1>4 DEF PastResults, At, Jobs, history, desk
<1>5. CASE PastPlans(w)
  BY <1>1, <1>5 DEF PastPlans, At, Jobs, history, desk
<1>6. CASE FirstResult(w)
  BY <1>1, <1>6 DEF FirstResult, At, Jobs, history, desk
<1>7. CASE FirstPlan(w)
  BY <1>1, <1>7 DEF FirstPlan, At, Jobs, history, desk
<1>8. CASE WriteResult(w)
  BY <1>1, <1>8 DEF WriteResult, At, Jobs, history, desk
<1>9. CASE WriteEvent(w)
  BY <1>1, <1>9 DEF WriteEvent, At, Jobs, history, desk
<1>10. CASE WriteSla(w)
  BY <1>1, <1>10 DEF WriteSla, At, Jobs, history, desk
<1> QED  BY <1>3, <1>4, <1>5, <1>6, <1>7, <1>8, <1>9, <1>10 DEF Step

\* Only writing a result adds to the stores whose result is written.
LEMMA WrittenMoves ==
  ASSUME TypeInv, NEW w \in Runners, Step(w), ~Announce(w)
  PROVE  Written(job'[w]) =
           IF WriteResult(w) THEN Written(job[w]) \cup {job[w].store} ELSE Written(job[w])
<1> DEFINE q == job[w]
<1>1. q \in Jobs /\ JobOK(q) /\ job \in [Runners -> Jobs] /\ q.round \in Rounds
  BY JobHas, JobFields DEF TypeInv, JobsOK
<1>2. FirstStep(q.round) \notin {"next", "events", "slas"}
  BY <1>1 DEF FirstStep, Rounds
<1>3. CASE \E s \in Stores : NextStore(w, s)
  <2>1. PICK s \in Stores : NextStore(w, s)
    BY <1>3
  <2>2. /\ q.step = "next" /\ s \in q.todo /\ ~WriteResult(w)
        /\ job'[w].step = FirstStep(q.round) /\ job'[w].store = s /\ job'[w].todo = q.todo \ {s}
        /\ job'[w].seen = q.seen
    BY <1>1, <2>1 DEF NextStore, WriteResult, At, Jobs
  <2> QED  BY <1>2, <2>2 DEF Written
<1>4. CASE PastResults(w) \/ PastPlans(w) \/ FirstResult(w) \/ FirstPlan(w)
  <2>1. /\ q.step \notin {"next", "events", "slas"} /\ ~WriteResult(w)
        /\ job'[w].step \notin {"next", "events", "slas"} /\ job'[w].store = q.store
        /\ job'[w].todo = q.todo /\ job'[w].seen = q.seen
    BY <1>1, <1>4 DEF PastResults, PastPlans, FirstResult, FirstPlan, WriteResult, At, Jobs
  <2> QED  BY <2>1 DEF Written
<1>5. CASE WriteResult(w)
  <2>1. /\ q.step = "result" /\ job'[w].step = "events" /\ job'[w].store = q.store
        /\ job'[w].todo = q.todo /\ job'[w].seen = q.seen
    BY <1>1, <1>5 DEF WriteResult, At, Jobs
  <2>2. q.store \in Playing(q.seen) \ q.todo
    BY <1>1, <2>1 DEF JobOK
  <2> QED  BY <1>5, <2>1, <2>2 DEF Written
<1>6. CASE WriteEvent(w) \/ WriteSla(w)
  <2>1. /\ q.step \in {"events", "slas"} /\ ~WriteResult(w)
        /\ job'[w].step \in {"next", "events", "slas"} /\ job'[w].store = q.store
        /\ job'[w].todo = q.todo /\ job'[w].seen = q.seen
    BY <1>1, <1>6 DEF WriteEvent, WriteSla, WriteResult, At, Jobs
  <2> QED  BY <2>1 DEF Written
<1> QED  BY <1>3, <1>4, <1>5, <1>6 DEF Step

\* The players' operations leave a plan that is there where it is.
LEMMA PlansStay ==
  ASSUME TypeInv, NEW s \in Stores, NEW v \in Versions, plans[s][v] # None,
         \/ \E t \in Stores, phase \in Status : Visit(t, VersionShown(phase))
         \/ \E t \in Stores, x \in Versions :
              Confirm(t, x) \/ \E choice \in Options : Edit(t, x, choice)
         \/ \E t \in Stores, r \in Rounds, n \in Scores : Consolidate(t, r, n)
  PROVE  plans'[s][v] # None /\ (plans[s][v].confirmed => plans'[s][v] = plans[s][v])
<1>1. plans'[s][v] \in Plan \cup {None} /\ \A p \in Plan : p # None
  BY PlayersOK, NoneAssumption DEF DeskOK
<1>2. \A phase : VersionShown(phase) \in Versions
  BY DEF VersionShown, Versions
<1>3. ASSUME NEW t \in Stores, NEW x \in Versions, Visit(t, x)
      PROVE  plans'[s][v] = plans[s][v]
  BY <1>3 DEF Visit, TypeInv, DeskOK
<1>4. ASSUME NEW t \in Stores, NEW x \in Versions, Confirm(t, x)
      PROVE  plans'[s][v] # None /\ (plans[s][v].confirmed => plans'[s][v] = plans[s][v])
  <2>1. PICK p \in Plan : p = plans[t][x]
    BY <1>4 DEF Confirm, TypeInv, DeskOK
  <2>2. [p EXCEPT !.confirmed = TRUE] \in Plan
    BY DEF Plan
  <2>3. plans' = [plans EXCEPT ![t][x] = [p EXCEPT !.confirmed = TRUE]] /\ ~p.confirmed
    BY <1>4, <2>1 DEF Confirm, TypeInv, DeskOK
  <2> QED  BY <1>1, <2>1, <2>2, <2>3 DEF TypeInv, DeskOK
<1>5. ASSUME NEW t \in Stores, NEW x \in Versions, NEW choice \in Options, Edit(t, x, choice)
      PROVE  plans'[s][v] # None /\ (plans[s][v].confirmed => plans'[s][v] = plans[s][v])
  <2>1. PICK p \in Plan : p = plans[t][x]
    BY <1>5 DEF Edit, TypeInv, DeskOK
  <2>2. [p EXCEPT !.decided = choice] \in Plan
    BY Bounds DEF Plan
  <2>3. plans' = [plans EXCEPT ![t][x] = [p EXCEPT !.decided = choice]] /\ ~p.confirmed
    BY <1>5, <2>1 DEF Edit, TypeInv, DeskOK
  <2> QED  BY <1>1, <2>1, <2>2, <2>3 DEF TypeInv, DeskOK
<1>6. ASSUME NEW t \in Stores, NEW r \in Rounds, NEW n \in Scores, Consolidate(t, r, n)
      PROVE  plans'[s][v] = plans[s][v]
  BY <1>6 DEF Consolidate
<1> QED  BY <1>2, <1>3, <1>4, <1>5, <1>6

LEMMA DemandInit == Init => DemandInv
<1> SUFFICES ASSUME Init  PROVE DemandInv
  OBVIOUS
<1>1. whole = {} /\ (\A s \in Stores, r \in Rounds : results[s][r] = None)
  BY DEF Init, Empty
<1>2. \A w \in Runners : ~Busy(w)
  BY DEF Init, Busy, Idle
<1> QED  BY <1>1, <1>2 DEF DemandInv, DemandShared, PlansThere

LEMMA DemandStep ==
  ASSUME TypeInv, Alone, DemandInv, NEW w \in Runners, Step(w), ~Announce(w)
  PROVE  DemandInv'
<1> DEFINE q == job[w]
<1>1. q \in Jobs /\ JobOK(q) /\ q.round \in Rounds /\ \A v \in Runners : v = w
  BY JobHas, JobFields, OneRunner DEF TypeInv
<1>2. /\ q.step # "idle" /\ job'[w].step # "idle" /\ job'[w].round = q.round
      /\ job'[w].seen = q.seen /\ job'[w].market = q.market
      /\ UNCHANGED <<desk, whole, settled>>
  BY CallGoesOn
<1>3. q.round \notin whole /\ MarketAdds(q) /\ SharesOf(q)
  BY <1>2 DEF DemandInv, Busy
<1>4. MarketAdds(job'[w])
  BY <1>2, <1>3 DEF MarketAdds
<1>5. CASE WriteResult(w)
  <2> DEFINE row == Result(q, q.store)
  <2>1. /\ q.step = "result" /\ results' = [results EXCEPT ![q.store][q.round] = row]
        /\ q.store \in Playing(q.seen)
    BY <1>1, <1>5 DEF WriteResult, At, JobOK
  <2>2. row.score = q.market[q.store].score /\ row.total = q.market[q.store].total
    BY DEF Result
  <2>3. row # None
    <3>1. row \in RowOK(q.round)
      <4>1. q.market \in [Playing(q.seen) -> Entry]
        BY <1>1, <1>2 DEF JobOK
      <4> QED  BY <1>1, <2>1, <4>1, ResultOK
    <3> QED  BY <1>1, <3>1, NoneAssumption DEF RowOK
  <2>4. Written(job'[w]) = Written(q) \cup {q.store}
    BY <1>5, WrittenMoves
  <2> HIDE DEF q, row
  <2>5. DemandShared'
    <3>1. \A r \in whole', s \in Stores : results'[s][r] = results[s][r]
      BY <1>2, <1>3, <2>1 DEF TypeInv, TablesTypeOK, CountsOK
    <3> QED  BY <1>2, <3>1, SharedKeeps DEF DemandInv
  <2>6. \A s \in Stores, r \in Rounds :
          results'[s][r] = IF s = q.store /\ r = q.round THEN row ELSE results[s][r]
    BY <1>1, <2>1 DEF TypeInv, TablesTypeOK, Playing
  <2>7. PlansThere'
    BY <1>2, <1>3, <2>1, <2>6 DEF DemandInv, PlansThere, SharesOf, desk
  <2>8. SharesOf(job[w])'
    BY <1>1, <1>2, <1>3, <2>1, <2>2, <2>3, <2>4, <2>6 DEF SharesOf, desk, Playing, Written
  <2> QED  BY <1>1, <1>2, <1>3, <1>4, <2>5, <2>7, <2>8 DEF DemandInv, q
<1>6. CASE ~WriteResult(w)
  <2>1. results' = results
    BY <1>6 DEF Step, NextStore, PastResults, PastPlans, FirstResult, FirstPlan, WriteEvent,
                WriteSla, tables
  <2>2. Written(job'[w]) = Written(q)
    BY <1>6, WrittenMoves
  <2>3. SharesOf(job[w])'
    BY <1>2, <1>3, <2>1, <2>2 DEF SharesOf, desk
  <2>4. DemandShared'
    BY <1>2, <2>1, SharedKeeps DEF DemandInv
  <2>5. PlansThere'
    BY <1>2, <2>1 DEF DemandInv, PlansThere, desk
  <2> QED  BY <1>1, <1>2, <1>3, <1>4, <2>3, <2>4, <2>5 DEF DemandInv
<1> QED  BY <1>5, <1>6

LEMMA DemandAnnounce ==
  ASSUME TypeInv, Alone, DemandInv, NEW w \in Runners, Announce(w)
  PROVE  DemandInv'
<1> DEFINE q == job[w]
<1>1. q \in Jobs /\ JobOK(q) /\ q.round \in Rounds /\ \A v \in Runners : v = w
  BY JobHas, JobFields, OneRunner DEF TypeInv
<1>2. /\ q.step = "next" /\ q.todo = {} /\ whole' = whole \cup {q.round}
      /\ results' = results /\ plans' = plans /\ job' = [job EXCEPT ![w] = Idle]
  BY DEF Announce, At, desk, tables
<1>3. MarketAdds(q) /\ SharesOf(q)
  BY <1>2 DEF DemandInv, Busy
<1>4. Written(q) = Playing(q.seen) /\ Ranked(q.round) = Playing(q.seen)
  BY <1>2, <1>3 DEF Written, Ranked, SharesOf, Playing
<1>5. ASSUME NEW s \in Stores, results[s][q.round] # None
      PROVE  results[s][q.round].total = SumFunction([t \in Ranked(q.round) |-> results[t][q.round].score])
  <2>1. s \in Playing(q.seen)
    BY <1>3, <1>5 DEF SharesOf
  <2>2. [t \in Ranked(q.round) |-> results[t][q.round].score] = [t \in Playing(q.seen) |-> q.market[t].score]
    BY <1>3, <1>4 DEF SharesOf
  <2> QED  BY <1>3, <1>4, <2>1, <2>2 DEF SharesOf, MarketAdds
<1>6. DemandShared'
  <2> SUFFICES ASSUME NEW r \in whole', NEW s \in Stores, results'[s][r] # None
               PROVE  results'[s][r].total = SumFunction([t \in Ranked(r)' |-> results'[t][r].score])
    BY DEF DemandShared
  <2>1. Ranked(r)' = Ranked(r)
    BY <1>2 DEF Ranked
  <2> QED  BY <1>2, <1>5, <2>1 DEF DemandInv, DemandShared
<1>7. ~Busy(w)' /\ PlansThere'
  BY <1>1, <1>2 DEF Busy, TypeInv, JobsOK, Idle, DemandInv, PlansThere
<1> QED  BY <1>1, <1>6, <1>7 DEF DemandInv

LEMMA DemandLoad ==
  ASSUME TypeInv, Alone, DemandInv, NEW w \in Runners, NEW r \in Rounds, Load(w, r)
  PROVE  DemandInv'
<1>1. /\ job'[w] = Loaded(r) /\ Written(Loaded(r)) = {} /\ (\A v \in Runners : v = w)
      /\ whole' = whole \ {r} /\ results' = results /\ plans' = plans
  BY LoadIs, OneRunner DEF Load, tables, desk
<1>2. /\ Loaded(r).round = r /\ Loaded(r).seen = Wanted(r)
      /\ Loaded(r).market = Competition(Wanted(r), Answers(r), r)
  BY DEF Loaded, Idle
<1>3. MarketAdds(Loaded(r))
  <2>1. \A s \in Playing(Wanted(r)) :
          Competition(Wanted(r), Answers(r), r)[s].total =
            SumFunction([t \in Playing(Wanted(r)) |-> Competition(Wanted(r), Answers(r), r)[t].score])
    BY CompetitionAdds
  <2> QED  BY <1>2, <2>1 DEF MarketAdds
<1>4. \A s \in Stores : results[s][r] # None => s \in Playing(Wanted(r))
  BY DEF DemandInv, PlansThere, Playing, Wanted
<1>5. \A s \in Playing(Wanted(r)) : plans[s][ConfigVersion(r)] # None
  BY DEF Playing, Wanted
<1>6. SharesOf(job[w])'
  BY <1>1, <1>2, <1>4, <1>5 DEF SharesOf
<1>7. DemandShared'
  BY <1>1, SharedKeeps DEF DemandInv
<1>8. PlansThere'
  BY <1>1 DEF DemandInv, PlansThere
<1>9. job'[w].round \notin whole' /\ MarketAdds(job'[w])
  BY <1>1, <1>2, <1>3
<1> QED  BY <1>1, <1>6, <1>7, <1>8, <1>9 DEF DemandInv

LEMMA DemandRest ==
  ASSUME TypeInv, Alone, DemandInv, UNCHANGED <<results, whole>>,
         \A s \in Stores, v \in Versions : plans[s][v] # None => plans'[s][v] # None,
         \A w \in Runners : job'[w] = job[w] \/ job'[w] = Idle
  PROVE  DemandInv'
<1>1. DemandShared'
  BY SharedKeeps DEF DemandInv
<1>2. \A r \in Rounds : ConfigVersion(r) \in Versions
  BY DEF ConfigVersion, Rounds, Versions
<1>3. PlansThere'
  BY <1>2 DEF DemandInv, PlansThere
<1>4. ASSUME NEW w \in Runners, Busy(w)'
      PROVE  (job[w].round \notin whole /\ MarketAdds(job[w]) /\ SharesOf(job[w]))'
  <2>1. job'[w] = job[w] /\ Busy(w)
    BY <1>4 DEF Busy, Idle
  <2>2. job[w].round \notin whole /\ MarketAdds(job[w]) /\ SharesOf(job[w])
    BY <2>1 DEF DemandInv
  <2>3. job[w].round \in Rounds /\ Playing(job[w].seen) \subseteq Stores
    BY JobHas, JobFields DEF TypeInv, Playing
  <2> QED  BY <1>2, <2>1, <2>2, <2>3 DEF SharesOf
<1> QED  BY <1>1, <1>3, <1>4 DEF DemandInv

LEMMA DemandNext == Alone /\ TypeInv /\ DemandInv /\ [Next]_vars => DemandInv'
<1> SUFFICES ASSUME Alone, TypeInv, DemandInv, [Next]_vars  PROVE DemandInv'
  OBVIOUS
<1>1. ASSUME NEW w \in Runners, NEW r \in Rounds, Load(w, r)  PROVE DemandInv'
  BY <1>1, DemandLoad
<1>2. ASSUME NEW w \in Runners, Step(w)  PROVE DemandInv'
  BY <1>2, DemandStep, DemandAnnounce
<1>3. ASSUME NEW w \in Runners, Fail(w)  PROVE DemandInv'
  <2>1. UNCHANGED <<results, whole, plans>> /\ \A v \in Runners : job'[v] = job[v] \/ job'[v] = Idle
    BY <1>3 DEF Fail, tables, desk, history, TypeInv, JobsOK
  <2> QED  BY <2>1, DemandRest
<1>4. ASSUME \/ \E s \in Stores, phase \in Status : Visit(s, VersionShown(phase))
             \/ \E s \in Stores, v \in Versions :
                  Confirm(s, v) \/ \E choice \in Options : Edit(s, v, choice)
             \/ \E s \in Stores, r \in Rounds, n \in Scores : Consolidate(s, r, n)
      PROVE  DemandInv'
  <2>1. UNCHANGED <<results, whole, job>>
    BY <1>4, PlayersOK DEF tables, history
  <2>2. \A s \in Stores, v \in Versions : plans[s][v] # None => plans'[s][v] # None
    BY <1>4, PlansStay
  <2> QED  BY <2>1, <2>2, DemandRest
<1>5. CASE UNCHANGED vars
  <2>1. UNCHANGED <<results, whole, plans, job>>
    BY <1>5 DEF vars, tables, desk, history
  <2> QED  BY <2>1, DemandRest
<1> QED  BY <1>1, <1>2, <1>3, <1>4, <1>5 DEF Next

\* While one call runs at a time, and wherever calls fail, the shares of the
\* stores of a round that was run to its end add up to the whole demand.
THEOREM DemandTheorem == Alone => (EngineSpec => []DemandShared)
<1> SUFFICES ASSUME Alone  PROVE EngineSpec => []DemandShared
  OBVIOUS
<1>1. TypeInv /\ DemandInv /\ [Next]_vars => DemandInv'
  BY DemandNext
<1>2. DemandInv => DemandShared
  BY DEF DemandInv
<1> QED  BY <1>1, <1>2, DemandInit, TypeAlways, PTL DEF EngineSpec

-----------------------------------------------------------------------------
(* The proof that the losses add up.                                       *)

\* The revenue lost over the events that cost days comes to the days lost.
LEMMA DowntimeAdds ==
  ASSUME NEW gross \in Nat, NEW H \in SUBSET EventTypes
  PROVE  SumFunction([e \in EventTypes |-> IF e \in H /\ e \in DOMAIN DaysOf THEN gross * DaysOf[e] ELSE 0])
           = gross * Effect(DaysOf, H)
<1> DEFINE f == [e \in EventTypes |-> IF e \in H /\ e \in DOMAIN DaysOf THEN gross * DaysOf[e] ELSE 0]
           A == H \cap DOMAIN DaysOf
<1>1. IsFiniteSet(EventTypes) /\ IsFiniteSet(A) /\ A \in SUBSET EventTypes
  BY EventTypeFinite, EngineAssumption, FS_Subset
<1>2. \A e \in DOMAIN DaysOf : DaysOf[e] \in Nat /\ gross * DaysOf[e] \in Nat
  <2>1. DaysOf \in Tables
    BY DEF Tables
  <2> QED  BY <2>1, TablesOK, ProductNat
<1>3. SumFunction(f) = Total(f, EventTypes)
  BY DEF SumFunction, Total
<1>4. (\A e \in EventTypes : f[e] \in Nat) /\ (\A e \in EventTypes \ A : f[e] = 0)
      /\ (\A e \in A : f[e] = gross * DaysOf[e] /\ DaysOf[e] \in Nat)
  BY <1>1, <1>2
<1>5. Effect(DaysOf, H) = Total(DaysOf, A)
  BY DEF Effect, Total
<1> HIDE DEF f, A
<1>6. Total(f, EventTypes) = Total(f, A)
  BY <1>1, <1>4, TotalPart
<1>7. Total(f, A) = gross * Total(DaysOf, A)
  BY <1>1, <1>4, TotalTimes
<1>8. SumFunction(f) = gross * Effect(DaysOf, H)
  BY <1>3, <1>5, <1>6, <1>7
<1> QED  BY <1>8 DEF f

\* What a step of a call adds to what is written of the incidents of a store.
LEMMA ToldMoves ==
  ASSUME TypeInv, NEW w \in Runners, Step(w), ~Announce(w), ~WriteEvent(w), ~WriteSla(w),
         NEW s \in Written(job[w])
  PROVE  /\ Told(job'[w], s) = Told(job[w], s) /\ Failed(job'[w], s) = Failed(job[w], s)
         /\ UNCHANGED <<events, slas>> /\ (s = job'[w].store => job'[w].step \notin {"events", "slas"})
         /\ (WriteResult(w) => s # job[w].store)
<1> DEFINE q == job[w]
<1>1. q \in Jobs /\ JobOK(q) /\ job \in [Runners -> Jobs] /\ q.round \in Rounds
  BY JobHas, JobFields DEF TypeInv, JobsOK
<1>2. FirstStep(q.round) \notin {"next", "events", "slas"}
  BY <1>1 DEF FirstStep, Rounds
<1>3. CASE \E t \in Stores : NextStore(w, t)
  <2>1. PICK t \in Stores : NextStore(w, t)
    BY <1>3
  <2>2. /\ q.step = "next" /\ t \in q.todo /\ ~WriteResult(w) /\ UNCHANGED <<events, slas>>
        /\ job'[w].step = FirstStep(q.round) /\ job'[w].store = t
    BY <1>1, <2>1 DEF NextStore, WriteResult, At, Jobs, tables
  <2>3. s # t
    BY <2>2 DEF Written
  <2> QED  BY <1>2, <2>2, <2>3 DEF Told, Failed
<1>4. CASE PastResults(w) \/ PastPlans(w) \/ FirstResult(w) \/ FirstPlan(w)
  <2>1. /\ q.step \notin {"next", "events", "slas"} /\ ~WriteResult(w) /\ UNCHANGED <<events, slas>>
        /\ job'[w].step \notin {"next", "events", "slas"} /\ job'[w].store = q.store
    BY <1>1, <1>4 DEF PastResults, PastPlans, FirstResult, FirstPlan, WriteResult, At, Jobs, tables
  <2>2. s # q.store
    BY <2>1 DEF Written
  <2> QED  BY <2>1, <2>2 DEF Told, Failed
<1>5. CASE WriteResult(w)
  <2>1. /\ q.step = "result" /\ job'[w].step = "events" /\ job'[w].store = q.store
        /\ UNCHANGED <<events, slas>>
    BY <1>1, <1>5 DEF WriteResult, At, Jobs
  <2>2. s # q.store
    BY <2>1 DEF Written
  <2> QED  BY <2>1, <2>2 DEF Told, Failed
<1> QED  BY <1>3, <1>4, <1>5 DEF Step

LEMMA LossesKeep ==
  ASSUME LossesAddUp, whole' \subseteq whole,
         \A r \in whole', s \in Stores :
           results'[s][r] = results[s][r] /\ events'[s][r] = events[s][r] /\ slas'[s][r] = slas[s][r]
  PROVE  LossesAddUp'
<1> SUFFICES ASSUME NEW r \in whole', NEW s \in Stores, results'[s][r] # None
             PROVE  /\ results'[s][r].slaLoss = SumFunction([o \in Capex |-> slas'[s][r][o].lost])
                    /\ results'[s][r].downtime = SumFunction([e \in EventTypes |-> events'[s][r][e].lost])
  BY DEF LossesAddUp
<1> QED  BY DEF LossesAddUp

LEMMA LossInit == Init => LossInv
<1> SUFFICES ASSUME Init  PROVE LossInv
  OBVIOUS
<1>1. whole = {} /\ \A w \in Runners : ~Busy(w)
  BY DEF Init, Busy, Idle
<1> QED  BY <1>1 DEF LossInv, LossesAddUp

\* Steps that write no incident.
LEMMA LossStep ==
  ASSUME TypeInv, Alone, DemandInv, LossInv, NEW w \in Runners, Step(w), ~Announce(w),
         ~WriteEvent(w), ~WriteSla(w)
  PROVE  LossInv'
<1> DEFINE q == job[w]
           n == job'[w]
<1>1. q \in Jobs /\ JobOK(q) /\ q.round \in Rounds /\ \A v \in Runners : v = w
  BY JobHas, JobFields, OneRunner DEF TypeInv
<1>2. /\ q.step # "idle" /\ n.step # "idle" /\ n.round = q.round
      /\ n.seen = q.seen /\ luck' = luck /\ whole' = whole
  BY CallGoesOn DEF desk
<1>3. q.round \notin whole
  BY <1>2 DEF DemandInv, Busy
<1>4. \A s \in Written(q) : LossesOf(q, s)
  BY <1>2 DEF LossInv, Busy
<1>5. \A s \in Stores, r \in Rounds : results'[s][r] # results[s][r] =>
        WriteResult(w) /\ s = q.store /\ r = q.round
  <2>1. CASE WriteResult(w)
    BY <1>1, <2>1 DEF WriteResult, TypeInv, TablesTypeOK
  <2>2. CASE ~WriteResult(w)
    <3>1. results' = results
      BY <2>2 DEF Step, NextStore, PastResults, PastPlans, FirstResult, FirstPlan, tables
    <3> QED  BY <3>1
  <2> QED  BY <2>1, <2>2
<1>6. UNCHANGED <<events, slas>>
  BY DEF Step, NextStore, PastResults, PastPlans, FirstResult, FirstPlan, WriteResult, tables
<1>7. LossesAddUp'
  BY <1>2, <1>3, <1>5, <1>6, LossesKeep DEF LossInv, TypeInv, CountsOK
<1>8. ASSUME NEW s \in Written(q)  PROVE LossesOf(job[w], s)'
  <2>1. /\ Told(n, s) = Told(q, s) /\ Failed(n, s) = Failed(q, s)
        /\ (s = n.store => n.step \notin {"events", "slas"}) /\ (WriteResult(w) => s # q.store)
    BY ToldMoves
  <2>2. s \in Stores
    BY DEF Written, Playing
  <2>3. results'[s][q.round] = results[s][q.round]
    BY <1>1, <1>5, <2>1, <2>2
  <2>4. Happened(job[w].seen, job[w].round, s)' = Happened(q.seen, q.round, s)
    BY <1>2 DEF Happened
  <2>5. \A o : OptionDays(job[w].seen[s].decided, job[w].round, s, o)' = OptionDays(q.seen[s].decided, q.round, s, o)
    BY <1>2 DEF OptionDays
  <2>6. LossesOf(q, s)
    BY <1>4
  <2> QED  BY <1>2, <1>6, <2>1, <2>3, <2>4, <2>5, <2>6 DEF LossesOf, EventLoss, SlaLoss
<1>9. CASE ~WriteResult(w)
  <2>1. Written(n) = Written(q)
    BY <1>9, WrittenMoves
  <2> QED  BY <1>1, <1>7, <1>8, <2>1 DEF LossInv
<1>10. CASE WriteResult(w)
  <2>1. Written(n) = Written(q) \cup {q.store}
    BY <1>10, WrittenMoves
  <2> DEFINE row == Result(q, q.store)
             plan == q.seen[q.store].decided
  <2>2. /\ q.step = "result" /\ q.store \in Playing(q.seen) /\ n.step = "events"
        /\ n.left = EventTypes /\ n.store = q.store /\ n.gross = row.gross
        /\ results' = [results EXCEPT ![q.store][q.round] = row]
    BY <1>1, <1>10, JobHas DEF WriteResult, At, JobOK, TypeInv, JobsOK, Jobs
  <2>3. results'[q.store][q.round] = row
    BY <1>1, <2>2 DEF TypeInv, TablesTypeOK, Playing
  <2>4. /\ row.slaLoss = SlaLoss(row.gross, plan, q.round, q.store)
        /\ row.downtime = row.gross * Effect(DaysOf, Happened(q.seen, q.round, q.store))
    BY DEF Result
  <2>5. Told(n, q.store) = {} /\ Failed(n, q.store) = {}
    BY <2>2 DEF Told, Failed
  <2>6. Happened(job[w].seen, job[w].round, q.store)' = Happened(q.seen, q.round, q.store)
    BY <1>2, <2>2 DEF Happened
  <2>7. \A o : OptionDays(job[w].seen[q.store].decided, job[w].round, q.store, o)'
                = OptionDays(plan, q.round, q.store, o)
    BY <1>2, <2>2 DEF OptionDays
  <2>8. LossesOf(job[w], q.store)'
    <3> HIDE DEF row
    <3> QED  BY <1>2, <2>2, <2>3, <2>4, <2>5, <2>6, <2>7 DEF LossesOf, SlaLoss
  <2> HIDE DEF row
  <2>9. \A s \in Written(n) : LossesOf(job[w], s)'
    BY <1>8, <2>1, <2>2, <2>8
  <2> QED  BY <1>1, <1>7, <2>9 DEF LossInv
<1> QED  BY <1>9, <1>10

LEMMA LossEvent ==
  ASSUME TypeInv, Alone, DemandInv, LossInv, NEW w \in Runners, WriteEvent(w)
  PROVE  LossInv'
<1> DEFINE q == job[w]
           n == job'[w]
           e == CHOOSE x \in q.left : TRUE
           row == EventRow(q, q.store, e)
<1>1. q \in Jobs /\ JobOK(q) /\ q.round \in Rounds /\ (\A v \in Runners : v = w)
      /\ Step(w) /\ ~Announce(w) /\ ~WriteResult(w)
  BY JobHas, JobFields, OneRunner DEF TypeInv, WriteEvent, At, Announce, Step, WriteResult
<1>2. /\ n.round = q.round /\ n.seen = q.seen /\ luck' = luck /\ whole' = whole
  BY <1>1, CallGoesOn DEF desk
<1>3. /\ q.step = "events" /\ q.store \in Playing(q.seen) \ q.todo
      /\ q.left \subseteq EventTypes /\ e \in q.left
  BY <1>1 DEF WriteEvent, At, JobOK
<1>4. /\ events' = [events EXCEPT ![q.store][q.round][e] = row]
      /\ results' = results /\ slas' = slas /\ n.store = q.store /\ n.gross = q.gross
      /\ n.step = IF q.left = {e} THEN "slas" ELSE "events"
      /\ n.left = IF q.left = {e} THEN Capex ELSE q.left \ {e}
  BY <1>1, <1>3 DEF WriteEvent, TypeInv, JobsOK, Jobs
<1>5. q.round \notin whole /\ \A s \in Written(q) : LossesOf(q, s)
  BY <1>3 DEF DemandInv, LossInv, Busy
<1>6. Written(n) = Written(q)
  BY <1>1, WrittenMoves
<1>7. row.lost = EventLoss(q, q.store, q.gross, e)
  BY DEF EventRow, EventLoss
<1>8. q.store \in Written(q) /\ q.store \in Stores /\ e \in EventTypes
  BY <1>3 DEF Written, Playing
<1>9. \A s \in Stores, r \in Rounds, x \in EventTypes :
        events'[s][r][x] = IF s = q.store /\ r = q.round /\ x = e THEN row ELSE events[s][r][x]
  <2> HIDE DEF q, e, row
  <2> QED  BY <1>1, <1>4, <1>8 DEF TypeInv, TablesTypeOK
<1>10. LossesAddUp'
  <2>1. \A r \in whole, s \in Stores : events'[s][r] = events[s][r]
    <3> HIDE DEF q, e, row
    <3> QED  BY <1>1, <1>4, <1>5 DEF TypeInv, TablesTypeOK, CountsOK
  <2> QED  BY <1>2, <1>4, <2>1, LossesKeep DEF LossInv
<1>11. ASSUME NEW s \in Written(q)  PROVE LossesOf(job[w], s)'
  <2>1. LossesOf(q, s) /\ s \in Stores
    BY <1>5 DEF Written, Playing
  <2>2. Happened(job[w].seen, job[w].round, s)' = Happened(q.seen, q.round, s)
    BY <1>2 DEF Happened
  <2>3. \A o : OptionDays(job[w].seen[s].decided, job[w].round, s, o)' = OptionDays(q.seen[s].decided, q.round, s, o)
    BY <1>2 DEF OptionDays
  <2>4. Failed(n, s) = Failed(q, s)
    BY <1>3, <1>4 DEF Failed
  <2>5. Told(n, s) = IF s = q.store THEN Told(q, s) \cup {e} ELSE Told(q, s)
    BY <1>3, <1>4 DEF Told
  <2>6. Told(q, s) \subseteq EventTypes
    BY DEF Told
  <2>7. s = q.store => q.gross = results[s][q.round].gross
    BY <1>3, <2>1 DEF LossesOf
  <2> DEFINE gross == results[s][q.round].gross
  <2>8. \A x \in Told(n, s) : events'[s][q.round][x].lost = EventLoss(q, s, gross, x)
    <3>1. \A x \in Told(q, s) : events[s][q.round][x].lost = EventLoss(q, s, gross, x)
      BY <2>1 DEF LossesOf
    <3> HIDE DEF q, e, row, gross, n
    <3>2. CASE s # q.store
      BY <1>1, <1>9, <2>1, <2>5, <2>6, <3>1, <3>2
    <3>3. CASE s = q.store
      <4>1. events'[s][q.round][e].lost = EventLoss(q, s, gross, e)
        BY <1>1, <1>7, <1>8, <1>9, <2>7, <3>3 DEF gross
      <4>2. \A x \in Told(q, s) : x # e => events'[s][q.round][x].lost = EventLoss(q, s, gross, x)
        BY <1>1, <1>9, <2>1, <2>6, <3>1
      <4> QED  BY <2>5, <4>1, <4>2
    <3> QED  BY <3>2, <3>3
  <2>9. \A x : EventLoss(job[w], s, results[s][job[w].round].gross, x)' = EventLoss(q, s, gross, x)
    BY <1>2, <1>4, <2>2 DEF EventLoss
  <2> QED  BY <1>2, <1>4, <2>1, <2>2, <2>3, <2>4, <2>7, <2>8, <2>9 DEF LossesOf, SlaLoss
<1> QED  BY <1>1, <1>6, <1>10, <1>11 DEF LossInv

LEMMA LossSla ==
  ASSUME TypeInv, Alone, DemandInv, LossInv, NEW w \in Runners, WriteSla(w)
  PROVE  LossInv'
<1> DEFINE q == job[w]
           n == job'[w]
           o == CHOOSE x \in q.left : TRUE
           row == SlaRow(q, q.store, o)
<1>1. q \in Jobs /\ JobOK(q) /\ q.round \in Rounds /\ (\A v \in Runners : v = w)
      /\ Step(w) /\ ~Announce(w) /\ ~WriteResult(w)
  BY JobHas, JobFields, OneRunner DEF TypeInv, WriteSla, At, Announce, Step, WriteResult
<1>2. /\ n.round = q.round /\ n.seen = q.seen /\ luck' = luck /\ whole' = whole
  BY <1>1, CallGoesOn DEF desk
<1>3. /\ q.step = "slas" /\ q.store \in Playing(q.seen) \ q.todo
      /\ q.left \subseteq Capex /\ o \in q.left
  BY <1>1 DEF WriteSla, At, JobOK
<1>4. /\ slas' = [slas EXCEPT ![q.store][q.round][o] = row]
      /\ results' = results /\ events' = events /\ n.store = q.store /\ n.gross = q.gross
      /\ n.step = IF q.left = {o} THEN "next" ELSE "slas"
      /\ n.left = q.left \ {o}
  BY <1>1, <1>3 DEF WriteSla, TypeInv, JobsOK, Jobs
<1>5. q.round \notin whole /\ \A s \in Written(q) : LossesOf(q, s)
  BY <1>3 DEF DemandInv, LossInv, Busy
<1>6. Written(n) = Written(q)
  BY <1>1, WrittenMoves
<1>7. row.lost = q.gross * OptionDays(q.seen[q.store].decided, q.round, q.store, o)
  BY DEF SlaRow
<1>8. q.store \in Written(q) /\ q.store \in Stores /\ o \in Capex
  BY <1>3 DEF Written, Playing
<1>9. \A s \in Stores, r \in Rounds, x \in Capex :
        slas'[s][r][x] = IF s = q.store /\ r = q.round /\ x = o THEN row ELSE slas[s][r][x]
  <2> HIDE DEF q, o, row
  <2> QED  BY <1>1, <1>4, <1>8 DEF TypeInv, TablesTypeOK
<1>10. LossesAddUp'
  <2>1. \A r \in whole, s \in Stores : slas'[s][r] = slas[s][r]
    <3> HIDE DEF q, o, row
    <3> QED  BY <1>1, <1>4, <1>5 DEF TypeInv, TablesTypeOK, CountsOK
  <2> QED  BY <1>2, <1>4, <2>1, LossesKeep DEF LossInv
<1>11. ASSUME NEW s \in Written(q)  PROVE LossesOf(job[w], s)'
  <2>1. LossesOf(q, s) /\ s \in Stores
    BY <1>5 DEF Written, Playing
  <2>2. Happened(job[w].seen, job[w].round, s)' = Happened(q.seen, q.round, s)
    BY <1>2 DEF Happened
  <2>3. \A x : OptionDays(job[w].seen[s].decided, job[w].round, s, x)' = OptionDays(q.seen[s].decided, q.round, s, x)
    BY <1>2 DEF OptionDays
  <2>4. Told(n, s) = Told(q, s)
    BY <1>3, <1>4 DEF Told
  <2>5. Failed(n, s) = IF s = q.store THEN Failed(q, s) \cup {o} ELSE Failed(q, s)
    BY <1>3, <1>4 DEF Failed
  <2>6. Failed(q, s) \subseteq Capex
    BY DEF Failed
  <2>7. s = q.store => q.gross = results[s][q.round].gross
    BY <1>3, <2>1 DEF LossesOf
  <2> DEFINE gross == results[s][q.round].gross
             days(x) == OptionDays(q.seen[s].decided, q.round, s, x)
  <2>8. \A x \in Failed(n, s) : slas'[s][q.round][x].lost = gross * days(x)
    <3>1. \A x \in Failed(q, s) : slas[s][q.round][x].lost = gross * days(x)
      BY <2>1 DEF LossesOf
    <3>2. s = q.store => row.lost = gross * days(o)
      BY <1>7, <2>7
    <3> HIDE DEF q, o, row, gross, n, days
    <3>3. CASE s # q.store
      BY <1>1, <1>9, <2>1, <2>5, <2>6, <3>1, <3>3
    <3>4. CASE s = q.store
      <4>1. slas'[s][q.round][o].lost = gross * days(o)
        BY <1>1, <1>8, <1>9, <3>2, <3>4
      <4>2. \A x \in Failed(q, s) : x # o => slas'[s][q.round][x].lost = gross * days(x)
        BY <1>1, <1>9, <2>1, <2>6, <3>1
      <4> QED  BY <2>5, <4>1, <4>2
    <3> QED  BY <3>3, <3>4
  <2>9. \A x : EventLoss(job[w], s, results[s][job[w].round].gross, x)' = EventLoss(q, s, gross, x)
    BY <1>2, <1>4, <2>2 DEF EventLoss
  <2> QED  BY <1>2, <1>4, <2>1, <2>2, <2>3, <2>4, <2>7, <2>8, <2>9 DEF LossesOf, SlaLoss
<1> QED  BY <1>1, <1>6, <1>10, <1>11 DEF LossInv

LEMMA LossAnnounce ==
  ASSUME TypeInv, Alone, DemandInv, LossInv, NEW w \in Runners, Announce(w)
  PROVE  LossInv'
<1> DEFINE q == job[w]
<1>1. q \in Jobs /\ q.round \in Rounds /\ \A v \in Runners : v = w
  BY JobHas, JobFields, OneRunner DEF TypeInv
<1>2. /\ q.step = "next" /\ q.todo = {} /\ whole' = whole \cup {q.round}
      /\ UNCHANGED <<results, events, slas>> /\ job' = [job EXCEPT ![w] = Idle]
  BY DEF Announce, At, tables
<1>3. SharesOf(q) /\ \A s \in Written(q) : LossesOf(q, s)
  BY <1>2 DEF DemandInv, LossInv, Busy
<1>4. ASSUME NEW s \in Stores, results[s][q.round] # None
      PROVE  /\ results[s][q.round].slaLoss = SumFunction([o \in Capex |-> slas[s][q.round][o].lost])
             /\ results[s][q.round].downtime = SumFunction([e \in EventTypes |-> events[s][q.round][e].lost])
  <2> DEFINE row == results[s][q.round]
             plan == q.seen[s].decided
             H == Happened(q.seen, q.round, s)
  <2>1. s \in Written(q) /\ Told(q, s) = EventTypes /\ Failed(q, s) = Capex
    BY <1>2, <1>3, <1>4 DEF SharesOf, Written, Told, Failed
  <2>2. LossesOf(q, s)
    BY <1>3, <2>1
  <2>3. \A o \in Capex : slas[s][q.round][o].lost = row.gross * OptionDays(plan, q.round, s, o)
    BY <2>1, <2>2 DEF LossesOf
  <2>4. [o \in Capex |-> slas[s][q.round][o].lost] = [o \in Capex |-> row.gross * OptionDays(plan, q.round, s, o)]
    BY <2>3
  <2>5. row.slaLoss = SlaLoss(row.gross, plan, q.round, s)
    BY <2>2 DEF LossesOf
  <2>6. \A e \in EventTypes : events[s][q.round][e].lost =
          IF e \in H /\ e \in DOMAIN DaysOf THEN row.gross * DaysOf[e] ELSE 0
    BY <2>1, <2>2 DEF LossesOf, EventLoss
  <2>7. [e \in EventTypes |-> events[s][q.round][e].lost] =
          [e \in EventTypes |-> IF e \in H /\ e \in DOMAIN DaysOf THEN row.gross * DaysOf[e] ELSE 0]
    BY <2>6
  <2>8. row.downtime = row.gross * Effect(DaysOf, H)
    BY <2>2 DEF LossesOf
  <2>9. row.gross \in Nat
    <3>1. PICK x \in RowOK(q.round) : x = row
      BY <1>1, <1>4 DEF TypeInv, TablesTypeOK
    <3> QED  BY <3>1 DEF RowOK, Row
  <2>10. H \in SUBSET EventTypes
    BY DEF Happened
  <2> HIDE DEF row, H
  <2>11. SumFunction([e \in EventTypes |-> IF e \in H /\ e \in DOMAIN DaysOf THEN row.gross * DaysOf[e] ELSE 0])
           = row.gross * Effect(DaysOf, H)
    BY <2>9, <2>10, DowntimeAdds
  <2>12. row.downtime = SumFunction([e \in EventTypes |-> events[s][q.round][e].lost])
    BY <2>7, <2>8, <2>11
  <2>13. row.slaLoss = SumFunction([o \in Capex |-> slas[s][q.round][o].lost])
    BY <2>4, <2>5 DEF SlaLoss
  <2> QED  BY <2>12, <2>13 DEF row
<1>5. LossesAddUp'
  <2> SUFFICES ASSUME NEW r \in whole', NEW s \in Stores, results'[s][r] # None
               PROVE  /\ results'[s][r].slaLoss = SumFunction([o \in Capex |-> slas'[s][r][o].lost])
                      /\ results'[s][r].downtime = SumFunction([e \in EventTypes |-> events'[s][r][e].lost])
    BY DEF LossesAddUp
  <2> QED  BY <1>2, <1>4 DEF LossInv, LossesAddUp
<1>6. ~Busy(w)'
  BY <1>1, <1>2 DEF Busy, TypeInv, JobsOK, Idle
<1> QED  BY <1>1, <1>5, <1>6 DEF LossInv

\* Calls that start or fail, and the players.
LEMMA LossRest ==
  ASSUME TypeInv, Alone, LossInv, UNCHANGED tables, luck' = luck, whole' \subseteq whole,
         \A w \in Runners : job'[w] = job[w] \/ job'[w] = Idle \/ Written(job'[w]) = {}
  PROVE  LossInv'
<1>1. LossesAddUp'
  BY LossesKeep DEF LossInv, tables
<1>2. ASSUME NEW w \in Runners, Busy(w)', NEW s \in Written(job'[w])  PROVE LossesOf(job[w], s)'
  <2>1. job'[w] = job[w] /\ Busy(w)
    BY <1>2 DEF Busy, Idle
  <2>2. LossesOf(job[w], s)
    BY <1>2, <2>1 DEF LossInv
  <2>3. Happened(job[w].seen, job[w].round, s)' = Happened(job[w].seen, job[w].round, s)
    BY <2>1 DEF Happened
  <2>4. \A x : OptionDays(job[w].seen[s].decided, job[w].round, s, x)'
                = OptionDays(job[w].seen[s].decided, job[w].round, s, x)
    BY <2>1 DEF OptionDays
  <2>5. \A x : EventLoss(job[w], s, results[s][job[w].round].gross, x)'
                = EventLoss(job[w], s, results[s][job[w].round].gross, x)
    BY <2>1, <2>3 DEF EventLoss, tables
  <2> QED  BY <2>1, <2>2, <2>3, <2>4, <2>5 DEF LossesOf, tables, SlaLoss
<1> QED  BY <1>1, <1>2 DEF LossInv

LEMMA LossNext == Alone /\ TypeInv /\ DemandInv /\ LossInv /\ [Next]_vars => LossInv'
<1> SUFFICES ASSUME Alone, TypeInv, DemandInv, LossInv, [Next]_vars  PROVE LossInv'
  OBVIOUS
<1>1. ASSUME NEW w \in Runners, NEW r \in Rounds, Load(w, r)  PROVE LossInv'
  <2>1. /\ UNCHANGED tables /\ luck' = luck /\ whole' \subseteq whole
        /\ \A v \in Runners : Written(job'[v]) = {}
    BY <1>1, LoadIs, OneRunner DEF Load, desk
  <2> QED  BY <2>1, LossRest
<1>2. ASSUME NEW w \in Runners, Step(w)  PROVE LossInv'
  BY <1>2, LossStep, LossEvent, LossSla, LossAnnounce
<1>3. ASSUME NEW w \in Runners, Fail(w)  PROVE LossInv'
  <2>1. /\ UNCHANGED tables /\ luck' = luck /\ whole' \subseteq whole
        /\ \A v \in Runners : job'[v] = job[v] \/ job'[v] = Idle
    BY <1>3 DEF Fail, desk, history, TypeInv, JobsOK
  <2> QED  BY <2>1, LossRest
<1>4. ASSUME \/ \E s \in Stores, phase \in Status : Visit(s, VersionShown(phase))
             \/ \E s \in Stores, v \in Versions :
                  Confirm(s, v) \/ \E choice \in Options : Edit(s, v, choice)
             \/ \E s \in Stores, r \in Rounds, n \in Scores : Consolidate(s, r, n)
      PROVE  LossInv'
  <2>1. UNCHANGED <<luck, tables, whole, job>>
    BY <1>4, PlayersOK DEF history
  <2> QED  BY <2>1, LossRest
<1>5. CASE UNCHANGED vars
  <2>1. UNCHANGED <<luck, tables, whole, job>>
    BY <1>5 DEF vars, tables, desk, history
  <2> QED  BY <2>1, LossRest
<1> QED  BY <1>1, <1>2, <1>3, <1>4, <1>5 DEF Next

\* While one call runs at a time, the losses in the result of a store are those
\* of its incidents, each in a row of its own, once a call ran to its end.
THEOREM LossesTheorem == Alone => (EngineSpec => []LossesAddUp)
<1> SUFFICES ASSUME Alone  PROVE EngineSpec => []LossesAddUp
  OBVIOUS
<1>1. TypeInv /\ DemandInv /\ [Next]_vars => DemandInv'
  BY DemandNext
<1>2. TypeInv /\ DemandInv /\ LossInv /\ [Next]_vars => LossInv'
  BY LossNext
<1>3. LossInv => LossesAddUp
  BY DEF LossInv
<1> QED  BY <1>1, <1>2, <1>3, DemandInit, LossInit, TypeAlways, PTL DEF EngineSpec

-----------------------------------------------------------------------------
(* The proof that settled rounds come out the same.                        *)

LEMMA IdealFields ==
  ASSUME NEW r, NEW s
  PROVE  /\ Ideal(r, s).round = r /\ Ideal(r, s).seen = Wanted(r)
         /\ Ideal(r, s).market = Competition(Wanted(r), Answers(r), r)
         /\ Ideal(r, s).pastResults = [k \in 1..2 |-> results[s][k]]
         /\ Ideal(r, s).pastPlans = [v \in 1..2 |-> plans[s][v]]
         /\ Ideal(r, s).firstResult = IF r = 1 THEN None ELSE results[s][1]
         /\ Ideal(r, s).firstPlan = IF r = 1 \/ results[s][1] = None THEN None ELSE plans[s][1]
         /\ IdealJob(r, s).round = r /\ IdealJob(r, s).seen = Wanted(r)
         /\ IdealJob(r, s).gross = IdealRow(r, s).gross
BY DEF Ideal, IdealJob, Idle

\* What a result, an event and an option depend on.
LEMMA ResultSame ==
  ASSUME NEW p, NEW q, NEW s, p.round = q.round, p.seen = q.seen, p.market = q.market,
         p.firstResult = q.firstResult, p.firstPlan = q.firstPlan,
         p.round = 3 => p.pastResults = q.pastResults /\ p.pastPlans = q.pastPlans
  PROVE  Result(p, s) = Result(q, s)
<1>1. CASE p.round # 3
  BY <1>1 DEF Result
<1>2. CASE p.round = 3
  <2>1. q.round = 3 /\ p.pastResults = q.pastResults /\ p.pastPlans = q.pastPlans
    BY <1>2
  <2> QED  BY <2>1 DEF Result
<1> QED  BY <1>1, <1>2

LEMMA IncidentsSame ==
  ASSUME NEW p, NEW q, NEW s, p.round = q.round, p.seen = q.seen, p.gross = q.gross
  PROVE  /\ \A e : EventRow(p, s, e) = EventRow(q, s, e)
         /\ \A o : SlaRow(p, s, o) = SlaRow(q, s, o)
BY DEF EventRow, SlaRow

\* A sound call writes what the ideal one would.
LEMMA SoundWrites ==
  ASSUME NEW q, SoundJob(q), q.step \in {"result", "events", "slas"}
  PROVE  /\ q.step = "result" => Result(q, q.store) = IdealRow(q.round, q.store)
         /\ q.step # "result" => /\ \A e : EventRow(q, q.store, e) = IdealEvent(q.round, q.store, e)
                                 /\ \A o : SlaRow(q, q.store, o) = IdealSla(q.round, q.store, o)
<1>1. PICK p : p = Ideal(q.round, q.store)
  OBVIOUS
<1>2. PICK j : j = IdealJob(q.round, q.store)
  OBVIOUS
<1>3. ReadSoFar(q)
  BY DEF SoundJob
<1>4. CASE q.step = "result"
  <2>1. /\ p.round = q.round /\ p.seen = q.seen /\ p.market = q.market
        /\ p.firstResult = q.firstResult /\ p.firstPlan = q.firstPlan
        /\ p.round = 3 => p.pastResults = q.pastResults /\ p.pastPlans = q.pastPlans
    BY <1>1, <1>3, <1>4, IdealFields DEF SoundJob, ReadSoFar
  <2>2. Result(p, q.store) = Result(q, q.store)
    BY <2>1, ResultSame
  <2> QED  BY <1>1, <1>4, <2>2 DEF IdealRow
<1>5. CASE q.step # "result"
  <2>1. j.round = q.round /\ j.seen = q.seen /\ j.gross = q.gross
    BY <1>2, <1>3, <1>5, IdealFields DEF SoundJob, ReadSoFar
  <2>2. /\ \A e : EventRow(j, q.store, e) = EventRow(q, q.store, e)
        /\ \A o : SlaRow(j, q.store, o) = SlaRow(q, q.store, o)
    BY <2>1, IncidentsSame
  <2> QED  BY <1>2, <1>5, <2>2 DEF IdealEvent, IdealSla
<1> QED  BY <1>4, <1>5

\* No operation changes the plans and the scores of a locked round.
LEMMA LockedKept ==
  ASSUME TypeInv, [Next]_vars, NEW r \in Rounds, Locked(r)
  PROVE  Locked(r)' /\ Wanted(r)' = Wanted(r) /\ Answers(r)' = Answers(r)
<1>1. ConfigVersion(r) \in Versions
  BY DEF ConfigVersion, Rounds, Versions
<1>2. CASE \/ \E s \in Stores, phase \in Status : Visit(s, VersionShown(phase))
           \/ \E s \in Stores, v \in Versions :
                Confirm(s, v) \/ \E choice \in Options : Edit(s, v, choice)
           \/ \E s \in Stores, x \in Rounds, n \in Scores : Consolidate(s, x, n)
  <2>1. \A s \in Stores : plans'[s][ConfigVersion(r)] = plans[s][ConfigVersion(r)]
    BY <1>1, <1>2, PlansStay DEF Locked
  <2>2. \A s \in Stores : quiz'[s][r] = quiz[s][r]
    <3>1. CASE \E s \in Stores, x \in Rounds, n \in Scores : Consolidate(s, x, n)
      BY <3>1 DEF Consolidate, Locked, TypeInv, DeskOK
    <3>2. CASE ~\E s \in Stores, x \in Rounds, n \in Scores : Consolidate(s, x, n)
      BY <1>2, <3>2 DEF Visit, Confirm, Edit
    <3> QED  BY <3>1, <3>2
  <2> QED  BY <2>1, <2>2 DEF Locked, Wanted, Answers
<1>3. CASE UNCHANGED desk
  BY <1>3 DEF Locked, Wanted, Answers, desk
<1>4. CASE \E w \in Runners : (\E x \in Rounds : Load(w, x)) \/ Step(w) \/ Fail(w)
  BY <1>3, <1>4 DEF Load, Step, Fail, NextStore, PastResults, PastPlans, FirstResult, FirstPlan,
                    WriteResult, WriteEvent, WriteSla, Announce
<1>5. CASE UNCHANGED vars
  BY <1>3, <1>5 DEF vars
<1> QED  BY <1>2, <1>4, <1>5 DEF Next

\* The rows of a settled round stay, and the round stays settled.
LEMMA SettledKept ==
  ASSUME TypeInv, SettledInv, [Next]_vars, NEW r \in settled, NEW s \in Stores
  PROVE  /\ r \in settled' /\ results'[s][r] = results[s][r]
         /\ events'[s][r] = events[s][r] /\ slas'[s][r] = slas[s][r]
<1>0. r \in Rounds /\ TypeInv'
  BY TypeNext DEF TypeInv, CountsOK
<1>1. ASSUME NEW w \in Runners, job[w].step \in {"result", "events", "slas"}, job[w].round = r
      PROVE  SoundJob(job[w]) /\ job[w] \in Jobs /\ JobOK(job[w]) /\ job[w].store \in Stores
  BY <1>1, JobHas DEF SettledInv, Busy, TypeInv, JobOK, Playing
<1>2. ASSUME NEW w \in Runners, WriteResult(w)
      PROVE  results'[s][r] = results[s][r]
  <2> DEFINE q == job[w]
             row == Result(q, q.store)
  <2>1. q.step = "result" /\ results' = [results EXCEPT ![q.store][q.round] = row]
    BY <1>2 DEF WriteResult, At
  <2>2. CASE q.round # r \/ q.store # s
    <3> HIDE DEF q, row
    <3> QED  BY <1>0, <2>1, <2>2 DEF TypeInv, TablesTypeOK
  <2>3. CASE q.round = r /\ q.store = s
    <3>1. row = IdealRow(r, s)
      BY <1>1, <2>1, <2>3, SoundWrites
    <3>2. results[s][r] = IdealRow(r, s)
      BY DEF SettledInv, SettledRows
    <3> HIDE DEF q, row
    <3> QED  BY <1>0, <2>1, <2>3, <3>1, <3>2 DEF TypeInv, TablesTypeOK
  <2> QED  BY <2>2, <2>3
<1>3. ASSUME NEW w \in Runners, WriteEvent(w)
      PROVE  events'[s][r] = events[s][r]
  <2> DEFINE q == job[w]
             e == CHOOSE x \in q.left : TRUE
             row == EventRow(q, q.store, e)
  <2>1. q.step = "events" /\ events' = [events EXCEPT ![q.store][q.round][e] = row]
    BY <1>3 DEF WriteEvent, At
  <2>2. CASE q.round # r \/ q.store # s
    <3> HIDE DEF q, e, row
    <3> QED  BY <1>0, <2>1, <2>2 DEF TypeInv, TablesTypeOK
  <2>3. CASE q.round = r /\ q.store = s
    <3>1. e \in EventTypes
      BY <1>1, <2>1, <2>3 DEF JobOK
    <3>2. row = IdealEvent(r, s, e)
      BY <1>1, <2>1, <2>3, SoundWrites
    <3>3. events[s][r][e] = IdealEvent(r, s, e)
      BY <3>1 DEF SettledInv, SettledRows
    <3> HIDE DEF q, e, row
    <3>4. \A x \in EventTypes : events'[s][r][x] = events[s][r][x]
      BY <1>0, <2>1, <2>3, <3>1, <3>2, <3>3 DEF TypeInv, TablesTypeOK
    <3>5. events[s][r] \in [EventTypes -> Loss \cup {None}] /\ events'[s][r] \in [EventTypes -> Loss \cup {None}]
      BY <1>0 DEF TypeInv, TablesTypeOK
    <3> QED  BY <3>4, <3>5
  <2> QED  BY <2>2, <2>3
<1>4. ASSUME NEW w \in Runners, WriteSla(w)
      PROVE  slas'[s][r] = slas[s][r]
  <2> DEFINE q == job[w]
             o == CHOOSE x \in q.left : TRUE
             row == SlaRow(q, q.store, o)
  <2>1. q.step = "slas" /\ slas' = [slas EXCEPT ![q.store][q.round][o] = row]
    BY <1>4 DEF WriteSla, At
  <2>2. CASE q.round # r \/ q.store # s
    <3> HIDE DEF q, o, row
    <3> QED  BY <1>0, <2>1, <2>2 DEF TypeInv, TablesTypeOK
  <2>3. CASE q.round = r /\ q.store = s
    <3>1. o \in Capex
      BY <1>1, <2>1, <2>3 DEF JobOK
    <3>2. row = IdealSla(r, s, o)
      BY <1>1, <2>1, <2>3, SoundWrites
    <3>3. slas[s][r][o] = IdealSla(r, s, o)
      BY <3>1 DEF SettledInv, SettledRows
    <3> HIDE DEF q, o, row
    <3>4. \A x \in Capex : slas'[s][r][x] = slas[s][r][x]
      BY <1>0, <2>1, <2>3, <3>1, <3>2, <3>3 DEF TypeInv, TablesTypeOK
    <3>5. slas[s][r] \in [Capex -> Loss \cup {None}] /\ slas'[s][r] \in [Capex -> Loss \cup {None}]
      BY <1>0 DEF TypeInv, TablesTypeOK
    <3> QED  BY <3>4, <3>5
  <2> QED  BY <2>2, <2>3
<1>5. CASE \E w \in Runners : WriteResult(w) \/ WriteEvent(w) \/ WriteSla(w)
  BY <1>2, <1>3, <1>4, <1>5 DEF WriteResult, WriteEvent, WriteSla, history
<1>6. CASE \E w \in Runners : (\E x \in Rounds : Load(w, x)) \/ Fail(w) \/ Announce(w)
                             \/ PastResults(w) \/ PastPlans(w) \/ FirstResult(w) \/ FirstPlan(w)
                             \/ \E t \in Stores : NextStore(w, t)
  BY <1>6 DEF Load, Fail, Announce, PastResults, PastPlans, FirstResult, FirstPlan, NextStore, history, tables
<1>7. CASE \/ \E t \in Stores, phase \in Status : Visit(t, VersionShown(phase))
           \/ \E t \in Stores, v \in Versions :
                Confirm(t, v) \/ \E choice \in Options : Edit(t, v, choice)
           \/ \E t \in Stores, x \in Rounds, n \in Scores : Consolidate(t, x, n)
  BY <1>7, PlayersOK DEF history, tables
<1>8. CASE UNCHANGED vars
  BY <1>8 DEF vars, history, tables
<1> QED  BY <1>5, <1>6, <1>7, <1>8 DEF Next, Step

LEMMA SettledGrows ==
  ASSUME [Next]_vars
  PROVE  settled \subseteq settled'
<1>1. CASE \E w \in Runners : (\E x \in Rounds : Load(w, x)) \/ Step(w) \/ Fail(w)
  BY <1>1 DEF Load, Step, Fail, NextStore, PastResults, PastPlans, FirstResult, FirstPlan,
              WriteResult, WriteEvent, WriteSla, Announce, history
<1>2. CASE \/ \E t \in Stores, phase \in Status : Visit(t, VersionShown(phase))
           \/ \E t \in Stores, v \in Versions :
                Confirm(t, v) \/ \E choice \in Options : Edit(t, v, choice)
           \/ \E t \in Stores, x \in Rounds, n \in Scores : Consolidate(t, x, n)
  BY <1>2 DEF Visit, Confirm, Edit, Consolidate, history
<1>3. CASE UNCHANGED vars
  BY <1>3 DEF vars, history
<1> QED  BY <1>1, <1>2, <1>3 DEF Next

\* What the rows of a round stand on stays.
LEMMA GroundKept ==
  ASSUME TypeInv, SettledInv, [Next]_vars, NEW r \in Rounds, Ground(r)
  PROVE  /\ Ground(r)' /\ Wanted(r)' = Wanted(r) /\ Answers(r)' = Answers(r) /\ luck' = luck
         /\ \A s \in Stores :
              /\ r # 1 => results'[s][1] = results[s][1] /\ plans'[s][1] = plans[s][1]
              /\ r = 3 => results'[s][2] = results[s][2] /\ plans'[s][2] = plans[s][2]
<1>1. Locked(r)' /\ Wanted(r)' = Wanted(r) /\ Answers(r)' = Answers(r)
  BY LockedKept DEF Ground
<1>2. \A k \in settled, s \in Stores : k \in settled' /\ results'[s][k] = results[s][k]
  BY SettledKept
<1>3. Ground(r)'
  BY <1>1, SettledGrows DEF Ground
<1>4. luck' = luck
  <2>1. CASE UNCHANGED desk
    BY <2>1 DEF desk
  <2>2. CASE \E w \in Runners : (\E x \in Rounds : Load(w, x)) \/ Step(w) \/ Fail(w)
    BY <2>1, <2>2 DEF Load, Step, Fail, NextStore, PastResults, PastPlans, FirstResult, FirstPlan,
                      WriteResult, WriteEvent, WriteSla, Announce
  <2>3. CASE UNCHANGED vars
    BY <2>1, <2>3 DEF vars
  <2> QED  BY <2>2, <2>3, PlayersOK DEF Next
<1>5. r # 1 => 1 \in settled
  BY DEF Ground, Rounds
<1>6. ASSUME r # 1, NEW s \in Stores  PROVE plans'[s][1] = plans[s][1]
  <2>1. Locked(1) /\ 1 \in Rounds
    BY <1>5, <1>6 DEF SettledInv, SettledRows, Ground, Rounds
  <2>2. Wanted(1)' = Wanted(1)
    BY <2>1, LockedKept
  <2>3. Wanted(1)[s] = plans[s][1] /\ Wanted(1)'[s] = plans'[s][1]
    BY DEF Wanted, ConfigVersion
  <2> QED  BY <2>2, <2>3
<1>7. ASSUME r = 3, NEW s \in Stores  PROVE results'[s][2] = results[s][2] /\ plans'[s][2] = plans[s][2]
  <2>1. 2 \in settled
    BY <1>7 DEF Ground
  <2>2. Wanted(3)[s] = plans[s][2] /\ Wanted(3)'[s] = plans'[s][2]
    BY DEF Wanted, ConfigVersion
  <2> QED  BY <1>1, <1>2, <1>7, <2>1, <2>2
<1> QED  BY <1>1, <1>2, <1>3, <1>4, <1>5, <1>6, <1>7

\* What the demand of a round comes to depends on its plans and scores only.
LEMMA CompetitionKept ==
  ASSUME NEW r, Wanted(r)' = Wanted(r), Answers(r)' = Answers(r), luck' = luck
  PROVE  Competition(Wanted(r), Answers(r), r)' = Competition(Wanted(r), Answers(r), r)
<1>1. \A seen, x, t : Happened(seen, x, t)' = Happened(seen, x, t)
  BY DEF Happened
<1>2. \A seen, scores, x : Indicators(seen, scores, x)' = Indicators(seen, scores, x)
  BY <1>1 DEF Indicators
<1>3. \A seen, scores, x : Competition(seen, scores, x)' = Competition(seen, scores, x)
  BY <1>2 DEF Competition
<1>4. PICK a : a = Wanted(r)
  OBVIOUS
<1>5. PICK b : b = Answers(r)
  OBVIOUS
<1>6. Competition(a, b, r)' = Competition(a, b, r)
  BY <1>3
<1> QED  BY <1>4, <1>5, <1>6

\* What the rows of a round come to depends on what they stand on only.
LEMMA IdealKept ==
  ASSUME NEW r \in Rounds, NEW s \in Stores,
         Wanted(r)' = Wanted(r), Answers(r)' = Answers(r), luck' = luck,
         r # 1 => results'[s][1] = results[s][1] /\ plans'[s][1] = plans[s][1],
         r = 3 => results'[s][2] = results[s][2] /\ plans'[s][2] = plans[s][2]
  PROVE  /\ IdealRow(r, s)' = IdealRow(r, s)
         /\ Competition(Wanted(r), Answers(r), r)' = Competition(Wanted(r), Answers(r), r)
         /\ \A e : IdealEvent(r, s, e)' = IdealEvent(r, s, e)
         /\ \A o : IdealSla(r, s, o)' = IdealSla(r, s, o)
<1>1. \A seen, x, t : Happened(seen, x, t)' = Happened(seen, x, t)
  BY DEF Happened
<1>2. \A plan, x, t, o : OptionDays(plan, x, t, o)' = OptionDays(plan, x, t, o)
  BY DEF OptionDays
<1>5. ASSUME NEW q, NEW t  PROVE Result(q, t)' = Result(q, t)
  <2>1. Happened(q.seen, q.round, t)' = Happened(q.seen, q.round, t)
    BY <1>1
  <2>2. ASSUME NEW g, NEW plan
        PROVE  SlaLoss(g, plan, q.round, t)' = SlaLoss(g, plan, q.round, t)
    BY <1>2 DEF SlaLoss
  <2> QED  BY <2>1, <2>2 DEF Result
<1>6. ASSUME NEW q, NEW t  PROVE /\ \A e : EventRow(q, t, e)' = EventRow(q, t, e)
                                /\ \A o : SlaRow(q, t, o)' = SlaRow(q, t, o)
  BY <1>1, <1>2 DEF EventRow, SlaRow
<1>9. Competition(Wanted(r), Answers(r), r)' = Competition(Wanted(r), Answers(r), r)
  BY CompetitionKept
<1>10. PICK p : p = Ideal(r, s)
  OBVIOUS
<1>11. PICK n : n = Ideal(r, s)'
  OBVIOUS
<1>12. IdealRow(r, s)' = IdealRow(r, s)
  <2>1. /\ p.round = r /\ p.seen = Wanted(r) /\ p.market = Competition(Wanted(r), Answers(r), r)
        /\ p.pastResults = [k \in 1..2 |-> results[s][k]] /\ p.pastPlans = [v \in 1..2 |-> plans[s][v]]
        /\ p.firstResult = IF r = 1 THEN None ELSE results[s][1]
        /\ p.firstPlan = IF r = 1 \/ results[s][1] = None THEN None ELSE plans[s][1]
    BY <1>10, IdealFields
  <2>2. /\ n.round = r /\ n.seen = Wanted(r)' /\ n.market = Competition(Wanted(r), Answers(r), r)'
        /\ n.pastResults = [k \in 1..2 |-> results'[s][k]] /\ n.pastPlans = [v \in 1..2 |-> plans'[s][v]]
        /\ n.firstResult = IF r = 1 THEN None ELSE results'[s][1]
        /\ n.firstPlan = IF r = 1 \/ results'[s][1] = None THEN None ELSE plans'[s][1]
    BY <1>11 DEF Ideal, Idle
  <2>3. /\ n.round = p.round /\ n.seen = p.seen /\ n.market = p.market
        /\ n.firstResult = p.firstResult /\ n.firstPlan = p.firstPlan
        /\ n.round = 3 => n.pastResults = p.pastResults /\ n.pastPlans = p.pastPlans
    BY <1>9, <2>1, <2>2
  <2>4. Result(n, s) = Result(p, s)
    BY <2>3, ResultSame
  <2>5. Result(n, s)' = Result(n, s)
    BY <1>5
  <2>6. IdealRow(r, s)' = Result(n, s)'
    BY <1>11 DEF IdealRow
  <2> QED  BY <1>10, <2>4, <2>5, <2>6 DEF IdealRow
<1>13. PICK j : j = IdealJob(r, s)
  OBVIOUS
<1>14. PICK i : i = IdealJob(r, s)'
  OBVIOUS
<1>15. /\ \A e : EventRow(i, s, e) = EventRow(j, s, e)
       /\ \A o : SlaRow(i, s, o) = SlaRow(j, s, o)
  <2>1. j.round = r /\ j.seen = Wanted(r) /\ j.gross = IdealRow(r, s).gross
    BY <1>13 DEF IdealJob, Ideal, Idle
  <2>2. i.round = r /\ i.seen = Wanted(r)' /\ i.gross = IdealRow(r, s)'.gross
    BY <1>14 DEF IdealJob, Ideal, Idle
  <2> QED  BY <1>12, <2>1, <2>2, IncidentsSame
<1>16. ASSUME NEW e  PROVE IdealEvent(r, s, e)' = IdealEvent(r, s, e)
  <2>1. IdealEvent(r, s, e)' = EventRow(i, s, e)'
    BY <1>14 DEF IdealEvent
  <2> QED  BY <1>6, <1>13, <1>15, <2>1 DEF IdealEvent
<1>17. ASSUME NEW o  PROVE IdealSla(r, s, o)' = IdealSla(r, s, o)
  <2>1. IdealSla(r, s, o)' = SlaRow(i, s, o)'
    BY <1>14 DEF IdealSla
  <2> QED  BY <1>6, <1>13, <1>15, <2>1 DEF IdealSla
<1> QED  BY <1>9, <1>12, <1>16, <1>17

LEMMA SettledInit == Init => SettledInv
<1> SUFFICES ASSUME Init  PROVE SettledInv
  OBVIOUS
<1>1. settled = {} /\ \A w \in Runners : ~Busy(w)
  BY DEF Init, Busy, Idle
<1> QED  BY <1>1 DEF SettledInv, SettledRows

\* A settled round is one in the next state too.
LEMMA SettledPart ==
  ASSUME TypeInv, SettledInv, [Next]_vars, NEW r \in settled, NEW s \in Stores
  PROVE  /\ Ground(r)'
         /\ results'[s][r] = IdealRow(r, s)'
         /\ \A e \in EventTypes : events'[s][r][e] = IdealEvent(r, s, e)'
         /\ \A o \in Capex : slas'[s][r][o] = IdealSla(r, s, o)'
<1>1. /\ r \in Rounds /\ Ground(r) /\ results[s][r] = IdealRow(r, s)
      /\ \A e \in EventTypes : events[s][r][e] = IdealEvent(r, s, e)
      /\ \A o \in Capex : slas[s][r][o] = IdealSla(r, s, o)
  BY DEF TypeInv, CountsOK, SettledInv, SettledRows
<1>2. results'[s][r] = results[s][r] /\ events'[s][r] = events[s][r] /\ slas'[s][r] = slas[s][r]
  BY SettledKept
<1>3. /\ Ground(r)' /\ Wanted(r)' = Wanted(r) /\ Answers(r)' = Answers(r) /\ luck' = luck
      /\ r # 1 => results'[s][1] = results[s][1] /\ plans'[s][1] = plans[s][1]
      /\ r = 3 => results'[s][2] = results[s][2] /\ plans'[s][2] = plans[s][2]
  BY <1>1, GroundKept
<1>4. /\ IdealRow(r, s)' = IdealRow(r, s)
      /\ \A e : IdealEvent(r, s, e)' = IdealEvent(r, s, e)
      /\ \A o : IdealSla(r, s, o)' = IdealSla(r, s, o)
  BY <1>1, <1>3, IdealKept
<1> QED  BY <1>1, <1>2, <1>3, <1>4

\* What a sound call has read and written is right after its next step too.
LEMMA SoundRows ==
  ASSUME TypeInv, SettledInv, NEW w \in Runners, Step(w), ~Announce(w), SoundJob(job[w]),
         NEW s \in Written(job'[w])
  PROVE  /\ results'[s][job[w].round] = IdealRow(job[w].round, s)
         /\ \A e \in Told(job'[w], s) : events'[s][job[w].round][e] = IdealEvent(job[w].round, s, e)
         /\ \A o \in Failed(job'[w], s) : slas'[s][job[w].round][o] = IdealSla(job[w].round, s, o)
<1> DEFINE q == job[w]
           n == job'[w]
           r == job[w].round
<1>1. /\ q \in Jobs /\ JobOK(q) /\ r \in Rounds /\ n.seen = q.seen /\ s \in Stores
      /\ job \in [Runners -> Jobs]
  BY JobHas, JobFields, CallGoesOn DEF TypeInv, JobsOK, Written, Playing
<1>2. ASSUME s \in Written(q)
      PROVE  /\ results[s][r] = IdealRow(r, s)
             /\ \A e \in Told(q, s) : events[s][r][e] = IdealEvent(r, s, e)
             /\ \A o \in Failed(q, s) : slas[s][r][o] = IdealSla(r, s, o)
  BY <1>2 DEF SoundJob
<1>3. CASE ~WriteResult(w) /\ ~WriteEvent(w) /\ ~WriteSla(w)
  <2>1. results' = results
    BY <1>3 DEF Step, NextStore, PastResults, PastPlans, FirstResult, FirstPlan, tables
  <2>2. s \in Written(q)
    BY <1>3, WrittenMoves
  <2>3. Told(n, s) = Told(q, s) /\ Failed(n, s) = Failed(q, s) /\ events' = events /\ slas' = slas
    BY <1>3, <2>2, ToldMoves
  <2> QED  BY <1>2, <2>1, <2>2, <2>3
<1>4. CASE WriteResult(w)
  <2> DEFINE row == Result(q, q.store)
  <2>1. /\ q.step = "result" /\ results' = [results EXCEPT ![q.store][q.round] = row]
        /\ events' = events /\ slas' = slas /\ n.store = q.store /\ n.step = "events" /\ n.left = EventTypes
        /\ ~WriteEvent(w) /\ ~WriteSla(w)
    BY <1>1, <1>4 DEF WriteResult, WriteEvent, WriteSla, At, Jobs
  <2>2. Written(n) = Written(q) \cup {q.store}
    BY <1>4, WrittenMoves
  <2>3. CASE s = q.store
    <3>1. row = IdealRow(r, s)
      BY <2>1, <2>3, SoundWrites
    <3>2. Told(n, s) = {} /\ Failed(n, s) = {}
      BY <2>1, <2>3 DEF Told, Failed
    <3>3. results'[s][r] = row
      <4> HIDE DEF row
      <4> QED  BY <1>1, <2>1, <2>3 DEF TypeInv, TablesTypeOK
    <3> QED  BY <3>1, <3>2, <3>3
  <2>4. CASE s # q.store
    <3>1. s \in Written(q)
      BY <2>2, <2>4
    <3>2. Told(n, s) = Told(q, s) /\ Failed(n, s) = Failed(q, s)
      BY <2>1, <3>1, ToldMoves
    <3>3. results'[s][r] = results[s][r]
      <4> HIDE DEF row
      <4> QED  BY <1>1, <2>1, <2>4 DEF TypeInv, TablesTypeOK
    <3> QED  BY <1>2, <2>1, <3>1, <3>2, <3>3
  <2> QED  BY <2>3, <2>4
<1>5. CASE WriteEvent(w)
  <2> DEFINE e == CHOOSE x \in q.left : TRUE
             row == EventRow(q, q.store, e)
  <2>1. /\ q.step = "events" /\ events' = [events EXCEPT ![q.store][q.round][e] = row]
        /\ results' = results /\ slas' = slas /\ n.store = q.store /\ ~WriteResult(w)
        /\ n.step = IF q.left = {e} THEN "slas" ELSE "events"
        /\ n.left = IF q.left = {e} THEN Capex ELSE q.left \ {e}
    BY <1>1, <1>5 DEF WriteEvent, WriteResult, At, Jobs
  <2>2. s \in Written(q)
    BY <2>1, WrittenMoves
  <2>3. q.left \subseteq EventTypes /\ e \in q.left
    BY <1>1, <2>1 DEF JobOK
  <2>4. Failed(n, s) = Failed(q, s) /\ Told(n, s) = IF s = q.store THEN Told(q, s) \cup {e} ELSE Told(q, s)
    BY <2>1, <2>3 DEF Failed, Told
  <2>5. row = IdealEvent(r, q.store, e)
    BY <2>1, SoundWrites
  <2>6. \A x \in EventTypes : events'[s][r][x] = IF s = q.store /\ x = e THEN row ELSE events[s][r][x]
    <3> HIDE DEF row, e
    <3> QED  BY <1>1, <2>1, <2>3 DEF TypeInv, TablesTypeOK
  <2>7. Told(n, s) \subseteq EventTypes
    BY DEF Told
  <2>8. \A x \in Told(n, s) : events'[s][r][x] = IdealEvent(r, s, x)
    <3> HIDE DEF row, e, n, q, r
    <3> QED  BY <1>2, <2>2, <2>4, <2>5, <2>6, <2>7
  <2> QED  BY <1>2, <2>1, <2>2, <2>4, <2>8
<1>6. CASE WriteSla(w)
  <2> DEFINE o == CHOOSE x \in q.left : TRUE
             row == SlaRow(q, q.store, o)
  <2>1. /\ q.step = "slas" /\ slas' = [slas EXCEPT ![q.store][q.round][o] = row]
        /\ results' = results /\ events' = events /\ n.store = q.store /\ ~WriteResult(w)
        /\ n.step = IF q.left = {o} THEN "next" ELSE "slas"
        /\ n.left = q.left \ {o}
    BY <1>1, <1>6 DEF WriteSla, WriteResult, At, Jobs
  <2>2. s \in Written(q)
    BY <2>1, WrittenMoves
  <2>3. q.left \subseteq Capex /\ o \in q.left
    BY <1>1, <2>1 DEF JobOK
  <2>4. Told(n, s) = Told(q, s) /\ Failed(n, s) = IF s = q.store THEN Failed(q, s) \cup {o} ELSE Failed(q, s)
    BY <2>1, <2>3 DEF Failed, Told
  <2>5. row = IdealSla(r, q.store, o)
    BY <2>1, SoundWrites
  <2>6. \A x \in Capex : slas'[s][r][x] = IF s = q.store /\ x = o THEN row ELSE slas[s][r][x]
    <3> HIDE DEF row, o
    <3> QED  BY <1>1, <2>1, <2>3 DEF TypeInv, TablesTypeOK
  <2>7. Failed(n, s) \subseteq Capex
    BY DEF Failed
  <2>8. \A x \in Failed(n, s) : slas'[s][r][x] = IdealSla(r, s, x)
    <3> HIDE DEF row, o, n, q, r
    <3> QED  BY <1>2, <2>2, <2>4, <2>5, <2>6, <2>7
  <2> QED  BY <1>2, <2>1, <2>2, <2>4, <2>8
<1> QED  BY <1>3, <1>4, <1>5, <1>6

LEMMA SoundReads ==
  ASSUME TypeInv, SettledInv, NEW w \in Runners, Step(w), ~Announce(w), SoundJob(job[w])
  PROVE  /\ job'[w].step # "next" => ReadSoFar(job[w])'
         /\ job'[w].round = 1 => job'[w].firstResult = None /\ job'[w].firstPlan = None
<1> DEFINE q == job[w]
           n == job'[w]
           r == job[w].round
<1>1. /\ q \in Jobs /\ JobOK(q) /\ r \in Rounds /\ n.round = r /\ q.step # "idle"
      /\ job \in [Runners -> Jobs] /\ plans' = plans
  BY JobHas, JobFields, CallGoesOn DEF TypeInv, JobsOK, desk
<1>2. q.step # "next" => ReadSoFar(q) /\ q.store \in Stores
  BY <1>1 DEF SoundJob, JobOK, Playing
<1>3. r = 1 => q.firstResult = None /\ q.firstPlan = None
  BY DEF SoundJob
<1>4. [Next]_vars /\ Ground(r)
  BY DEF Next, SoundJob
<1>5. \A s \in Stores : /\ r # 1 => results'[s][1] = results[s][1]
                        /\ r = 3 => results'[s][2] = results[s][2]
                        /\ IdealRow(r, s)' = IdealRow(r, s)
  <2>1. /\ Wanted(r)' = Wanted(r) /\ Answers(r)' = Answers(r) /\ luck' = luck
        /\ \A s \in Stores :
             /\ r # 1 => results'[s][1] = results[s][1] /\ plans'[s][1] = plans[s][1]
             /\ r = 3 => results'[s][2] = results[s][2] /\ plans'[s][2] = plans[s][2]
    BY <1>1, <1>4, GroundKept
  <2> QED  BY <1>1, <2>1, IdealKept
<1>6. CASE \E s \in Stores : NextStore(w, s)
  <2>1. PICK s \in Stores : NextStore(w, s)
    BY <1>6
  <2>2. /\ n.step = FirstStep(r) /\ n.store = s /\ n.firstResult = q.firstResult
        /\ n.firstPlan = q.firstPlan
    BY <1>1, <2>1 DEF NextStore, Jobs
  <2>3. \/ r = 1 /\ n.step = "result"
        \/ r = 2 /\ n.step = "first_result"
        \/ r = 3 /\ n.step = "past_results"
    BY <1>1, <2>2 DEF FirstStep, Rounds
  <2> QED  BY <1>1, <1>3, <2>2, <2>3 DEF ReadSoFar
<1>7. CASE PastResults(w)
  <2>1. /\ q.step = "past_results" /\ n.step = "past_plans" /\ n.store = q.store
        /\ n.pastResults = [k \in 1..2 |-> results[q.store][k]] /\ results' = results
        /\ n.firstResult = q.firstResult /\ n.firstPlan = q.firstPlan
    BY <1>1, <1>7 DEF PastResults, At, Jobs, tables
  <2>2. r = 3
    BY <1>2, <2>1 DEF ReadSoFar
  <2> QED  BY <1>1, <1>3, <2>1, <2>2 DEF ReadSoFar
<1>8. CASE PastPlans(w)
  <2>1. /\ q.step = "past_plans" /\ n.step = "first_result" /\ n.store = q.store
        /\ n.pastPlans = [v \in 1..2 |-> plans[q.store][v]] /\ results' = results
        /\ n.pastResults = q.pastResults /\ n.firstResult = q.firstResult /\ n.firstPlan = q.firstPlan
    BY <1>1, <1>8 DEF PastPlans, At, Jobs, tables
  <2>2. r = 3 /\ q.pastResults = [k \in 1..2 |-> results[q.store][k]]
    BY <1>2, <2>1 DEF ReadSoFar
  <2> QED  BY <1>1, <1>3, <2>1, <2>2 DEF ReadSoFar
<1>9. CASE FirstResult(w)
  <2>1. /\ q.step = "first_result" /\ n.store = q.store /\ results' = results
        /\ n.step = IF results[q.store][1] = None THEN "result" ELSE "first_plan"
        /\ n.firstResult = results[q.store][1] /\ n.firstPlan = None
        /\ n.pastResults = q.pastResults /\ n.pastPlans = q.pastPlans
    BY <1>1, <1>9 DEF FirstResult, At, Jobs, tables
  <2>2. /\ r # 1
        /\ r = 3 => q.pastResults = [k \in 1..2 |-> results[q.store][k]]
        /\ r = 3 => q.pastPlans = [v \in 1..2 |-> plans[q.store][v]]
    BY <1>2, <2>1 DEF ReadSoFar
  <2> QED  BY <1>1, <2>1, <2>2 DEF ReadSoFar
<1>10. CASE FirstPlan(w)
  <2>1. /\ q.step = "first_plan" /\ n.store = q.store /\ results' = results /\ n.step = "result"
        /\ n.firstResult = q.firstResult /\ n.firstPlan = plans[q.store][1]
        /\ n.pastResults = q.pastResults /\ n.pastPlans = q.pastPlans
    BY <1>1, <1>10 DEF FirstPlan, At, Jobs, tables
  <2>2. /\ r # 1 /\ q.firstResult = results[q.store][1] /\ q.firstResult # None
        /\ r = 3 => q.pastResults = [k \in 1..2 |-> results[q.store][k]]
        /\ r = 3 => q.pastPlans = [v \in 1..2 |-> plans[q.store][v]]
    BY <1>2, <2>1 DEF ReadSoFar
  <2> QED  BY <1>1, <2>1, <2>2 DEF ReadSoFar
<1>11. CASE WriteResult(w) \/ WriteEvent(w) \/ WriteSla(w)
  <2>1. /\ q.step \in {"result", "events", "slas"} /\ n.step \in {"events", "slas", "next"}
        /\ n.store = q.store /\ n.firstResult = q.firstResult /\ n.firstPlan = q.firstPlan
        /\ n.pastResults = q.pastResults /\ n.pastPlans = q.pastPlans
        /\ n.gross = IF q.step = "result" THEN Result(q, q.store).gross ELSE q.gross
    BY <1>1, <1>11 DEF WriteResult, WriteEvent, WriteSla, At, Jobs
  <2>2. /\ q.firstResult = IF r = 1 THEN None ELSE results[q.store][1]
        /\ q.firstPlan = IF r = 1 \/ results[q.store][1] = None THEN None ELSE plans[q.store][1]
        /\ r = 3 => q.pastResults = [k \in 1..2 |-> results[q.store][k]]
        /\ r = 3 => q.pastPlans = [v \in 1..2 |-> plans[q.store][v]]
        /\ q.step # "result" => q.gross = IdealRow(r, q.store).gross
    BY <1>2, <2>1 DEF ReadSoFar
  <2>3. n.gross = IdealRow(r, q.store).gross
    BY <2>1, <2>2, SoundWrites
  <2>4. r = 3 => [k \in 1..2 |-> results'[q.store][k]] = [k \in 1..2 |-> results[q.store][k]]
    <3>1. \A k \in 1..2 : k = 1 \/ k = 2
      OBVIOUS
    <3> QED  BY <1>2, <1>5, <2>1, <3>1
  <2>5. IdealRow(r, q.store)' = IdealRow(r, q.store)
    BY <1>2, <1>5, <2>1
  <2>6. r # 1 => results'[q.store][1] = results[q.store][1]
    BY <1>2, <1>5, <2>1
  <2> QED  BY <1>1, <1>3, <2>1, <2>2, <2>3, <2>4, <2>5, <2>6 DEF ReadSoFar
<1> QED  BY <1>6, <1>7, <1>8, <1>9, <1>10, <1>11 DEF Step

LEMMA SoundStep ==
  ASSUME TypeInv, SettledInv, NEW w \in Runners, Step(w), ~Announce(w), SoundJob(job[w])
  PROVE  SoundJob(job[w])'
<1> DEFINE q == job[w]
           n == job'[w]
           r == job[w].round
<1>1. /\ r \in Rounds /\ n.round = r /\ n.seen = q.seen /\ n.market = q.market
      /\ Written(n) \subseteq Stores
  BY JobHas, JobFields, CallGoesOn DEF TypeInv, JobsOK, Written, Playing
<1>2. [Next]_vars /\ Ground(r)
  BY DEF Next, SoundJob
<1>3. /\ Ground(r)' /\ Wanted(r)' = Wanted(r) /\ Answers(r)' = Answers(r) /\ luck' = luck
      /\ \A s \in Stores :
           /\ r # 1 => results'[s][1] = results[s][1] /\ plans'[s][1] = plans[s][1]
           /\ r = 3 => results'[s][2] = results[s][2] /\ plans'[s][2] = plans[s][2]
  BY <1>1, <1>2, GroundKept
<1>4. \A s \in Stores : /\ IdealRow(r, s)' = IdealRow(r, s)
                        /\ Competition(Wanted(r), Answers(r), r)' = Competition(Wanted(r), Answers(r), r)
                        /\ \A e : IdealEvent(r, s, e)' = IdealEvent(r, s, e)
                        /\ \A o : IdealSla(r, s, o)' = IdealSla(r, s, o)
  BY <1>1, <1>3, IdealKept
<1>5. q.store \in Stores \/ q.step = "next"
  BY CallGoesOn, JobHas DEF TypeInv, JobOK, Playing
<1>6. Stores # {}
  <2>1. CASE q.step = "next"
    <3>1. PICK s \in Stores : NextStore(w, s)
      BY <2>1 DEF Step, PastResults, PastPlans, FirstResult, FirstPlan, WriteResult, WriteEvent, WriteSla, At
    <3> QED  BY <3>1
  <2> QED  BY <1>5, <2>1
<1>7. Ground(job[w].round)'
  BY <1>1, <1>3
<1>8. (/\ job[w].seen = Wanted(job[w].round)
       /\ job[w].market = Competition(Wanted(job[w].round), Answers(job[w].round), job[w].round))'
  BY <1>1, <1>3, <1>4, <1>6 DEF SoundJob
<1>9. ASSUME NEW s \in Written(n)
      PROVE  /\ results'[s][n.round] = IdealRow(r, s)'
             /\ \A e \in Told(n, s) : events'[s][n.round][e] = IdealEvent(r, s, e)'
             /\ \A o \in Failed(n, s) : slas'[s][n.round][o] = IdealSla(r, s, o)'
  BY <1>1, <1>4, SoundRows
<1>10. (\A s \in Written(job[w]) :
          /\ results[s][job[w].round] = IdealRow(job[w].round, s)
          /\ \A e \in Told(job[w], s) : events[s][job[w].round][e] = IdealEvent(job[w].round, s, e)
          /\ \A o \in Failed(job[w], s) : slas[s][job[w].round][o] = IdealSla(job[w].round, s, o))'
  BY <1>1, <1>9
<1> QED  BY <1>7, <1>8, <1>10, SoundReads DEF SoundJob

\* A call that starts is sound if its round is settled.
LEMMA SoundLoad ==
  ASSUME TypeInv, SettledInv, NEW w \in Runners, NEW r \in Rounds, Load(w, r)
  PROVE  /\ job'[w].round = r /\ (r \in settled => job'[w].sound)
         /\ job'[w].sound => SoundJob(job[w])'
<1>1. /\ job'[w] = Loaded(r) /\ Written(Loaded(r)) = {}
      /\ plans' = plans /\ quiz' = quiz /\ luck' = luck /\ settled' = settled
  BY LoadIs DEF Load, desk
<1>2. /\ Loaded(r).round = r /\ Loaded(r).seen = Wanted(r) /\ Loaded(r).step = "next"
      /\ Loaded(r).market = Competition(Wanted(r), Answers(r), r)
      /\ Loaded(r).firstResult = None /\ Loaded(r).firstPlan = None
  BY DEF Loaded, Idle
<1>3. Loaded(r).sound = (/\ 1..(r - 1) \subseteq settled
                         /\ \A s \in Stores : Wanted(r)[s] # None /\ quiz[s][r] # None
                         /\ \A s \in Playing(Wanted(r)) : Wanted(r)[s].confirmed)
  BY DEF Loaded, Idle
<1>4. Loaded(r).sound <=> Ground(r)
  BY <1>3 DEF Ground, Locked, Wanted, Playing
<1>5. r \in settled => Ground(r)
  BY DEF SettledInv, SettledRows
<1>6. Ground(r) => /\ Ground(r)' /\ Wanted(r)' = Wanted(r)
                   /\ Competition(Wanted(r), Answers(r), r)' = Competition(Wanted(r), Answers(r), r)
  <2>1. Ground(r) => Ground(r)' /\ Wanted(r)' = Wanted(r) /\ Answers(r)' = Answers(r)
    BY <1>1 DEF Ground, Locked, Wanted, Answers
  <2> QED  BY <1>1, <2>1, CompetitionKept
<1>7. /\ job'[w].round = r /\ job'[w].seen = Wanted(r) /\ job'[w].step = "next"
      /\ job'[w].market = Competition(Wanted(r), Answers(r), r) /\ Written(job'[w]) = {}
      /\ job'[w].firstResult = None /\ job'[w].firstPlan = None
      /\ job'[w].sound <=> Ground(r)
  BY <1>1, <1>2, <1>4
<1>8. Ground(r) => SoundJob(job[w])'
  BY <1>6, <1>7 DEF SoundJob
<1> QED  BY <1>5, <1>7, <1>8

\* Where no call goes on and no round settles, all stays as it was.
LEMMA SoundStays ==
  ASSUME TypeInv, SettledInv, [Next]_vars, UNCHANGED tables,
         NEW w \in Runners, job'[w] = job[w], Busy(w), SoundJob(job[w])
  PROVE  SoundJob(job[w])'
<1> DEFINE q == job[w]
           r == job[w].round
<1>1. /\ r \in Rounds /\ Written(q) \subseteq Stores /\ (q.step # "next" => q.store \in Stores)
      /\ results' = results /\ events' = events /\ slas' = slas
  BY JobHas, JobFields DEF TypeInv, JobOK, Busy, Written, Playing, tables
<1>2. /\ Ground(r) /\ q.seen = Wanted(r) /\ q.market = Competition(Wanted(r), Answers(r), r)
      /\ (q.step # "next" => ReadSoFar(q))
      /\ (r = 1 => q.firstResult = None /\ q.firstPlan = None)
  BY DEF SoundJob
<1>3. /\ Ground(r)' /\ Wanted(r)' = Wanted(r) /\ Answers(r)' = Answers(r) /\ luck' = luck
      /\ \A s \in Stores :
           /\ r # 1 => results'[s][1] = results[s][1] /\ plans'[s][1] = plans[s][1]
           /\ r = 3 => results'[s][2] = results[s][2] /\ plans'[s][2] = plans[s][2]
  BY <1>1, <1>2, GroundKept
<1>4. \A s \in Stores : /\ IdealRow(r, s)' = IdealRow(r, s)
                        /\ \A e : IdealEvent(r, s, e)' = IdealEvent(r, s, e)
                        /\ \A o : IdealSla(r, s, o)' = IdealSla(r, s, o)
  BY <1>1, <1>3, IdealKept
<1>5. Competition(Wanted(r), Answers(r), r)' = Competition(Wanted(r), Answers(r), r)
  BY <1>3, CompetitionKept
<1>6. ASSUME q.step # "next"  PROVE ReadSoFar(job[w])'
  <2>1. q.store \in Stores /\ ReadSoFar(q)
    BY <1>1, <1>2, <1>6
  <2>2. r = 3 => [v \in 1..2 |-> plans'[q.store][v]] = [v \in 1..2 |-> plans[q.store][v]]
    <3>1. \A v \in 1..2 : v = 1 \/ v = 2
      OBVIOUS
    <3> QED  BY <1>3, <2>1, <3>1
  <2>3. /\ IdealRow(r, q.store)' = IdealRow(r, q.store)
        /\ (r # 1 => plans'[q.store][1] = plans[q.store][1])
    BY <1>3, <1>4, <2>1
  <2> QED  BY <1>1, <2>1, <2>2, <2>3 DEF ReadSoFar
<1>7. (\A s \in Written(job[w]) :
         /\ results[s][job[w].round] = IdealRow(job[w].round, s)
         /\ \A e \in Told(job[w], s) : events[s][job[w].round][e] = IdealEvent(job[w].round, s, e)
         /\ \A o \in Failed(job[w], s) : slas[s][job[w].round][o] = IdealSla(job[w].round, s, o))'
  <2>1. \A s \in Written(q) :
          /\ results[s][r] = IdealRow(r, s)
          /\ \A e \in Told(q, s) : events[s][r][e] = IdealEvent(r, s, e)
          /\ \A o \in Failed(q, s) : slas[s][r][o] = IdealSla(r, s, o)
    BY DEF SoundJob
  <2> QED  BY <1>1, <1>4, <2>1
<1> QED  BY <1>2, <1>3, <1>5, <1>6, <1>7 DEF SoundJob

LEMMA RowsStay ==
  ASSUME TypeInv, SettledInv, [Next]_vars, settled' = settled
  PROVE  SettledRows'
<1>1. \A r \in settled : r \in Rounds /\ Ground(r)
  BY DEF TypeInv, CountsOK, SettledInv, SettledRows
<1>2. \A r \in settled : Ground(r)'
  BY <1>1, GroundKept
<1> QED  BY <1>2, SettledPart DEF SettledRows

LEMMA SettledRest ==
  ASSUME TypeInv, SettledInv, [Next]_vars, UNCHANGED <<tables, settled>>,
         \A w \in Runners : job'[w] = job[w] \/ job'[w] = Idle
  PROVE  SettledInv'
<1>1. SettledRows'
  BY RowsStay
<1>2. ASSUME NEW w \in Runners, Busy(w)'
      PROVE  (/\ job[w].round \in settled => job[w].sound
              /\ job[w].sound => SoundJob(job[w]))'
  <2>1. job'[w] = job[w] /\ Busy(w)
    BY <1>2 DEF Busy, Idle
  <2>2. (job[w].round \in settled => job[w].sound) /\ (job[w].sound => SoundJob(job[w]))
    BY <2>1 DEF SettledInv
  <2>3. job[w].sound => SoundJob(job[w])'
    BY <2>1, <2>2, SoundStays
  <2> QED  BY <2>1, <2>2, <2>3
<1> QED  BY <1>1, <1>2 DEF SettledInv

\* A sound call that ends has written all of its round.
LEMMA SettledAnnounce ==
  ASSUME TypeInv, Alone, SettledInv, NEW w \in Runners, Announce(w)
  PROVE  SettledInv'
<1> DEFINE q == job[w]
<1>0. PICK r : r = job[w].round
  OBVIOUS
<1>1. /\ r \in Rounds /\ (\A v \in Runners : v = w) /\ job \in [Runners -> Jobs] /\ [Next]_vars
  BY <1>0, JobHas, JobFields, OneRunner DEF TypeInv, JobsOK, Next, Step
<1>2. /\ q.step = "next" /\ q.todo = {} /\ results' = results /\ events' = events /\ slas' = slas
      /\ job' = [job EXCEPT ![w] = Idle] /\ settled' = IF q.sound THEN settled \cup {r} ELSE settled
  BY <1>0 DEF Announce, At, tables
<1>3. \A v \in Runners : ~Busy(v)'
  BY <1>1, <1>2 DEF Busy, Idle
<1>4. \A k \in settled : Ground(k)'
  <2>1. \A k \in settled : k \in Rounds /\ Ground(k)
    BY DEF TypeInv, CountsOK, SettledInv, SettledRows
  <2> QED  BY <1>1, <2>1, GroundKept
<1>5. ASSUME q.sound
      PROVE  /\ Ground(r)'
             /\ \A s \in Stores :
                  /\ results'[s][r] = IdealRow(r, s)'
                  /\ \A e \in EventTypes : events'[s][r][e] = IdealEvent(r, s, e)'
                  /\ \A o \in Capex : slas'[s][r][o] = IdealSla(r, s, o)'
  <2>1. SoundJob(q)
    BY <1>2, <1>5 DEF SettledInv, Busy
  <2>2. Ground(r) /\ q.seen = Wanted(r)
    BY <1>0, <2>1 DEF SoundJob
  <2>3. Written(q) = Stores
    BY <1>2, <2>2 DEF Written, Playing, Wanted, Ground, Locked
  <2>4. \A s \in Stores : Told(q, s) = EventTypes /\ Failed(q, s) = Capex
    BY <1>2 DEF Told, Failed
  <2>5. \A s \in Stores :
          /\ results[s][r] = IdealRow(r, s)
          /\ \A e \in EventTypes : events[s][r][e] = IdealEvent(r, s, e)
          /\ \A o \in Capex : slas[s][r][o] = IdealSla(r, s, o)
    BY <1>0, <2>1, <2>3, <2>4 DEF SoundJob
  <2>6. /\ Ground(r)' /\ Wanted(r)' = Wanted(r) /\ Answers(r)' = Answers(r) /\ luck' = luck
        /\ \A s \in Stores :
             /\ r # 1 => results'[s][1] = results[s][1] /\ plans'[s][1] = plans[s][1]
             /\ r = 3 => results'[s][2] = results[s][2] /\ plans'[s][2] = plans[s][2]
    BY <1>1, <2>2, GroundKept
  <2>7. \A s \in Stores : /\ IdealRow(r, s)' = IdealRow(r, s)
                          /\ \A e : IdealEvent(r, s, e)' = IdealEvent(r, s, e)
                          /\ \A o : IdealSla(r, s, o)' = IdealSla(r, s, o)
    BY <1>1, <2>6, IdealKept
  <2> QED  BY <1>2, <2>5, <2>6, <2>7
<1>6. \A k \in settled' : k \in settled \/ (k = r /\ q.sound)
  BY <1>2
<1>7. SettledRows'
  <2> SUFFICES ASSUME NEW k \in settled'
               PROVE  /\ Ground(k)'
                      /\ \A s \in Stores :
                           /\ results'[s][k] = IdealRow(k, s)'
                           /\ \A e \in EventTypes : events'[s][k][e] = IdealEvent(k, s, e)'
                           /\ \A o \in Capex : slas'[s][k][o] = IdealSla(k, s, o)'
    BY DEF SettledRows
  <2>1. CASE k \in settled
    BY <1>1, <1>4, <2>1, SettledPart
  <2>2. CASE k = r /\ q.sound
    <3> HIDE DEF q
    <3> QED  BY <1>5, <2>2
  <2> QED  BY <1>6, <2>1, <2>2
<1> QED  BY <1>3, <1>7 DEF SettledInv

LEMMA SettledNext == Alone /\ TypeInv /\ SettledInv /\ [Next]_vars => SettledInv'
<1> SUFFICES ASSUME Alone, TypeInv, SettledInv, [Next]_vars  PROVE SettledInv'
  OBVIOUS
<1>1. ASSUME NEW w \in Runners, NEW r \in Rounds, Load(w, r)  PROVE SettledInv'
  <2>1. settled' = settled /\ \A v \in Runners : v = w
    BY <1>1, OneRunner DEF Load
  <2>2. SettledRows'
    BY <2>1, RowsStay
  <2>3. (job[w].round \in settled => job[w].sound)' /\ (job[w].sound => SoundJob(job[w]))'
    BY <1>1, <2>1, SoundLoad
  <2> QED  BY <2>1, <2>2, <2>3 DEF SettledInv
<1>2. ASSUME NEW w \in Runners, Step(w), ~Announce(w)  PROVE SettledInv'
  <2>1. /\ Busy(w) /\ job'[w].round = job[w].round /\ job'[w].sound = job[w].sound
        /\ settled' = settled /\ \A v \in Runners : v = w
    BY <1>2, CallGoesOn, OneRunner DEF Busy
  <2>2. SettledRows'
    BY <2>1, RowsStay
  <2>3. (job[w].round \in settled => job[w].sound) /\ (job[w].sound => SoundJob(job[w]))
    BY <2>1 DEF SettledInv
  <2>4. job[w].sound => SoundJob(job[w])'
    BY <1>2, <2>3, SoundStep
  <2> QED  BY <2>1, <2>2, <2>3, <2>4 DEF SettledInv
<1>3. ASSUME NEW w \in Runners, Announce(w)  PROVE SettledInv'
  BY <1>3, SettledAnnounce
<1>4. ASSUME NEW w \in Runners, Fail(w)  PROVE SettledInv'
  <2>1. UNCHANGED <<tables, settled>> /\ \A v \in Runners : job'[v] = job[v] \/ job'[v] = Idle
    BY <1>4 DEF Fail, history, TypeInv, JobsOK
  <2> QED  BY <2>1, SettledRest
<1>5. ASSUME \/ \E s \in Stores, phase \in Status : Visit(s, VersionShown(phase))
             \/ \E s \in Stores, v \in Versions :
                  Confirm(s, v) \/ \E choice \in Options : Edit(s, v, choice)
             \/ \E s \in Stores, r \in Rounds, n \in Scores : Consolidate(s, r, n)
      PROVE  SettledInv'
  <2>1. UNCHANGED <<tables, settled, job>>
    BY <1>5, PlayersOK DEF history
  <2> QED  BY <2>1, SettledRest
<1>6. CASE UNCHANGED vars
  <2>1. UNCHANGED <<tables, settled, job>>
    BY <1>6 DEF vars, history
  <2> QED  BY <2>1, SettledRest
<1> QED  BY <1>1, <1>2, <1>3, <1>4, <1>5, <1>6 DEF Next

\* While one call runs at a time, a round that was run over confirmed plans,
\* finished quizzes and settled rounds keeps its rows for good, whatever calls run
\* again, in whatever order, and wherever they fail.
THEOREM SettledTheorem == Alone => (EngineSpec => SettledRoundsReproduce)
<1> SUFFICES ASSUME Alone  PROVE EngineSpec => SettledRoundsReproduce
  OBVIOUS
<1>1. TypeInv /\ SettledInv /\ [Next]_vars => SettledInv'
  BY SettledNext
<1>2. TypeInv /\ SettledInv /\ [Next]_vars =>
        [\A r \in settled, s \in Stores :
           /\ r \in settled'
           /\ results'[s][r] = results[s][r]
           /\ events'[s][r] = events[s][r]
           /\ slas'[s][r] = slas[s][r]]_vars
  BY SettledKept
<1> QED  BY <1>1, <1>2, SettledInit, TypeAlways, PTL DEF EngineSpec, SettledRoundsReproduce
=============================================================================
