----------------------------- MODULE SumLemmas -----------------------------
(* SumFunction and SumFunctionOnSet over a finite set: the recursion behind    *)
(* the fold has one solution, any member can be taken out first, and changing  *)
(* one value changes the sum by as much.                                       *)
EXTENDS Integers, FiniteSets, Functions, FiniteSetTheorems, WellFoundedInduction, TLAPS

(* A nonempty set of subsets of a finite set has a smallest member.          *)
LEMMA SmallestSubset ==
  ASSUME NEW S, IsFiniteSet(S), NEW T \in SUBSET SUBSET S, T # {}
  PROVE  \E t \in T : \A u \in T : u \subseteq t => u = t
<1> DEFINE R == StrictSubsetOrdering(S)
<1>1. IsWellFoundedOn(R, SUBSET S)
  BY FS_StrictSubsetOrderingWellFounded, FS_FiniteSubsetsOfFinite
<1>2. PICK t \in T : \A u \in T : ~(<<u, t>> \in R)
  <2> HIDE DEF R
  <2> QED BY <1>1, WFMin
<1>3. ASSUME NEW u \in T, u \subseteq t, u # t PROVE FALSE
  <2>1. <<u, t>> \in (SUBSET S) \X (SUBSET S)
    OBVIOUS
  <2>2. <<u, t>> \in R
    BY <2>1, <1>3 DEF StrictSubsetOrdering
  <2>3. QED
    BY <1>2, <2>2
<1>4. QED
  BY <1>3

Pick(s) == CHOOSE x \in s : TRUE

(* The recursion of the fold, on the subsets of S.                           *)
SolvesFold(f, S, g) ==
  \A s \in SUBSET S : g[s] = IF s = {} THEN 0 ELSE f[Pick(s)] + g[s \ {Pick(s)}]

LEMMA PickIsMember == ASSUME NEW s, s # {} PROVE Pick(s) \in s
BY DEF Pick

(* Two solutions of the recursion agree where both are defined.              *)
LEMMA FoldsAgree ==
  ASSUME NEW S, IsFiniteSet(S), NEW f, NEW g, NEW h, SolvesFold(f, S, g), SolvesFold(f, S, h)
  PROVE  \A s \in SUBSET S : g[s] = h[s]
<1> DEFINE T == {s \in SUBSET S : g[s] # h[s]}
<1> SUFFICES ASSUME T # {} PROVE FALSE
  OBVIOUS
<1>1. T \in SUBSET SUBSET S
  OBVIOUS
<1>2. PICK t \in T : \A u \in T : u \subseteq t => u = t
  <2> HIDE DEF T
  <2> QED BY <1>1, SmallestSubset
<1>3. CASE t = {}
  BY <1>3 DEF SolvesFold
<1>4. CASE t # {}
  <2>1. Pick(t) \in t
    BY <1>4, PickIsMember
  <2>2. g[t \ {Pick(t)}] = h[t \ {Pick(t)}]
    BY <1>2, <2>1
  <2>3. QED
    BY <1>4, <2>2 DEF SolvesFold
<1>5. QED
  BY <1>3, <1>4

IsFold(f, S, g) ==
  g = [s \in SUBSET S |-> IF s = {} THEN 0 ELSE f[Pick(s)] + g[s \ {Pick(s)}]]

(* The recursion has a solution.                                             *)
LEMMA FoldsExist ==
  ASSUME NEW S, IsFiniteSet(S), NEW f
  PROVE  \E g : IsFold(f, S, g)
<1> DEFINE Q(t) == \E g : SolvesFold(f, t, g)
           T == {t \in SUBSET S : ~Q(t)}
<1>1. T = {}
  <2> SUFFICES ASSUME T # {} PROVE FALSE
    OBVIOUS
  <2>1. PICK t \in T : \A u \in T : u \subseteq t => u = t
    <3>1. T \in SUBSET SUBSET S
      OBVIOUS
    <3> HIDE DEF T
    <3> QED BY <3>1, SmallestSubset
  <2> DEFINE G(u) == CHOOSE g : SolvesFold(f, u, g)
             g1 == [s \in SUBSET t |-> IF s = {} THEN 0
                                       ELSE f[Pick(s)] + G(s \ {Pick(s)})[s \ {Pick(s)}]]
  <2>2. ASSUME NEW u \in SUBSET t, u # t PROVE SolvesFold(f, u, G(u))
    <3>1. Q(u)
      BY <2>1, <2>2
    <3>2. QED
      BY <3>1
  <2>3. ASSUME NEW u \in SUBSET t, u # t PROVE g1[u] = G(u)[u]
    <3>1. SolvesFold(f, u, G(u))
      BY <2>2, <2>3
    <3>2. CASE u = {}
      BY <3>1, <3>2 DEF SolvesFold
    <3>3. CASE u # {}
      <4> DEFINE v == u \ {Pick(u)}
      <4>1. Pick(u) \in u
        BY <3>3, PickIsMember
      <4>2. v \in SUBSET u /\ v \in SUBSET t /\ v # t
        BY <4>1
      <4>3. SolvesFold(f, v, G(v))
        BY <2>2, <4>2
      <4>4. SolvesFold(f, v, G(u))
        BY <3>1, <4>2 DEF SolvesFold
      <4>5. IsFiniteSet(v)
        BY <4>2, FS_Subset
      <4> HIDE DEF v, G
      <4>6. G(v)[v] = G(u)[v]
        BY <4>3, <4>4, <4>5, FoldsAgree
      <4>7. G(u)[u] = f[Pick(u)] + G(u)[v]
        BY <3>1, <3>3 DEF SolvesFold, v
      <4>8. g1[u] = f[Pick(u)] + G(v)[v]
        BY <3>3 DEF v
      <4>9. QED
        BY <4>6, <4>7, <4>8
    <3>4. QED
      BY <3>2, <3>3
  <2>4. SolvesFold(f, t, g1)
    <3> SUFFICES ASSUME NEW s \in SUBSET t
                 PROVE  g1[s] = IF s = {} THEN 0 ELSE f[Pick(s)] + g1[s \ {Pick(s)}]
      BY DEF SolvesFold
    <3>1. CASE s = {}
      BY <3>1
    <3>2. CASE s # {}
      <4> DEFINE v == s \ {Pick(s)}
      <4>1. v \in SUBSET t /\ v # t
        BY <3>2, PickIsMember
      <4>2. g1[v] = G(v)[v]
        <5> HIDE DEF v, g1, G
        <5> QED BY <4>1, <2>3
      <4>3. g1[s] = f[Pick(s)] + G(v)[v]
        BY <3>2
      <4>4. QED
        <5> HIDE DEF g1, G
        <5> QED BY <3>2, <4>2, <4>3
    <3>3. QED
      BY <3>1, <3>2
  <2>5. QED
    BY <2>1, <2>4
<1>2. PICK g : SolvesFold(f, S, g)
  BY <1>1
<1> DEFINE h == [s \in SUBSET S |-> g[s]]
<1>3. \A s \in SUBSET S : h[s] = IF s = {} THEN 0 ELSE f[Pick(s)] + h[s \ {Pick(s)}]
  BY <1>2 DEF SolvesFold
<1>4. h = [s \in SUBSET S |-> IF s = {} THEN 0 ELSE f[Pick(s)] + h[s \ {Pick(s)}]]
  <2> DEFINE e(s) == IF s = {} THEN 0 ELSE f[Pick(s)] + h[s \ {Pick(s)}]
  <2>1. \A s \in SUBSET S : h[s] = e(s)
    BY <1>3
  <2>2. h = [s \in SUBSET S |-> h[s]]
    OBVIOUS
  <2> HIDE DEF h, e
  <2>3. h = [s \in SUBSET S |-> e(s)]
    BY <2>1, <2>2
  <2>4. QED
    BY <2>3 DEF e
<1>5. QED
  BY <1>4 DEF IsFold

----------------------------------------------------------------------------
LEMMA SumIsFold ==
  ASSUME NEW S, IsFiniteSet(S), NEW f
  PROVE  \E g : SolvesFold(f, S, g) /\ SumFunctionOnSet(f, S) = g[S]
<1>1. SumFunctionOnSet(f, S) = (CHOOSE g : IsFold(f, S, g))[S]
  BY DEF SumFunctionOnSet, FoldFunctionOnSet, MapThenFoldSet, Pick, IsFold
<1>2. IsFold(f, S, CHOOSE g : IsFold(f, S, g))
  BY FoldsExist
<1>3. PICK g : g = (CHOOSE h : IsFold(f, S, h)) /\ IsFold(f, S, g)
  BY <1>2
<1>4. SolvesFold(f, S, g)
  BY <1>3 DEF SolvesFold, IsFold
<1>5. QED
  BY <1>1, <1>3, <1>4

LEMMA SumEmpty == ASSUME NEW f PROVE SumFunctionOnSet(f, {}) = 0
<1>1. PICK g : SolvesFold(f, {}, g) /\ SumFunctionOnSet(f, {}) = g[{}]
  BY SumIsFold, FS_EmptySet
<1>2. QED
  BY <1>1 DEF SolvesFold

LEMMA SumPick ==
  ASSUME NEW S, IsFiniteSet(S), NEW f, S # {}
  PROVE  SumFunctionOnSet(f, S) = f[Pick(S)] + SumFunctionOnSet(f, S \ {Pick(S)})
<1> DEFINE v == S \ {Pick(S)}
<1>1. IsFiniteSet(v) /\ v \in SUBSET S
  BY FS_Subset
<1>2. PICK g : SolvesFold(f, S, g) /\ SumFunctionOnSet(f, S) = g[S]
  BY SumIsFold
<1>3. PICK h : SolvesFold(f, v, h) /\ SumFunctionOnSet(f, v) = h[v]
  <2> HIDE DEF v
  <2> QED BY <1>1, SumIsFold
<1>4. SolvesFold(f, v, g)
  BY <1>1, <1>2 DEF SolvesFold
<1>5. g[v] = h[v]
  <2> HIDE DEF v
  <2> QED BY <1>1, <1>3, <1>4, FoldsAgree
<1>6. g[S] = f[Pick(S)] + g[v]
  BY <1>2 DEF SolvesFold
<1>7. QED
  BY <1>2, <1>3, <1>5, <1>6

LEMMA SumIsInt ==
  ASSUME NEW S, IsFiniteSet(S), NEW f, \A x \in S : f[x] \in Int
  PROVE  SumFunctionOnSet(f, S) \in Int
<1> DEFINE T == {s \in SUBSET S : SumFunctionOnSet(f, s) \notin Int}
<1> SUFFICES ASSUME T # {} PROVE FALSE
  BY SUBSET S = SUBSET S
<1>1. PICK t \in T : \A u \in T : u \subseteq t => u = t
  <2>1. T \in SUBSET SUBSET S
    OBVIOUS
  <2> HIDE DEF T
  <2> QED BY <2>1, SmallestSubset
<1>2. t # {}
  <2>1. SumFunctionOnSet(f, {}) \in Int
    BY SumEmpty
  <2>2. QED
    BY <1>1, <2>1
<1>3. IsFiniteSet(t) /\ Pick(t) \in t
  BY <1>1, <1>2, FS_Subset, PickIsMember
<1>4. SumFunctionOnSet(f, t) = f[Pick(t)] + SumFunctionOnSet(f, t \ {Pick(t)})
  BY <1>2, <1>3, SumPick
<1>5. SumFunctionOnSet(f, t \ {Pick(t)}) \in Int
  BY <1>1, <1>3
<1>6. QED
  BY <1>1, <1>3, <1>4, <1>5

(* Any member can be taken out first.                                        *)
LEMMA SumRemove ==
  ASSUME NEW S, IsFiniteSet(S), NEW f, \A x \in S : f[x] \in Int, NEW y \in S
  PROVE  SumFunctionOnSet(f, S) = f[y] + SumFunctionOnSet(f, S \ {y})
<1> DEFINE Sum(s) == SumFunctionOnSet(f, s)
           T == {s \in SUBSET S : \E x \in s : Sum(s) # f[x] + Sum(s \ {x})}
<1> SUFFICES ASSUME T # {} PROVE FALSE
  OBVIOUS
<1>1. PICK t \in T : \A u \in T : u \subseteq t => u = t
  <2>1. T \in SUBSET SUBSET S
    OBVIOUS
  <2> HIDE DEF T
  <2> QED BY <2>1, SmallestSubset
<1>2. PICK x \in t : Sum(t) # f[x] + Sum(t \ {x})
  BY <1>1
<1>smaller. ASSUME NEW u \in SUBSET t, u # t, NEW z \in u
            PROVE  Sum(u) = f[z] + Sum(u \ {z})
  <2>1. u \in SUBSET S /\ u \notin T
    BY <1>1, <1>smaller
  <2>2. QED
    BY <2>1
<1>3. IsFiniteSet(t) /\ IsFiniteSet(t \ {x}) /\ Pick(t) \in t
  BY <1>1, <1>2, FS_Subset, PickIsMember
<1> DEFINE p == Pick(t)
<1>4. Sum(t) = f[p] + Sum(t \ {p})
  BY <1>2, <1>3, SumPick
<1>5. x # p
  BY <1>2, <1>4
<1> HIDE DEF p, Sum
<1>6. x \in t \ {p} /\ p \in t \ {x} /\ p \in t
  BY <1>2, <1>3, <1>5 DEF p
<1>7. Sum(t \ {p}) = f[x] + Sum((t \ {p}) \ {x})
  BY <1>smaller, <1>6
<1>8. Sum(t \ {x}) = f[p] + Sum((t \ {x}) \ {p})
  BY <1>smaller, <1>6
<1>9. (t \ {p}) \ {x} = (t \ {x}) \ {p}
  OBVIOUS
<1>10. f[x] \in Int /\ f[p] \in Int /\ Sum((t \ {x}) \ {p}) \in Int
  <2>1. IsFiniteSet((t \ {x}) \ {p})
    BY <1>3, FS_Subset
  <2>2. \A z \in (t \ {x}) \ {p} : f[z] \in Int
    BY <1>1
  <2>3. QED
    BY <1>1, <1>6, <2>1, <2>2, SumIsInt DEF Sum
<1>11. \A a, b, c \in Int : a + (b + c) = b + (a + c)
  OBVIOUS
<1>12. Sum(t) = f[x] + Sum(t \ {x})
  <2>1. Sum(t) = f[p] + (f[x] + Sum((t \ {x}) \ {p}))
    BY <1>4, <1>7, <1>9
  <2>2. QED
    BY <1>8, <1>10, <1>11, <2>1
<1>13. QED
  BY <1>2, <1>12

LEMMA SumSame ==
  ASSUME NEW S, IsFiniteSet(S), NEW f, NEW g, \A x \in S : f[x] = g[x]
  PROVE  SumFunctionOnSet(f, S) = SumFunctionOnSet(g, S)
<1> DEFINE T == {s \in SUBSET S : SumFunctionOnSet(f, s) # SumFunctionOnSet(g, s)}
<1> SUFFICES ASSUME T # {} PROVE FALSE
  BY SUBSET S = SUBSET S
<1>1. PICK t \in T : \A u \in T : u \subseteq t => u = t
  <2>1. T \in SUBSET SUBSET S
    OBVIOUS
  <2> HIDE DEF T
  <2> QED BY <2>1, SmallestSubset
<1>2. t # {}
  BY <1>1, SumEmpty
<1>3. IsFiniteSet(t) /\ Pick(t) \in t
  BY <1>1, <1>2, FS_Subset, PickIsMember
<1>4. SumFunctionOnSet(f, t \ {Pick(t)}) = SumFunctionOnSet(g, t \ {Pick(t)})
  BY <1>1, <1>3
<1>5. QED
  BY <1>1, <1>2, <1>3, <1>4, SumPick

(* Changing one value changes the sum by as much.                            *)
LEMMA SumUpdate ==
  ASSUME NEW S, IsFiniteSet(S), NEW f, \A x \in S : f[x] \in Int,
         NEW g, NEW y \in S, g[y] \in Int, \A x \in S \ {y} : g[x] = f[x]
  PROVE  SumFunctionOnSet(g, S) = SumFunctionOnSet(f, S) + g[y] - f[y]
<1>1. IsFiniteSet(S \ {y})
  BY FS_Subset
<1>2. \A x \in S : g[x] \in Int
  OBVIOUS
<1>3. SumFunctionOnSet(f, S) = f[y] + SumFunctionOnSet(f, S \ {y})
  BY SumRemove
<1>4. SumFunctionOnSet(g, S) = g[y] + SumFunctionOnSet(g, S \ {y})
  BY <1>2, SumRemove
<1>5. SumFunctionOnSet(f, S \ {y}) = SumFunctionOnSet(g, S \ {y})
  BY <1>1, SumSame
<1>6. SumFunctionOnSet(f, S \ {y}) \in Int
  BY <1>1, SumIsInt
<1>7. QED
  BY <1>3, <1>4, <1>5, <1>6

LEMMA SumLeq ==
  ASSUME NEW S, IsFiniteSet(S), NEW f, NEW g,
         \A x \in S : f[x] \in Int /\ g[x] \in Int /\ f[x] <= g[x]
  PROVE  SumFunctionOnSet(f, S) <= SumFunctionOnSet(g, S)
<1> DEFINE T == {s \in SUBSET S : ~(SumFunctionOnSet(f, s) <= SumFunctionOnSet(g, s))}
<1> SUFFICES ASSUME T # {} PROVE FALSE
  BY SUBSET S = SUBSET S
<1>1. PICK t \in T : \A u \in T : u \subseteq t => u = t
  <2>1. T \in SUBSET SUBSET S
    OBVIOUS
  <2> HIDE DEF T
  <2> QED BY <2>1, SmallestSubset
<1>2. t # {}
  BY <1>1, SumEmpty
<1> DEFINE v == t \ {Pick(t)}
<1>3. IsFiniteSet(t) /\ IsFiniteSet(v) /\ Pick(t) \in t /\ v \in SUBSET S /\ v \subseteq t /\ v # t
  BY <1>1, <1>2, FS_Subset, PickIsMember
<1>4. SumFunctionOnSet(f, v) <= SumFunctionOnSet(g, v)
  BY <1>1, <1>3
<1>5. SumFunctionOnSet(f, v) \in Int /\ SumFunctionOnSet(g, v) \in Int
  BY <1>3, SumIsInt
<1>6. /\ SumFunctionOnSet(f, t) = f[Pick(t)] + SumFunctionOnSet(f, v)
      /\ SumFunctionOnSet(g, t) = g[Pick(t)] + SumFunctionOnSet(g, v)
  BY <1>2, <1>3, SumPick
<1>7. f[Pick(t)] \in Int /\ g[Pick(t)] \in Int /\ f[Pick(t)] <= g[Pick(t)]
  BY <1>1, <1>3
<1> HIDE DEF v
<1>8. QED
  BY <1>1, <1>4, <1>5, <1>6, <1>7

(* The same for the sum of a whole function.                                 *)
LEMMA TotalIsInt ==
  ASSUME NEW S, IsFiniteSet(S), NEW f \in [S -> Int]
  PROVE  SumFunction(f) \in Int
BY SumIsInt DEF SumFunction

LEMMA TotalUpdate ==
  ASSUME NEW S, IsFiniteSet(S), NEW f \in [S -> Int], NEW g \in [S -> Int],
         NEW y \in S, \A x \in S \ {y} : g[x] = f[x]
  PROVE  SumFunction(g) = SumFunction(f) + g[y] - f[y]
<1>1. /\ \A x \in S : f[x] \in Int
      /\ g[y] \in Int /\ DOMAIN f = S /\ DOMAIN g = S
  OBVIOUS
<1>2. QED
  BY <1>1, SumUpdate DEF SumFunction

LEMMA TotalOfZeros ==
  ASSUME NEW S, IsFiniteSet(S), NEW f \in [S -> Int], \A x \in S : f[x] = 0
  PROVE  SumFunction(f) = 0
<1> DEFINE T == {s \in SUBSET S : SumFunctionOnSet(f, s) # 0}
<1> SUFFICES ASSUME T # {} PROVE FALSE
  <2>1. DOMAIN f = S /\ S \in SUBSET S
    OBVIOUS
  <2>2. QED
    BY <2>1 DEF SumFunction
<1>1. PICK t \in T : \A u \in T : u \subseteq t => u = t
  <2>1. T \in SUBSET SUBSET S
    OBVIOUS
  <2> HIDE DEF T
  <2> QED BY <2>1, SmallestSubset
<1>2. t # {}
  BY <1>1, SumEmpty
<1>3. IsFiniteSet(t) /\ Pick(t) \in t
  BY <1>1, <1>2, FS_Subset, PickIsMember
<1>4. SumFunctionOnSet(f, t \ {Pick(t)}) = 0
  BY <1>1, <1>3
<1>5. SumFunctionOnSet(f, t) = f[Pick(t)] + SumFunctionOnSet(f, t \ {Pick(t)})
  BY <1>2, <1>3, SumPick
<1>6. QED
  BY <1>1, <1>3, <1>4, <1>5
=============================================================================
