-------------------------------- MODULE Sums --------------------------------
(***************************************************************************)
(* What SumFunctionOnSet computes: the facts about finite sums the proofs  *)
(* need.  Each is shown from a smallest set that would contradict it.      *)
(***************************************************************************)
EXTENDS Integers, FiniteSets, Functions, FiniteSetTheorems, WellFoundedInduction, TLAPS

(* An element of s, the one Folds takes next.                              *)
Taken(s) == CHOOSE x \in s : TRUE

(* g gives the sum of f over every subset of S.                            *)
IsSum(g, f, S) ==
    g = [s \in SUBSET S |-> IF s = {} THEN 0
                            ELSE LET x == CHOOSE x \in s : TRUE IN f[x] + g[s \ {x}]]

(* A nonempty set of subsets of a finite set has a smallest one: the       *)
(* induction principle of this module, as a minimal counterexample.        *)
LEMMA SmallestSubset ==
    ASSUME NEW S, IsFiniteSet(S), NEW T, T \subseteq SUBSET S, T # {}
    PROVE  \E x \in T : \A y \in T : y \subseteq x => y = x
  <1>1. IsWellFoundedOn(StrictSubsetOrdering(S), SUBSET S)
    BY FS_StrictSubsetOrderingWellFounded, FS_FiniteSubsetsOfFinite
  <1>2. PICK x \in T : \A y \in T : ~(<<y, x>> \in StrictSubsetOrdering(S))
    BY <1>1, WFMin
  <1> QED BY <1>2 DEF StrictSubsetOrdering

(* The element a sum takes next is one of the set.                         *)
LEMMA NextIn == ASSUME NEW s, s # {} PROVE Taken(s) \in s
  BY DEF Taken

(* One step of a sum's defining equation.                                  *)
LEMMA SumUnfold ==
    ASSUME NEW g, NEW f, NEW S, IsSum(g, f, S), NEW s \in SUBSET S
    PROVE  g[s] = IF s = {} THEN 0 ELSE f[Taken(s)] + g[s \ {Taken(s)}]
  BY DEF IsSum, Taken

(* The sum over a finite set does not depend on the recursive function     *)
(* that computes it.                                                       *)
LEMMA SumUnique ==
    ASSUME NEW S, IsFiniteSet(S), NEW f, NEW A, NEW B, S \subseteq A, S \subseteq B,
           NEW g, NEW h, IsSum(g, f, A), IsSum(h, f, B)
    PROVE  g[S] = h[S]
  <1> DEFINE T == {s \in SUBSET S : g[s] # h[s]}
  <1>1. SUFFICES ASSUME T # {} PROVE FALSE
    OBVIOUS
  <1>2. PICK s \in T : \A y \in T : y \subseteq s => y = s
    <2>1. T \subseteq SUBSET S
      OBVIOUS
    <2> HIDE DEF T
    <2> QED BY <1>1, <2>1, SmallestSubset
  <1>3. s # {}
    BY <1>2, SumUnfold
  <1>4. s \ {Taken(s)} \in SUBSET S /\ s \ {Taken(s)} # s
    BY <1>2, <1>3, NextIn
  <1>5. g[s \ {Taken(s)}] = h[s \ {Taken(s)}]
    BY <1>2, <1>4
  <1>6. g[s] = f[Taken(s)] + g[s \ {Taken(s)}] /\ h[s] = f[Taken(s)] + h[s \ {Taken(s)}]
    <2>1. s \in SUBSET A /\ s \in SUBSET B
      OBVIOUS
    <2> QED BY <1>3, <2>1, SumUnfold
  <1> QED BY <1>2, <1>5, <1>6

SumAt(f, S) == (CHOOSE g : IsSum(g, f, S))[S]

(* Every function can be summed over every finite set.                     *)
LEMMA SumExists ==
    ASSUME NEW S, IsFiniteSet(S), NEW f
    PROVE  \E g : IsSum(g, f, S)
  <1> DEFINE T == {s \in SUBSET S : ~\E g : IsSum(g, f, s)}
  <1>1. SUFFICES ASSUME T # {} PROVE FALSE
    OBVIOUS
  <1>2. PICK s \in T : \A y \in T : y \subseteq s => y = s
    <2>1. T \subseteq SUBSET S
      OBVIOUS
    <2> HIDE DEF T
    <2> QED BY <1>1, <2>1, SmallestSubset
  <1>3. ASSUME NEW t \in SUBSET s, t # s
        PROVE  IsSum(CHOOSE g : IsSum(g, f, t), f, t)
    BY <1>2, <1>3
  <1>4. ASSUME NEW t \in SUBSET s, t # s
        PROVE  SumAt(f, t) = IF t = {} THEN 0 ELSE f[Taken(t)] + SumAt(f, t \ {Taken(t)})
    <2> DEFINE g == CHOOSE g : IsSum(g, f, t)
    <2>1. IsSum(g, f, t)
      BY <1>3, <1>4
    <2> HIDE DEF g
    <2>2. g[t] = IF t = {} THEN 0 ELSE f[Taken(t)] + g[t \ {Taken(t)}]
      BY <2>1, SumUnfold
    <2>3. CASE t = {}
      BY <2>2, <2>3 DEF SumAt, g
    <2>4. CASE t # {}
      <3> DEFINE u == t \ {Taken(t)}
                 h == CHOOSE k : IsSum(k, f, u)
      <3>1. u \in SUBSET s /\ u # s /\ u \subseteq t
        BY <1>4, <2>4, NextIn
      <3>2. IsSum(h, f, u)
        BY <1>3, <3>1
      <3>3. IsFiniteSet(u)
        BY <1>2, <3>1, FS_Subset
      <3> HIDE DEF h, u
      <3>4. h[u] = g[u]
        BY <2>1, <3>1, <3>2, <3>3, SumUnique
      <3> QED BY <2>2, <2>4, <3>4 DEF SumAt, g, h, u
    <2> QED BY <2>3, <2>4
  <1> DEFINE g == [t \in SUBSET s |-> IF t = s
                                      THEN IF s = {} THEN 0 ELSE f[Taken(s)] + SumAt(f, s \ {Taken(s)})
                                      ELSE SumAt(f, t)]
  <1>5. ASSUME NEW t \in SUBSET s
        PROVE  g[t] = IF t = {} THEN 0 ELSE f[Taken(t)] + g[t \ {Taken(t)}]
    <2>1. t # {} => t \ {Taken(t)} \in SUBSET s /\ t \ {Taken(t)} # s
      BY NextIn
    <2> QED BY <1>4, <2>1
  <1> HIDE DEF g
  <1>6. IsSum(g, f, s)
    <2>1. g = [t \in SUBSET s |-> g[t]]
      BY DEF g
    <2> QED BY <1>5, <2>1 DEF IsSum, Taken
  <1> QED BY <1>2, <1>6

(* The library's SumFunctionOnSet is that sum.                             *)
LEMMA SumIsTotal == ASSUME NEW S, NEW f PROVE SumFunctionOnSet(f, S) = SumAt(f, S)
  BY DEF SumFunctionOnSet, FoldFunctionOnSet, MapThenFoldSet, SumAt, IsSum

(* Nothing adds up to zero.                                                *)
LEMMA SumEmpty == ASSUME NEW f PROVE SumFunctionOnSet(f, {}) = 0
  <1>1. IsFiniteSet({})
    BY FS_EmptySet
  <1> DEFINE g == CHOOSE g : IsSum(g, f, {})
  <1>2. IsSum(g, f, {})
    BY <1>1, SumExists
  <1> HIDE DEF g
  <1>3. g[{}] = 0
    BY <1>2, SumUnfold
  <1> QED BY <1>3, SumIsTotal DEF SumAt, g

(* The sum over a set that is not empty takes one element first.           *)
LEMMA SumNext ==
    ASSUME NEW S, IsFiniteSet(S), S # {}, NEW f
    PROVE  SumFunctionOnSet(f, S) = f[Taken(S)] + SumFunctionOnSet(f, S \ {Taken(S)})
  <1> DEFINE u == S \ {Taken(S)}
             g == CHOOSE g : IsSum(g, f, S)
             h == CHOOSE h : IsSum(h, f, u)
  <1>1. IsFiniteSet(u) /\ u \subseteq S
    BY FS_Subset
  <1>2. IsSum(g, f, S) /\ IsSum(h, f, u)
    <2> HIDE DEF u
    <2> QED BY <1>1, SumExists
  <1>3. SumAt(f, S) = g[S] /\ SumAt(f, u) = h[u]
    BY DEF SumAt
  <1> HIDE DEF g, h, u
  <1>4. g[S] = f[Taken(S)] + g[u]
    BY <1>2, SumUnfold DEF u
  <1>5. g[u] = h[u]
    BY <1>1, <1>2, SumUnique
  <1> QED BY <1>3, <1>4, <1>5, SumIsTotal DEF u

(* A finite sum of integers is an integer, of naturals a natural.          *)
LEMMA SumInt ==
    ASSUME NEW S, IsFiniteSet(S), NEW f, \A x \in S : f[x] \in Int
    PROVE  SumFunctionOnSet(f, S) \in Int
  <1> DEFINE T == {s \in SUBSET S : SumFunctionOnSet(f, s) \notin Int}
  <1>1. SUFFICES ASSUME T # {} PROVE FALSE
    OBVIOUS
  <1>2. PICK s \in T : \A y \in T : y \subseteq s => y = s
    <2>1. T \subseteq SUBSET S
      OBVIOUS
    <2> HIDE DEF T
    <2> QED BY <1>1, <2>1, SmallestSubset
  <1>3. s # {} /\ IsFiniteSet(s)
    <2>1. IsFiniteSet(s)
      BY FS_Subset
    <2>2. s # {}
      <3>1. SumFunctionOnSet(f, s) \notin Int /\ 0 \in Int
        BY <1>2
      <3> QED BY <3>1, SumEmpty
    <2> QED BY <2>1, <2>2
  <1>4. Taken(s) \in s /\ s \ {Taken(s)} \in SUBSET S /\ s \ {Taken(s)} # s
    BY <1>3, NextIn
  <1>5. SumFunctionOnSet(f, s \ {Taken(s)}) \in Int /\ f[Taken(s)] \in Int
    BY <1>2, <1>4
  <1>6. SumFunctionOnSet(f, s) = f[Taken(s)] + SumFunctionOnSet(f, s \ {Taken(s)})
    BY <1>3, SumNext
  <1> QED BY <1>2, <1>5, <1>6

(* A sum of natural numbers is one.                                        *)
LEMMA SumNat ==
    ASSUME NEW S, IsFiniteSet(S), NEW f, \A x \in S : f[x] \in Nat
    PROVE  SumFunctionOnSet(f, S) \in Nat
  <1> DEFINE T == {s \in SUBSET S : SumFunctionOnSet(f, s) \notin Nat}
  <1>1. SUFFICES ASSUME T # {} PROVE FALSE
    OBVIOUS
  <1>2. PICK s \in T : \A y \in T : y \subseteq s => y = s
    <2>1. T \subseteq SUBSET S
      OBVIOUS
    <2> HIDE DEF T
    <2> QED BY <1>1, <2>1, SmallestSubset
  <1>3. s # {} /\ IsFiniteSet(s)
    <2>1. IsFiniteSet(s)
      BY FS_Subset
    <2>2. s # {}
      <3>1. SumFunctionOnSet(f, s) \notin Nat /\ 0 \in Nat
        BY <1>2
      <3> QED BY <3>1, SumEmpty
    <2> QED BY <2>1, <2>2
  <1>4. Taken(s) \in s /\ s \ {Taken(s)} \in SUBSET S /\ s \ {Taken(s)} # s
    BY <1>3, NextIn
  <1>5. SumFunctionOnSet(f, s \ {Taken(s)}) \in Nat /\ f[Taken(s)] \in Nat
    BY <1>2, <1>4
  <1>6. SumFunctionOnSet(f, s) = f[Taken(s)] + SumFunctionOnSet(f, s \ {Taken(s)})
    BY <1>3, SumNext
  <1> QED BY <1>2, <1>5, <1>6

(* Functions that agree on a set have the same sum over it.                *)
LEMMA SumSame ==
    ASSUME NEW S, IsFiniteSet(S), NEW f, NEW g, \A x \in S : f[x] = g[x]
    PROVE  SumFunctionOnSet(f, S) = SumFunctionOnSet(g, S)
  <1> DEFINE T == {s \in SUBSET S : SumFunctionOnSet(f, s) # SumFunctionOnSet(g, s)}
  <1>1. SUFFICES ASSUME T # {} PROVE FALSE
    OBVIOUS
  <1>2. PICK s \in T : \A y \in T : y \subseteq s => y = s
    <2>1. T \subseteq SUBSET S
      OBVIOUS
    <2> HIDE DEF T
    <2> QED BY <1>1, <2>1, SmallestSubset
  <1>3. s # {} /\ IsFiniteSet(s)
    <2>1. IsFiniteSet(s)
      BY FS_Subset
    <2>2. s # {}
      BY <1>2, SumEmpty
    <2> QED BY <2>1, <2>2
  <1>4. Taken(s) \in s /\ s \ {Taken(s)} \in SUBSET S /\ s \ {Taken(s)} # s
    BY <1>3, NextIn
  <1>5. /\ SumFunctionOnSet(f, s \ {Taken(s)}) = SumFunctionOnSet(g, s \ {Taken(s)})
        /\ f[Taken(s)] = g[Taken(s)]
    BY <1>2, <1>4
  <1>6. /\ SumFunctionOnSet(f, s) = f[Taken(s)] + SumFunctionOnSet(f, s \ {Taken(s)})
        /\ SumFunctionOnSet(g, s) = g[Taken(s)] + SumFunctionOnSet(g, s \ {Taken(s)})
    BY <1>3, SumNext
  <1> QED BY <1>2, <1>5, <1>6

(* Any element may be taken first.                                         *)
LEMMA SumRemove ==
    ASSUME NEW S, IsFiniteSet(S), NEW f, \A x \in S : f[x] \in Int, NEW e \in S
    PROVE  SumFunctionOnSet(f, S) = f[e] + SumFunctionOnSet(f, S \ {e})
  <1> DEFINE T == {s \in SUBSET S : \E x \in s : SumFunctionOnSet(f, s) # f[x] + SumFunctionOnSet(f, s \ {x})}
  <1>1. SUFFICES ASSUME T # {} PROVE FALSE
    OBVIOUS
  <1>2. PICK s \in T : \A y \in T : y \subseteq s => y = s
    <2>1. T \subseteq SUBSET S
      OBVIOUS
    <2> HIDE DEF T
    <2> QED BY <1>1, <2>1, SmallestSubset
  <1>3. PICK x \in s : SumFunctionOnSet(f, s) # f[x] + SumFunctionOnSet(f, s \ {x})
    BY <1>2
  <1> DEFINE n == Taken(s)
  <1>4. IsFiniteSet(s) /\ s \subseteq S
    BY <1>2, FS_Subset
  <1>5. n \in s
    BY <1>3, NextIn
  <1>6. SumFunctionOnSet(f, s) = f[n] + SumFunctionOnSet(f, s \ {n})
    BY <1>3, <1>4, SumNext
  <1> HIDE DEF n
  <1>7. n # x
    BY <1>3, <1>6
  <1>8. SumFunctionOnSet(f, s \ {n}) = f[x] + SumFunctionOnSet(f, (s \ {n}) \ {x})
    <2>1. s \ {n} \in SUBSET S /\ s \ {n} \subseteq s /\ s \ {n} # s /\ x \in s \ {n}
      BY <1>3, <1>5, <1>7
    <2> QED BY <1>2, <2>1
  <1>9. SumFunctionOnSet(f, s \ {x}) = f[n] + SumFunctionOnSet(f, (s \ {x}) \ {n})
    <2>1. s \ {x} \in SUBSET S /\ s \ {x} \subseteq s /\ s \ {x} # s /\ n \in s \ {x}
      BY <1>3, <1>5, <1>7
    <2> QED BY <1>2, <2>1
  <1>10. (s \ {n}) \ {x} = (s \ {x}) \ {n}
    OBVIOUS
  <1>11. f[n] \in Int /\ f[x] \in Int /\ SumFunctionOnSet(f, (s \ {x}) \ {n}) \in Int
    <2>1. IsFiniteSet((s \ {x}) \ {n})
      BY <1>4, FS_Subset
    <2> QED BY <1>3, <1>4, <1>5, <2>1, SumInt
  <1> DEFINE rest == SumFunctionOnSet(f, (s \ {x}) \ {n})
  <1>12. /\ SumFunctionOnSet(f, s) = f[n] + (f[x] + rest)
         /\ SumFunctionOnSet(f, s \ {x}) = f[n] + rest
    BY <1>6, <1>8, <1>9, <1>10
  <1> HIDE DEF rest
  <1>13. f[n] + (f[x] + rest) = f[x] + (f[n] + rest)
    BY <1>11 DEF rest
  <1> QED BY <1>3, <1>12, <1>13

(* Adding an element to the set adds its value to the sum.                 *)
LEMMA SumAdd ==
    ASSUME NEW S, IsFiniteSet(S), NEW e, e \notin S, NEW f, \A x \in S \cup {e} : f[x] \in Int
    PROVE  SumFunctionOnSet(f, S \cup {e}) = f[e] + SumFunctionOnSet(f, S)
  <1>1. IsFiniteSet(S \cup {e}) /\ (S \cup {e}) \ {e} = S
    BY FS_AddElement
  <1> QED BY <1>1, SumRemove

(* A sum grows by the value of a new member, also when the values of the   *)
(* old members are given by another function.                              *)
LEMMA SumGrow ==
    ASSUME NEW S, IsFiniteSet(S), NEW e, e \notin S, NEW T, T = S \cup {e}, NEW f, NEW g,
           \A x \in S : f[x] = g[x] /\ g[x] \in Int, f[e] \in Int
    PROVE  SumFunctionOnSet(f, T) = f[e] + SumFunctionOnSet(g, S)
  <1>1. SumFunctionOnSet(f, S \cup {e}) = f[e] + SumFunctionOnSet(f, S)
    BY SumAdd
  <1>2. SumFunctionOnSet(f, S) = SumFunctionOnSet(g, S)
    BY SumSame
  <1> QED BY <1>1, <1>2

(* A sum of natural numbers is at least each of them.                      *)
LEMMA SumAtLeast ==
    ASSUME NEW S, IsFiniteSet(S), NEW f, \A x \in S : f[x] \in Nat, NEW e \in S
    PROVE  SumFunctionOnSet(f, S) >= f[e]
  <1>1. SumFunctionOnSet(f, S) = f[e] + SumFunctionOnSet(f, S \ {e})
    BY SumRemove
  <1>2. SumFunctionOnSet(f, S \ {e}) \in Nat
    <2>1. IsFiniteSet(S \ {e})
      BY FS_Subset
    <2> QED BY <2>1, SumNat
  <1> QED BY <1>1, <1>2

(* A sum of zeros is zero.                                                 *)
LEMMA SumZero ==
    ASSUME NEW S, IsFiniteSet(S), NEW f, \A x \in S : f[x] = 0
    PROVE  SumFunctionOnSet(f, S) = 0
  <1> DEFINE T == {s \in SUBSET S : SumFunctionOnSet(f, s) # 0}
  <1>1. SUFFICES ASSUME T # {} PROVE FALSE
    OBVIOUS
  <1>2. PICK s \in T : \A y \in T : y \subseteq s => y = s
    <2>1. T \subseteq SUBSET S
      OBVIOUS
    <2> HIDE DEF T
    <2> QED BY <1>1, <2>1, SmallestSubset
  <1>3. s \subseteq S /\ IsFiniteSet(s) /\ SumFunctionOnSet(f, s) # 0
    BY <1>2, FS_Subset
  <1>4. s # {}
    BY <1>3, SumEmpty
  <1>5. Taken(s) \in s
    BY <1>4, NextIn
  <1>6. SumFunctionOnSet(f, s \ {Taken(s)}) = 0
    <2>1. s \ {Taken(s)} # s /\ s \ {Taken(s)} \subseteq s
      BY <1>5
    <2> QED BY <1>2, <1>3, <2>1
  <1>7. SumFunctionOnSet(f, s) = f[Taken(s)] + SumFunctionOnSet(f, s \ {Taken(s)})
    BY <1>3, <1>4, SumNext
  <1> QED BY <1>3, <1>5, <1>6, <1>7

(* A finite set of integers that is not empty has a greatest and a least   *)
(* member.                                                                 *)
LEMMA FiniteMax ==
    ASSUME NEW S, IsFiniteSet(S), S \subseteq Int, S # {}
    PROVE  \E m \in S : \A x \in S : x <= m
  <1> DEFINE T == {s \in SUBSET S : s # {} /\ ~\E m \in s : \A x \in s : x <= m}
  <1>1. SUFFICES ASSUME T # {} PROVE FALSE
    OBVIOUS
  <1>2. PICK s \in T : \A y \in T : y \subseteq s => y = s
    <2>1. T \subseteq SUBSET S
      OBVIOUS
    <2>2. \A U \in SUBSET SUBSET S : U # {} => \E x \in U : \A y \in U : y \subseteq x => y = x
      BY ONLY IsFiniteSet(S), SmallestSubset
    <2> HIDE DEF T
    <2> QED BY <1>1, <2>1, <2>2
  <1>3. PICK e \in s : TRUE
    BY <1>2
  <1>4. s \ {e} \in SUBSET S /\ s \ {e} # s /\ s \ {e} \subseteq s
    BY <1>2, <1>3
  <1>5. s \ {e} # {}
    BY <1>2, <1>3
  <1>6. PICK m \in s \ {e} : \A x \in s \ {e} : x <= m
    BY <1>2, <1>4, <1>5
  <1>7. CASE e <= m
    BY <1>2, <1>6, <1>7
  <1>8. CASE m < e
    BY <1>2, <1>3, <1>6, <1>8
  <1> QED BY <1>2, <1>6, <1>7, <1>8

(* A nonempty finite set of integers has a least element.                  *)
LEMMA FiniteMin ==
    ASSUME NEW S, IsFiniteSet(S), S \subseteq Int, S # {}
    PROVE  \E m \in S : \A x \in S : m <= x
  <1> DEFINE T == {s \in SUBSET S : s # {} /\ ~\E m \in s : \A x \in s : m <= x}
  <1>1. SUFFICES ASSUME T # {} PROVE FALSE
    OBVIOUS
  <1>2. PICK s \in T : \A y \in T : y \subseteq s => y = s
    <2>1. T \subseteq SUBSET S
      OBVIOUS
    <2>2. \A U \in SUBSET SUBSET S : U # {} => \E x \in U : \A y \in U : y \subseteq x => y = x
      BY ONLY IsFiniteSet(S), SmallestSubset
    <2> HIDE DEF T
    <2> QED BY <1>1, <2>1, <2>2
  <1>3. PICK e \in s : TRUE
    BY <1>2
  <1>4. s \ {e} \in SUBSET S /\ s \ {e} # s /\ s \ {e} \subseteq s
    BY <1>2, <1>3
  <1>5. s \ {e} # {}
    BY <1>2, <1>3
  <1>6. PICK m \in s \ {e} : \A x \in s \ {e} : m <= x
    BY <1>2, <1>4, <1>5
  <1>7. CASE m <= e
    BY <1>2, <1>6, <1>7
  <1>8. CASE e < m
    BY <1>2, <1>3, <1>6, <1>8
  <1> QED BY <1>2, <1>6, <1>7, <1>8

(* What is taken off some members is taken off the sum.                    *)
LEMMA SumMinus ==
    ASSUME NEW S, IsFiniteSet(S), NEW D, D \subseteq S, NEW f, NEW g, NEW a,
           \A x \in S : g[x] \in Int,
           \A x \in D : a[x] \in Int /\ f[x] = g[x] - a[x],
           \A x \in S : x \notin D => f[x] = g[x]
    PROVE  SumFunctionOnSet(f, S) = SumFunctionOnSet(g, S) - SumFunctionOnSet(a, D)
  <1> DEFINE T == {s \in SUBSET S : SumFunctionOnSet(f, s) # SumFunctionOnSet(g, s) - SumFunctionOnSet(a, s \cap D)}
  <1>1. SUFFICES ASSUME T # {} PROVE FALSE
    <2>1. S \cap D = D
      OBVIOUS
    <2> QED BY <2>1
  <1>2. PICK s \in T : \A y \in T : y \subseteq s => y = s
    <2>1. T \subseteq SUBSET S
      OBVIOUS
    <2> HIDE DEF T
    <2> QED BY <1>1, <2>1, SmallestSubset
  <1>3. IsFiniteSet(s) /\ s \subseteq S /\ IsFiniteSet(s \cap D)
    BY <1>2, FS_Subset
  <1>4. s # {}
    <2>1. SUFFICES ASSUME s = {} PROVE FALSE
      OBVIOUS
    <2>2. s \cap D = {}
      BY <2>1
    <2> QED BY <1>2, <2>1, <2>2, SumEmpty
  <1>5. PICK e \in s : TRUE
    BY <1>4
  <1> DEFINE u == s \ {e}
  <1>6. u \in SUBSET S /\ u \subseteq s /\ u # s /\ IsFiniteSet(u) /\ IsFiniteSet(u \cap D)
    BY <1>3, <1>5, FS_Subset
  <1>7. SumFunctionOnSet(f, u) = SumFunctionOnSet(g, u) - SumFunctionOnSet(a, u \cap D)
    BY <1>2, <1>6
  <1>8. \A x \in S : f[x] \in Int
    OBVIOUS
  <1>9. /\ SumFunctionOnSet(f, s) = f[e] + SumFunctionOnSet(f, u)
        /\ SumFunctionOnSet(g, s) = g[e] + SumFunctionOnSet(g, u)
    BY <1>3, <1>5, <1>8, SumRemove
  <1>10. /\ SumFunctionOnSet(g, u) \in Int /\ SumFunctionOnSet(a, u \cap D) \in Int
         /\ f[e] \in Int /\ g[e] \in Int
    <2>1. \A x \in u : g[x] \in Int
      BY <1>6
    <2>2. \A x \in u \cap D : a[x] \in Int
      BY <1>6
    <2>3. SumFunctionOnSet(g, u) \in Int
      BY <1>6, <2>1, SumInt
    <2>4. SumFunctionOnSet(a, u \cap D) \in Int
      BY <1>6, <2>2, SumInt
    <2> QED BY <1>3, <1>5, <1>8, <2>3, <2>4
  <1>11. CASE e \in D
    <2>1. e \in s \cap D /\ (s \cap D) \ {e} = u \cap D
      BY <1>5, <1>11
    <2>2. \A x \in s \cap D : a[x] \in Int
      OBVIOUS
    <2>3. SumFunctionOnSet(a, s \cap D) = a[e] + SumFunctionOnSet(a, u \cap D)
      BY <1>3, <2>1, <2>2, SumRemove
    <2>4. a[e] \in Int /\ f[e] = g[e] - a[e]
      BY <1>11
    <2> HIDE DEF u
    <2> QED BY <1>2, <1>7, <1>9, <1>10, <2>3, <2>4
  <1>12. CASE e \notin D
    <2>1. s \cap D = u \cap D
      BY <1>12
    <2>2. f[e] = g[e]
      BY <1>3, <1>5, <1>12
    <2>3. SumFunctionOnSet(a, s \cap D) = SumFunctionOnSet(a, u \cap D)
      BY <2>1
    <2>4. SumFunctionOnSet(f, s) # SumFunctionOnSet(g, s) - SumFunctionOnSet(a, s \cap D)
      BY <1>2
    <2> HIDE DEF u, T
    <2> QED BY <1>7, <1>9, <1>10, <2>2, <2>3, <2>4
  <1> QED BY <1>11, <1>12

(* Members of no value may be left out.                                    *)
LEMMA SumDropZero ==
    ASSUME NEW S, IsFiniteSet(S), NEW D, D \subseteq S, NEW f,
           \A x \in D : f[x] \in Int, \A x \in S : x \notin D => f[x] = 0
    PROVE  SumFunctionOnSet(f, S) = SumFunctionOnSet(f, D)
  <1> DEFINE z == [x \in S |-> 0]
  <1>1. /\ \A x \in S : f[x] \in Int
        /\ \A x \in D : f[x] \in Int /\ z[x] = f[x] - f[x]
        /\ \A x \in S : x \notin D => z[x] = f[x]
    OBVIOUS
  <1>2. \A x \in S : z[x] = 0
    OBVIOUS
  <1> HIDE DEF z
  <1>3. SumFunctionOnSet(z, S) = SumFunctionOnSet(f, S) - SumFunctionOnSet(f, D)
    BY <1>1, SumMinus
  <1>4. SumFunctionOnSet(z, S) = 0
    BY <1>2, SumZero
  <1>5. SumFunctionOnSet(f, S) \in Int /\ SumFunctionOnSet(f, D) \in Int
    <2>1. IsFiniteSet(D)
      BY FS_Subset
    <2>2. SumFunctionOnSet(f, S) \in Int
      BY <1>1, SumInt
    <2>3. SumFunctionOnSet(f, D) \in Int
      BY <1>1, <2>1, SumInt
    <2> QED BY <2>2, <2>3
  <1> QED BY <1>3, <1>4, <1>5

(* The sum over two sets that share nothing.                               *)
LEMMA SumSplit ==
    ASSUME NEW S, IsFiniteSet(S), NEW D, NEW E, D \cup E = S, D \cap E = {}, NEW f, \A x \in S : f[x] \in Int
    PROVE  SumFunctionOnSet(f, S) = SumFunctionOnSet(f, D) + SumFunctionOnSet(f, E)
  <1> DEFINE h == [x \in S |-> IF x \in D THEN 0 ELSE f[x]]
  <1>1. D \subseteq S /\ E \subseteq S /\ IsFiniteSet(D) /\ IsFiniteSet(E)
    <2>1. D \subseteq S /\ E \subseteq S
      OBVIOUS
    <2> QED BY <2>1, FS_Subset
  <1>2. /\ \A x \in D : f[x] \in Int /\ h[x] = f[x] - f[x]
        /\ \A x \in S : x \notin D => h[x] = f[x]
        /\ \A x \in E : h[x] \in Int /\ h[x] = f[x]
        /\ \A x \in S : x \notin E => h[x] = 0
    BY <1>1
  <1> HIDE DEF h
  <1>3. SumFunctionOnSet(h, S) = SumFunctionOnSet(f, S) - SumFunctionOnSet(f, D)
    BY <1>1, <1>2, SumMinus
  <1>4. SumFunctionOnSet(h, S) = SumFunctionOnSet(h, E)
    BY <1>1, <1>2, SumDropZero
  <1>5. SumFunctionOnSet(h, E) = SumFunctionOnSet(f, E)
    BY <1>1, <1>2, SumSame
  <1>6. /\ SumFunctionOnSet(f, S) \in Int /\ SumFunctionOnSet(f, D) \in Int /\ SumFunctionOnSet(f, E) \in Int
    <2>1. (\A x \in D : f[x] \in Int) /\ (\A x \in E : f[x] \in Int)
      BY <1>1
    <2>2. SumFunctionOnSet(f, D) \in Int
      BY <1>1, <2>1, SumInt
    <2>3. SumFunctionOnSet(f, E) \in Int
      BY <1>1, <2>1, SumInt
    <2>4. SumFunctionOnSet(f, S) \in Int
      BY SumInt
    <2> QED BY <2>2, <2>3, <2>4
  <1> QED BY <1>3, <1>4, <1>5, <1>6

(* A sum may run over other names of its members.                          *)
LEMMA SumReindex ==
    ASSUME NEW D, IsFiniteSet(D), NEW h, NEW f, NEW g,
           \A x \in D : g[x] = f[h[x]] /\ g[x] \in Int,
           \A x, y \in D : h[x] = h[y] => x = y
    PROVE  SumFunctionOnSet(g, D) = SumFunctionOnSet(f, {h[x] : x \in D})
  <1> DEFINE Im(s) == {h[x] : x \in s}
             T == {s \in SUBSET D : SumFunctionOnSet(g, s) # SumFunctionOnSet(f, Im(s))}
  <1>1. SUFFICES ASSUME T # {} PROVE FALSE
    OBVIOUS
  <1>2. PICK s \in T : \A y \in T : y \subseteq s => y = s
    <2>1. T \subseteq SUBSET D
      OBVIOUS
    <2> HIDE DEF T
    <2> QED BY <1>1, <2>1, SmallestSubset
  <1>3. s \subseteq D /\ IsFiniteSet(s) /\ SumFunctionOnSet(g, s) # SumFunctionOnSet(f, Im(s))
    BY <1>2, FS_Subset
  <1>4. s # {}
    <2>1. SUFFICES ASSUME s = {} PROVE FALSE
      OBVIOUS
    <2>2. Im(s) = {}
      BY <2>1
    <2> QED BY <1>3, <2>1, <2>2, SumEmpty
  <1>5. PICK e \in s : TRUE
    BY <1>4
  <1> DEFINE u == s \ {e}
  <1>6. u \in SUBSET D /\ u \subseteq s /\ u # s
    BY <1>3, <1>5
  <1>7. SumFunctionOnSet(g, u) = SumFunctionOnSet(f, Im(u))
    BY <1>2, <1>6
  <1>8. SumFunctionOnSet(g, s) = g[e] + SumFunctionOnSet(g, u)
    <2>1. \A x \in s : g[x] \in Int
      BY <1>3
    <2> QED BY <1>3, <1>5, <2>1, SumRemove
  <1>9. IsFiniteSet(Im(s))
    <2> DEFINE k == [x \in s |-> h[x]]
    <2>1. k \in Surjection(s, Im(s))
      BY DEF Surjection
    <2> HIDE DEF k, Im
    <2> QED BY <1>3, <2>1, FS_Surjection
  <1>10. h[e] \in Im(s) /\ Im(s) \ {h[e]} = Im(u) /\ f[h[e]] = g[e]
    <2>1. h[e] \in Im(s) /\ f[h[e]] = g[e]
      BY <1>3, <1>5
    <2>2. \A x \in s : h[x] # h[e] <=> x \in u
      BY <1>3, <1>5
    <2>3. Im(s) \ {h[e]} = Im(u)
      BY <2>2, <1>6
    <2> QED BY <2>1, <2>3
  <1>11. \A y \in Im(s) : f[y] \in Int
    BY <1>3
  <1>12. SumFunctionOnSet(f, Im(s)) = f[h[e]] + SumFunctionOnSet(f, Im(s) \ {h[e]})
    <2> HIDE DEF Im, T, u
    <2> QED BY <1>9, <1>10, <1>11, SumRemove
  <1> HIDE DEF Im, u, T
  <1> QED BY <1>3, <1>7, <1>8, <1>10, <1>12

(* A sum may be taken class by class.                                      *)
LEMMA SumByClass ==
    ASSUME NEW S, IsFiniteSet(S), NEW B, IsFiniteSet(B), NEW k, \A x \in S : k[x] \in B,
           NEW f, \A x \in S : f[x] \in Int, NEW g, NEW C,
           \A b \in B : C[b] \subseteq S /\ (\A x \in S : x \in C[b] <=> k[x] = b) /\ g[b] = SumFunctionOnSet(f, C[b])
    PROVE  SumFunctionOnSet(g, B) = SumFunctionOnSet(f, S)
  <1> DEFINE In(s) == {x \in S : k[x] \in s}
             T == {s \in SUBSET B : SumFunctionOnSet(g, s) # SumFunctionOnSet(f, In(s))}
  <1>1. SUFFICES ASSUME T # {} PROVE FALSE
    <2>1. In(B) = S
      OBVIOUS
    <2> HIDE DEF In
    <2> QED BY <2>1
  <1>2. PICK s \in T : \A y \in T : y \subseteq s => y = s
    <2>1. T \subseteq SUBSET B
      OBVIOUS
    <2> HIDE DEF T
    <2> QED BY <1>1, <2>1, SmallestSubset
  <1>3. s \subseteq B /\ IsFiniteSet(s) /\ SumFunctionOnSet(g, s) # SumFunctionOnSet(f, In(s))
    BY <1>2, FS_Subset
  <1>4. s # {}
    <2>1. SUFFICES ASSUME s = {} PROVE FALSE
      OBVIOUS
    <2>2. In(s) = {}
      BY <2>1
    <2> QED BY <1>3, <2>1, <2>2, SumEmpty
  <1>5. PICK e \in s : TRUE
    BY <1>4
  <1> DEFINE u == s \ {e}
             E == C[e]
  <1>6. u \in SUBSET B /\ u \subseteq s /\ u # s
    BY <1>3, <1>5
  <1>7. SumFunctionOnSet(g, u) = SumFunctionOnSet(f, In(u))
    BY <1>2, <1>6
  <1>8. IsFiniteSet(In(s)) /\ IsFiniteSet(In(u)) /\ E \cup In(u) = In(s) /\ E \cap In(u) = {}
    <2>1. In(s) \subseteq S /\ In(u) \subseteq S
      OBVIOUS
    <2>2. IsFiniteSet(In(s)) /\ IsFiniteSet(In(u))
      BY <2>1, FS_Subset
    <2>3. e \in B /\ E \subseteq S /\ \A x \in S : x \in E <=> k[x] = e
      BY <1>3, <1>5
    <2> QED BY <1>5, <2>2, <2>3
  <1>9. \A x \in In(s) : f[x] \in Int
    OBVIOUS
  <1>10. \A b \in B : g[b] \in Int
    <2>1. SUFFICES ASSUME NEW b \in B PROVE g[b] \in Int
      OBVIOUS
    <2> DEFINE F == C[b]
    <2>2. F \subseteq S /\ (\A x \in F : f[x] \in Int) /\ g[b] = SumFunctionOnSet(f, F)
      OBVIOUS
    <2> HIDE DEF F
    <2>3. IsFiniteSet(F)
      BY <2>2, FS_Subset
    <2> QED BY <2>2, <2>3, SumInt
  <1>11. SumFunctionOnSet(g, s) = g[e] + SumFunctionOnSet(g, u)
    <2>1. \A b \in s : g[b] \in Int
      BY <1>3, <1>10
    <2> QED BY <1>3, <1>5, <2>1, SumRemove
  <1>12. g[e] = SumFunctionOnSet(f, E)
    BY <1>3, <1>5
  <1> HIDE DEF In, E, u, T
  <1>13. SumFunctionOnSet(f, In(s)) = SumFunctionOnSet(f, E) + SumFunctionOnSet(f, In(u))
    BY <1>8, <1>9, SumSplit
  <1> QED BY <1>3, <1>7, <1>11, <1>12, <1>13

(* Changing the value of one member.                                       *)
LEMMA SumChange ==
    ASSUME NEW S, IsFiniteSet(S), NEW e \in S, NEW f, NEW g, f[e] \in Int,
           \A x \in S : g[x] \in Int, \A x \in S : x # e => f[x] = g[x]
    PROVE  SumFunctionOnSet(f, S) = SumFunctionOnSet(g, S) + f[e] - g[e]
  <1> DEFINE R == S \ {e}
  <1>1. IsFiniteSet(R) /\ \A x \in R : f[x] = g[x] /\ g[x] \in Int
    BY FS_Subset
  <1>2. \A x \in S : f[x] \in Int
    OBVIOUS
  <1>3. /\ SumFunctionOnSet(f, S) = f[e] + SumFunctionOnSet(f, R)
        /\ SumFunctionOnSet(g, S) = g[e] + SumFunctionOnSet(g, R)
    BY <1>2, SumRemove
  <1> HIDE DEF R
  <1>4. SumFunctionOnSet(f, R) = SumFunctionOnSet(g, R)
    BY <1>1, SumSame
  <1>5. SumFunctionOnSet(g, R) \in Int
    BY <1>1, SumInt
  <1> QED BY <1>3, <1>4, <1>5

(* A sum over one member more.                                             *)
LEMMA SumWith ==
    ASSUME NEW S, IsFiniteSet(S), NEW T, NEW e \in T, e \notin S, \A x \in S : x \in T, \A x \in T : x = e \/ x \in S,
           NEW f, NEW g, f[e] \in Int, \A x \in S : f[x] = g[x] /\ g[x] \in Int
    PROVE  SumFunctionOnSet(f, T) = f[e] + SumFunctionOnSet(g, S)
  <1>1. T = S \cup {e}
    OBVIOUS
  <1> QED BY <1>1, SumGrow

(* Among finitely many, one has the largest value.                         *)
LEMMA FiniteMost ==
    ASSUME NEW S, IsFiniteSet(S), S # {}, NEW f, \A x \in S : f[x] \in Int
    PROVE  \E m \in S : \A x \in S : f[x] <= f[m]
  <1> DEFINE T == {f[x] : x \in S}
             k == [x \in S |-> f[x]]
  <1>1. k \in Surjection(S, T)
    BY DEF Surjection
  <1>2. IsFiniteSet(T)
    <2> HIDE DEF k, T
    <2> QED BY <1>1, FS_Surjection
  <1>3. T \subseteq Int /\ T # {}
    OBVIOUS
  <1>4. \E m \in T : \A x \in T : x <= m
    <2> HIDE DEF T
    <2> QED BY <1>2, <1>3, FiniteMax
  <1> QED BY <1>4

(* The image of a finite set.                                              *)
LEMMA FiniteImage ==
    ASSUME NEW S, IsFiniteSet(S), NEW h
    PROVE  IsFiniteSet({h[x] : x \in S})
  <1> DEFINE T == {h[x] : x \in S}
             k == [x \in S |-> h[x]]
  <1>1. k \in Surjection(S, T)
    BY DEF Surjection
  <1> HIDE DEF k, T
  <1>2. IsFiniteSet(T)
    BY <1>1, FS_Surjection
  <1> QED BY <1>2 DEF T

(* A common factor.                                                        *)
LEMMA SumScale ==
    ASSUME NEW S, IsFiniteSet(S), NEW c \in Int, NEW f, NEW g, \A x \in S : g[x] \in Int /\ f[x] = c * g[x]
    PROVE  SumFunctionOnSet(f, S) = c * SumFunctionOnSet(g, S)
  <1> DEFINE T == {s \in SUBSET S : SumFunctionOnSet(f, s) # c * SumFunctionOnSet(g, s)}
  <1>1. SUFFICES ASSUME T # {} PROVE FALSE
    OBVIOUS
  <1>2. PICK s \in T : \A y \in T : y \subseteq s => y = s
    <2>1. T \subseteq SUBSET S
      OBVIOUS
    <2> HIDE DEF T
    <2> QED BY <1>1, <2>1, SmallestSubset
  <1>3. s # {} /\ IsFiniteSet(s)
    <2>1. IsFiniteSet(s)
      BY FS_Subset
    <2>2. s # {}
      <3>1. SumFunctionOnSet(f, s) # c * SumFunctionOnSet(g, s) /\ c * 0 = 0
        BY <1>2
      <3> QED BY <3>1, SumEmpty
    <2> QED BY <2>1, <2>2
  <1>4. Taken(s) \in s /\ s \ {Taken(s)} \in SUBSET S /\ s \ {Taken(s)} # s
    BY <1>3, NextIn
  <1>5. PICK u, a, b : u = s \ {Taken(s)} /\ a = g[Taken(s)] /\ b = SumFunctionOnSet(g, u)
    OBVIOUS
  <1>6. SumFunctionOnSet(f, u) = c * b /\ f[Taken(s)] = c * a /\ a \in Int
    BY <1>2, <1>4, <1>5
  <1>7. b \in Int
    <2>1. IsFiniteSet(u) /\ \A x \in u : g[x] \in Int
      BY <1>3, <1>4, <1>5, FS_Subset
    <2> QED BY ONLY <1>5, <2>1, SumInt
  <1>8. SumFunctionOnSet(f, s) = c * a + c * b /\ SumFunctionOnSet(g, s) = a + b
    BY <1>3, <1>5, <1>6, SumNext, ZenonT(40)
  <1>9. c * (a + b) = c * a + c * b
    BY <1>6, <1>7
  <1> QED BY <1>2, <1>8, <1>9

(* A sum is at most so many times a bound of its terms.                    *)
LEMMA SumBounded ==
    ASSUME NEW S, IsFiniteSet(S), NEW c \in Int, NEW f, \A x \in S : f[x] \in Int /\ f[x] <= c
    PROVE  SumFunctionOnSet(f, S) <= c * Cardinality(S)
  <1> DEFINE T == {s \in SUBSET S : ~(SumFunctionOnSet(f, s) <= c * Cardinality(s))}
  <1>1. SUFFICES ASSUME T # {} PROVE FALSE
    OBVIOUS
  <1>2. PICK s \in T : \A y \in T : y \subseteq s => y = s
    <2>1. T \subseteq SUBSET S
      OBVIOUS
    <2> HIDE DEF T
    <2> QED BY <1>1, <2>1, SmallestSubset
  <1>3. s # {} /\ IsFiniteSet(s)
    <2>1. IsFiniteSet(s)
      BY FS_Subset
    <2>2. s # {}
      <3>1. ~(SumFunctionOnSet(f, s) <= c * Cardinality(s)) /\ c * 0 = 0 /\ 0 <= 0
        BY <1>2
      <3>2. SumFunctionOnSet(f, {}) = 0 /\ Cardinality({}) = 0
        BY SumEmpty, FS_EmptySet
      <3> QED BY <3>1, <3>2
    <2> QED BY <2>1, <2>2
  <1>4. Taken(s) \in s /\ s \ {Taken(s)} \in SUBSET S /\ s \ {Taken(s)} # s
    BY <1>3, NextIn
  <1>5. PICK u, a, b, k : /\ u = s \ {Taken(s)} /\ a = f[Taken(s)] /\ b = SumFunctionOnSet(f, u)
                          /\ k = Cardinality(u)
    OBVIOUS
  <1>6. b <= c * k /\ a \in Int /\ a <= c
    BY <1>2, <1>4, <1>5
  <1>7. b \in Int
    <2>1. IsFiniteSet(u) /\ \A x \in u : f[x] \in Int
      BY <1>3, <1>4, <1>5, FS_Subset
    <2> QED BY ONLY <1>5, <2>1, SumInt
  <1>8. k \in Nat /\ Cardinality(s) = k + 1
    <2>1. IsFiniteSet(u) /\ k = Cardinality(s) - 1
      BY <1>3, <1>4, <1>5, FS_RemoveElement
    <2>2. Cardinality(s) \in Nat /\ k \in Nat
      BY <1>3, <1>5, <2>1, FS_CardinalityType
    <2> QED BY ONLY <2>1, <2>2
  <1>9. SumFunctionOnSet(f, s) = a + b
    BY <1>3, <1>5, SumNext
  <1>10. c * (k + 1) = c * k + c /\ c * k \in Int
    BY <1>8
  <1> QED BY <1>2, <1>6, <1>7, <1>8, <1>9, <1>10

(* The same term everywhere.                                               *)
LEMMA SumConstant ==
    ASSUME NEW S, IsFiniteSet(S), NEW c \in Int, NEW f, \A x \in S : f[x] = c
    PROVE  SumFunctionOnSet(f, S) = c * Cardinality(S)
  <1>0. PICK m \in Int : m = -c
    OBVIOUS
  <1> DEFINE g == [x \in S |-> m]
  <1>1. SumFunctionOnSet(f, S) <= c * Cardinality(S)
    BY SumBounded
  <1>2. \A x \in S : g[x] \in Int /\ g[x] <= m /\ f[x] \in Int /\ g[x] = (-1) * f[x]
    BY <1>0
  <1> HIDE DEF g
  <1>3. SumFunctionOnSet(g, S) <= m * Cardinality(S)
    BY ONLY <1>2, IsFiniteSet(S), m \in Int, SumBounded
  <1>4. SumFunctionOnSet(g, S) = (-1) * SumFunctionOnSet(f, S)
    BY ONLY <1>2, IsFiniteSet(S), -1 \in Int, SumScale
  <1>5. PICK k \in Nat : k = Cardinality(S)
    BY FS_CardinalityType
  <1>6. PICK t \in Int : t = SumFunctionOnSet(f, S)
    BY <1>2, SumInt
  <1>7. m * k = -(c * k) /\ c * k \in Int
    BY <1>0
  <1> QED BY <1>1, <1>3, <1>4, <1>5, <1>6, <1>7

-----------------------------------------------------------------------------
(* Division and rounding.                                                  *)

(* Integer division, its quotient between its bounds.                      *)
LEMMA DivBounds ==
    ASSUME NEW a \in Nat, NEW b \in Nat \ {0}
    PROVE  /\ a \div b \in Nat
           /\ b * (a \div b) <= a
           /\ a < b * (a \div b) + b
  <1>1. a \div b \in Nat
    OBVIOUS
  <1>2. a = b * (a \div b) + (a % b) /\ a % b \in 0 .. b - 1
    OBVIOUS
  <1>3. b * (a \div b) \in Int
    BY <1>1
  <1> QED BY <1>1, <1>2, <1>3

=============================================================================
