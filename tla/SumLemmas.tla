------------------------------ MODULE SumLemmas ------------------------------
(***************************************************************************)
(* What SumFunctionOnSet(f, S) of the module Functions is, for a finite    *)
(* set S: zero for the empty set, and the value of any element more than   *)
(* the sum of the others.  It is defined by recursion over the subsets of  *)
(* S, so that such a function exists, and only one, is shown first.        *)
(***************************************************************************)
EXTENDS Integers, FiniteSets, Functions, FiniteSetTheorems, TLAPS

(* Induction over finite sets: of the subsets that are in some collection  *)
(* one has no smaller one in it.                                           *)
LEMMA MinimalSubset ==
    ASSUME NEW S, IsFiniteSet(S), NEW C \in SUBSET (SUBSET S), C # {}
    PROVE  \E t \in C : \A u \in C : u \subseteq t => u = t
  <1>1. IsWellFoundedOn(StrictSubsetOrdering(S), SUBSET S)
    BY FS_FiniteSubsetsOfFinite, FS_StrictSubsetOrderingWellFounded
  <1>2. PICK t \in C : \A u \in C : ~ (<<u, t>> \in StrictSubsetOrdering(S))
    BY <1>1, WFMin
  <1>3. \A u \in C : u \subseteq t => u = t
    BY <1>2 DEF StrictSubsetOrdering
  <1> QED BY <1>3

Picked(s) == CHOOSE x \in s : TRUE

(* The picked element is one of the set.                                    *)
LEMMA PickedIsIn == \A s : s # {} => Picked(s) \in s
  BY DEF Picked

(* A function that computes the sums of f over the subsets of S.           *)
Sums(it, f, S) ==
    /\ it = [s \in SUBSET S |-> it[s]]
    /\ \A s \in SUBSET S :
          it[s] = IF s = {} THEN 0 ELSE f[Picked(s)] + it[s \ {Picked(s)}]

(* Two of them agree where both are defined.                               *)
LEMMA SumsAgree ==
    ASSUME NEW S, IsFiniteSet(S), NEW T \in SUBSET S, NEW f, NEW it, NEW jt,
           Sums(it, f, S), Sums(jt, f, T)
    PROVE  \A s \in SUBSET T : it[s] = jt[s]
  <1> DEFINE C == {s \in SUBSET T : it[s] # jt[s]}
  <1> SUFFICES ASSUME C # {} PROVE FALSE
    OBVIOUS
  <1>0. IsFiniteSet(T) /\ C \in SUBSET (SUBSET T)
    BY FS_Subset
  <1>1. PICK t \in C : \A u \in C : u \subseteq t => u = t
    <2> HIDE DEF C
    <2> QED BY <1>0, MinimalSubset
  <1>2. CASE t = {}
    BY <1>2 DEF Sums
  <1>3. CASE t # {}
    <2>1. Picked(t) \in t
      BY <1>3, PickedIsIn
    <2>2. t \ {Picked(t)} \in SUBSET T /\ t \ {Picked(t)} \notin C
      BY <1>1, <2>1
    <2>3. it[t] = f[Picked(t)] + it[t \ {Picked(t)}]
      BY <1>1, <1>3 DEF Sums
    <2>4. jt[t] = f[Picked(t)] + jt[t \ {Picked(t)}]
      BY <1>1, <1>3 DEF Sums
    <2> QED BY <2>2, <2>3, <2>4
  <1> QED BY <1>2, <1>3

(* There is one for every finite set.                                       *)
LEMMA SumsExist ==
    ASSUME NEW S, IsFiniteSet(S), NEW f
    PROVE  \E it : Sums(it, f, S)
  <1> DEFINE C == {t \in SUBSET S : ~ \E it : Sums(it, f, t)}
  <1> SUFFICES ASSUME C # {} PROVE FALSE
    OBVIOUS
  <1>0. C \in SUBSET (SUBSET S)
    OBVIOUS
  <1>1. PICK t \in C : \A u \in C : u \subseteq t => u = t
    <2> HIDE DEF C
    <2> QED BY <1>0, MinimalSubset
  <1> DEFINE Of(s) == CHOOSE it : Sums(it, f, s)
  <1>2. \A s \in SUBSET t : s # t => Sums(Of(s), f, s)
    <2> SUFFICES ASSUME NEW s \in SUBSET t, s # t PROVE Sums(Of(s), f, s)
      OBVIOUS
    <2>1. s \notin C /\ s \in SUBSET S
      BY <1>1
    <2>2. \E it : Sums(it, f, s)
      BY <2>1
    <2> QED BY <2>2
  <1> DEFINE last == IF t = {} THEN 0 ELSE f[Picked(t)] + Of(t \ {Picked(t)})[t \ {Picked(t)}]
             jt == [s \in SUBSET t |-> IF s = t THEN last ELSE Of(s)[s]]
  <1>3. \A s \in SUBSET t : s # t /\ s # {} =>
            Of(s)[s] = f[Picked(s)] + Of(s \ {Picked(s)})[s \ {Picked(s)}]
    <2> SUFFICES ASSUME NEW s \in SUBSET t, s # t, s # {}
                 PROVE  Of(s)[s] = f[Picked(s)] + Of(s \ {Picked(s)})[s \ {Picked(s)}]
      OBVIOUS
    <2> DEFINE r == s \ {Picked(s)}
    <2>1. r \in SUBSET s /\ r \in SUBSET t /\ r # t /\ s \in SUBSET s
      BY PickedIsIn
    <2>2. Sums(Of(s), f, s) /\ Sums(Of(r), f, r)
      BY <1>2, <2>1
    <2>3. IsFiniteSet(s)
      BY <1>1, FS_Subset
    <2> HIDE DEF Of, r
    <2>4. Of(s)[r] = Of(r)[r]
      BY <2>1, <2>2, <2>3, SumsAgree
    <2>5. Of(s)[s] = f[Picked(s)] + Of(s)[s \ {Picked(s)}]
      BY <2>1, <2>2 DEF Sums
    <2> QED BY <2>4, <2>5 DEF r
  <1>4. \A s \in SUBSET t : s # t /\ s = {} => Of(s)[s] = 0
    <2> SUFFICES ASSUME NEW s \in SUBSET t, s # t, s = {} PROVE Of(s)[s] = 0
      OBVIOUS
    <2>1. Sums(Of(s), f, s)
      BY <1>2
    <2> HIDE DEF Of
    <2> QED BY <2>1 DEF Sums
  <1>5. Sums(jt, f, t)
    <2>1. jt = [s \in SUBSET t |-> jt[s]]
      OBVIOUS
    <2>2. ASSUME NEW s \in SUBSET t
          PROVE  jt[s] = IF s = {} THEN 0 ELSE f[Picked(s)] + jt[s \ {Picked(s)}]
      <3>1. s \ {Picked(s)} \in SUBSET t /\ (s # {} => s \ {Picked(s)} # t)
        BY PickedIsIn
      <3> HIDE DEF Of
      <3>2. CASE s = t
        BY <3>1, <3>2
      <3>3. CASE s # t
        BY <3>1, <3>3, <1>3, <1>4
      <3> QED BY <3>2, <3>3
    <2> HIDE DEF jt
    <2> QED BY <2>1, <2>2 DEF Sums
  <1> QED BY <1>1, <1>5

(* The recursion of the library's operator is such a function.             *)
LEMMA SumIsOfSums ==
    ASSUME NEW S, IsFiniteSet(S), NEW f
    PROVE  \E it : Sums(it, f, S) /\ SumFunctionOnSet(f, S) = it[S]
  <1> DEFINE Rec(it) == it = [s \in SUBSET S |->
                IF s = {} THEN 0
                ELSE f[CHOOSE x \in s : TRUE] + it[s \ {CHOOSE x \in s : TRUE}]]
             iter == CHOOSE it : Rec(it)
  <1>1. SumFunctionOnSet(f, S) = iter[S]
    BY DEF SumFunctionOnSet, FoldFunctionOnSet, MapThenFoldSet
  <1>2. ASSUME NEW it PROVE Sums(it, f, S) <=> Rec(it)
    BY DEF Sums, Picked
  <1> HIDE DEF Rec
  <1>3. PICK some : Sums(some, f, S)
    BY SumsExist
  <1>4. Rec(some)
    BY <1>2, <1>3
  <1>5. Rec(iter)
    BY <1>4
  <1>6. Sums(iter, f, S)
    BY <1>2, <1>5
  <1> HIDE DEF iter
  <1> QED BY <1>1, <1>6

(* The sum over no element is zero.                                         *)
LEMMA SumEmpty == \A f : SumFunctionOnSet(f, {}) = 0
  BY SumIsOfSums, FS_EmptySet DEF Sums

(* One step of the recursion.                                               *)
LEMMA SumPicked ==
    ASSUME NEW S, IsFiniteSet(S), S # {}, NEW f
    PROVE  SumFunctionOnSet(f, S) = f[Picked(S)] + SumFunctionOnSet(f, S \ {Picked(S)})
  <1> DEFINE T == S \ {Picked(S)}
  <1>1. PICK it : Sums(it, f, S) /\ SumFunctionOnSet(f, S) = it[S]
    BY SumIsOfSums
  <1>2. IsFiniteSet(T) /\ T \in SUBSET S
    BY FS_Subset
  <1>3. PICK jt : Sums(jt, f, T) /\ SumFunctionOnSet(f, T) = jt[T]
    BY <1>2, SumIsOfSums
  <1>4. it[T] = jt[T]
    <2> HIDE DEF T
    <2> QED BY <1>1, <1>2, <1>3, SumsAgree
  <1>5. it[S] = f[Picked(S)] + it[T]
    BY <1>1 DEF Sums
  <1> QED BY <1>1, <1>3, <1>4, <1>5

(* The sum of integers is an integer.                                       *)
LEMMA SumIsInt ==
    ASSUME NEW S, IsFiniteSet(S), NEW f, \A x \in S : f[x] \in Int
    PROVE  SumFunctionOnSet(f, S) \in Int
  <1> DEFINE C == {t \in SUBSET S : SumFunctionOnSet(f, t) \notin Int}
  <1>0. SUFFICES ASSUME C # {} PROVE FALSE
    OBVIOUS
  <1>1. C \in SUBSET (SUBSET S)
    OBVIOUS
  <1>2. PICK t \in C : \A u \in C : u \subseteq t => u = t
    <2> HIDE DEF C
    <2> QED BY <1>0, <1>1, MinimalSubset
  <1>3. t # {}
    BY <1>2, SumEmpty
  <1>4. Picked(t) \in t /\ IsFiniteSet(t)
    BY <1>2, <1>3, PickedIsIn, FS_Subset
  <1>5. t \ {Picked(t)} \notin C /\ t \ {Picked(t)} \in SUBSET S
    BY <1>2, <1>4
  <1>6. SumFunctionOnSet(f, t) = f[Picked(t)] + SumFunctionOnSet(f, t \ {Picked(t)})
    BY <1>3, <1>4, SumPicked
  <1> QED BY <1>2, <1>4, <1>5, <1>6

(* The sum, with any of the elements put first.                            *)
LEMMA SumStep ==
    ASSUME NEW S, IsFiniteSet(S), NEW f, \A x \in S : f[x] \in Int, NEW y \in S
    PROVE  SumFunctionOnSet(f, S) = f[y] + SumFunctionOnSet(f, S \ {y})
  <1> DEFINE C == {t \in SUBSET S : \E x \in t : SumFunctionOnSet(f, t) # f[x] + SumFunctionOnSet(f, t \ {x})}
  <1>0. SUFFICES ASSUME C # {} PROVE FALSE
    OBVIOUS
  <1>1. C \in SUBSET (SUBSET S)
    OBVIOUS
  <1>2. PICK t \in C : \A u \in C : u \subseteq t => u = t
    <2> HIDE DEF C
    <2> QED BY <1>0, <1>1, MinimalSubset
  <1>3. PICK x \in t : SumFunctionOnSet(f, t) # f[x] + SumFunctionOnSet(f, t \ {x})
    BY <1>2
  <1> DEFINE p == Picked(t)
  <1>4. p \in t /\ IsFiniteSet(t) /\ t \in SUBSET S
    BY <1>2, <1>3, PickedIsIn, FS_Subset
  <1>5. SumFunctionOnSet(f, t) = f[p] + SumFunctionOnSet(f, t \ {p})
    BY <1>3, <1>4, SumPicked
  <1> HIDE DEF p
  <1>6. x # p
    BY <1>3, <1>5
  <1>7. t \ {p} \notin C /\ t \ {x} \notin C /\ t \ {p} \in SUBSET S /\ t \ {x} \in SUBSET S
    BY <1>2, <1>4
  <1>8. SumFunctionOnSet(f, t \ {p}) = f[x] + SumFunctionOnSet(f, (t \ {p}) \ {x})
    BY <1>6, <1>7
  <1>9. SumFunctionOnSet(f, t \ {x}) = f[p] + SumFunctionOnSet(f, (t \ {x}) \ {p})
    BY <1>4, <1>6, <1>7
  <1>10. (t \ {p}) \ {x} = (t \ {x}) \ {p} /\ IsFiniteSet((t \ {x}) \ {p})
    BY <1>4, FS_Subset
  <1>11. SumFunctionOnSet(f, (t \ {x}) \ {p}) \in Int /\ f[x] \in Int /\ f[p] \in Int
    <2> DEFINE r == (t \ {x}) \ {p}
    <2>1. IsFiniteSet(r) /\ \A z \in r : f[z] \in Int
      BY <1>4, <1>10
    <2>2. f[x] \in Int /\ f[p] \in Int
      BY <1>3, <1>4
    <2> HIDE DEF r
    <2>3. SumFunctionOnSet(f, r) \in Int
      BY <2>1, SumIsInt
    <2> QED BY <1>10, <2>2, <2>3 DEF r
  <1>12. SumFunctionOnSet(f, t) = f[p] + (f[x] + SumFunctionOnSet(f, (t \ {x}) \ {p}))
    BY <1>5, <1>8, <1>10
  <1>13. f[p] + (f[x] + SumFunctionOnSet(f, (t \ {x}) \ {p}))
            = f[x] + (f[p] + SumFunctionOnSet(f, (t \ {x}) \ {p}))
    BY <1>11
  <1> QED BY <1>3, <1>9, <1>12, <1>13

(* It depends on the values of the summed elements only.                   *)
LEMMA SumSame ==
    ASSUME NEW S, IsFiniteSet(S), NEW f, NEW g, \A x \in S : f[x] = g[x]
    PROVE  SumFunctionOnSet(f, S) = SumFunctionOnSet(g, S)
  <1> DEFINE C == {t \in SUBSET S : SumFunctionOnSet(f, t) # SumFunctionOnSet(g, t)}
  <1>0. SUFFICES ASSUME C # {} PROVE FALSE
    OBVIOUS
  <1>1. C \in SUBSET (SUBSET S)
    OBVIOUS
  <1>2. PICK t \in C : \A u \in C : u \subseteq t => u = t
    <2> HIDE DEF C
    <2> QED BY <1>0, <1>1, MinimalSubset
  <1>3. t # {}
    BY <1>2, SumEmpty
  <1>4. Picked(t) \in t /\ IsFiniteSet(t)
    BY <1>2, <1>3, PickedIsIn, FS_Subset
  <1>5. t \ {Picked(t)} \notin C /\ t \ {Picked(t)} \in SUBSET S
    BY <1>2, <1>4
  <1>6. \A h : SumFunctionOnSet(h, t) = h[Picked(t)] + SumFunctionOnSet(h, t \ {Picked(t)})
    BY <1>3, <1>4, SumPicked
  <1> QED BY <1>2, <1>4, <1>5, <1>6

(* One value changes.                                                      *)
LEMMA SumChange ==
    ASSUME NEW S, IsFiniteSet(S), NEW f, NEW g, NEW y \in S,
           \A x \in S : f[x] \in Int /\ g[x] \in Int,
           \A x \in S \ {y} : f[x] = g[x]
    PROVE  SumFunctionOnSet(g, S) = SumFunctionOnSet(f, S) - f[y] + g[y]
  <1> DEFINE T == S \ {y}
  <1>1. IsFiniteSet(T)
    BY FS_Subset
  <1>2. SumFunctionOnSet(f, T) = SumFunctionOnSet(g, T)
    BY <1>1, SumSame
  <1>3. SumFunctionOnSet(f, S) = f[y] + SumFunctionOnSet(f, T) /\ SumFunctionOnSet(g, S) = g[y] + SumFunctionOnSet(g, T)
    BY SumStep
  <1>4. SumFunctionOnSet(f, T) \in Int
    BY <1>1, SumIsInt
  <1> QED BY <1>2, <1>3, <1>4

(* Greater values have a greater sum.                                       *)
LEMMA SumIsMonotone ==
    ASSUME NEW S, IsFiniteSet(S), NEW f, NEW g,
           \A x \in S : f[x] \in Int /\ g[x] \in Int /\ f[x] <= g[x]
    PROVE  SumFunctionOnSet(f, S) <= SumFunctionOnSet(g, S)
  <1> DEFINE C == {t \in SUBSET S : ~(SumFunctionOnSet(f, t) <= SumFunctionOnSet(g, t))}
  <1>0. SUFFICES ASSUME C # {} PROVE FALSE
    OBVIOUS
  <1>1. C \in SUBSET (SUBSET S)
    OBVIOUS
  <1>2. PICK t \in C : \A u \in C : u \subseteq t => u = t
    <2> HIDE DEF C
    <2> QED BY <1>0, <1>1, MinimalSubset
  <1>3. t # {}
    <2>1. SumFunctionOnSet(f, {}) = 0 /\ SumFunctionOnSet(g, {}) = 0
      BY SumEmpty
    <2>2. ~(SumFunctionOnSet(f, t) <= SumFunctionOnSet(g, t))
      BY <1>2
    <2>3. 0 <= 0
      OBVIOUS
    <2> QED BY <2>1, <2>2, <2>3
  <1>4. Picked(t) \in t /\ IsFiniteSet(t)
    BY <1>2, <1>3, PickedIsIn, FS_Subset
  <1> DEFINE r == t \ {Picked(t)}
  <1>5. r \notin C /\ r \in SUBSET S /\ IsFiniteSet(r)
    BY <1>2, <1>4, FS_Subset
  <1>6. \A h : SumFunctionOnSet(h, t) = h[Picked(t)] + SumFunctionOnSet(h, r)
    BY <1>3, <1>4, SumPicked
  <1>7. SumFunctionOnSet(f, r) \in Int /\ SumFunctionOnSet(g, r) \in Int
    <2>1. \A x \in r : f[x] \in Int /\ g[x] \in Int
      BY <1>5
    <2> HIDE DEF r
    <2> QED BY <1>5, <2>1, SumIsInt
  <1>8. SumFunctionOnSet(f, r) <= SumFunctionOnSet(g, r)
    BY <1>5
  <1>9. f[Picked(t)] \in Int /\ g[Picked(t)] \in Int /\ f[Picked(t)] <= g[Picked(t)]
    BY <1>2, <1>4
  <1> HIDE DEF r
  <1>10. SumFunctionOnSet(f, t) <= SumFunctionOnSet(g, t)
    BY <1>6, <1>7, <1>8, <1>9
  <1> QED BY <1>2, <1>10

(* The sum over some elements is at most the sum over all of them.         *)
LEMMA SumOfSome ==
    ASSUME NEW S, IsFiniteSet(S), NEW T \in SUBSET S, NEW f, \A x \in S : f[x] \in Nat
    PROVE  SumFunctionOnSet(f, T) \in Nat /\ SumFunctionOnSet(f, T) <= SumFunctionOnSet(f, S)
<1> DEFINE Below(t) == SumFunctionOnSet(f, t \cap T) \in Nat /\ SumFunctionOnSet(f, t \cap T) <= SumFunctionOnSet(f, t)
           C == {t \in SUBSET S : ~Below(t)}
<1>0. SUFFICES ASSUME C # {} PROVE FALSE
  <2>1. S \cap T = T /\ S \in SUBSET S
    OBVIOUS
  <2> QED BY <2>1
<1>1. C \in SUBSET (SUBSET S)
  OBVIOUS
<1>2. PICK t \in C : \A u \in C : u \subseteq t => u = t
  <2> HIDE DEF C
  <2> QED BY <1>0, <1>1, MinimalSubset
<1>3. t \in SUBSET S /\ IsFiniteSet(t) /\ IsFiniteSet(t \cap T) /\ ~Below(t)
  BY <1>1, <1>2, FS_Subset
<1>4. t # {}
  <2>1. t = {} => t \cap T = {}
    OBVIOUS
  <2> QED BY <1>3, <2>1, SumEmpty
<1>5. PICK y \in t : TRUE
  BY <1>4
<1> DEFINE r == t \ {y}
<1>6. r \in SUBSET S /\ Below(r)
  <2>1. r \in SUBSET S /\ r \subseteq t /\ r # t
    BY <1>3, <1>5
  <2>2. r \notin C
    BY <1>2, <2>1
  <2> QED BY <2>1, <2>2
<1>7. SumFunctionOnSet(f, t) = f[y] + SumFunctionOnSet(f, r) /\ f[y] \in Nat /\ SumFunctionOnSet(f, r) \in Int
  <2>1. \A x \in t : f[x] \in Int
    BY <1>3
  <2>2. IsFiniteSet(r) /\ \A x \in r : f[x] \in Int
    BY <1>3, FS_Subset
  <2> QED BY <1>3, <1>5, <2>1, <2>2, SumStep, SumIsInt
<1>8. CASE y \notin T
  <2>1. r \cap T = t \cap T
    BY <1>8
  <2>2. SumFunctionOnSet(f, r \cap T) = SumFunctionOnSet(f, t \cap T)
    BY <2>1
  <2>3. SumFunctionOnSet(f, t \cap T) \in Nat /\ SumFunctionOnSet(f, t \cap T) <= SumFunctionOnSet(f, r)
    BY <1>6, <2>2
  <2>4. SumFunctionOnSet(f, t \cap T) <= SumFunctionOnSet(f, t)
    BY <1>7, <2>3
  <2> QED BY <1>3, <2>3, <2>4
<1>9. CASE y \in T
  <2>1. (t \cap T) \ {y} = r \cap T /\ y \in t \cap T
    BY <1>9
  <2>2. \A x \in t \cap T : f[x] \in Int
    BY <1>3
  <2>3. SumFunctionOnSet(f, t \cap T) = f[y] + SumFunctionOnSet(f, (t \cap T) \ {y})
    BY <1>3, <2>1, <2>2, SumStep
  <2>4. SumFunctionOnSet(f, t \cap T) = f[y] + SumFunctionOnSet(f, r \cap T)
    BY <2>1, <2>3
  <2> QED BY <1>3, <1>6, <1>7, <2>4
<1> QED BY <1>8, <1>9

(* The groups of a breakdown add up to what was broken down.               *)
LEMMA TallyAddsUp ==
    ASSUME NEW S, IsFiniteSet(S), NEW f, NEW K, IsFiniteSet(K), \A o \in S : f[o] \in K,
           NEW g, \A k \in K : g[k] = Cardinality({o \in S : f[o] = k})
    PROVE  SumFunctionOnSet(g, K) = Cardinality(S)
<1> DEFINE In(T) == {o \in S : f[o] \in T}
           C == {T \in SUBSET K : SumFunctionOnSet(g, T) # Cardinality(In(T))}
<1>0. SUFFICES ASSUME C # {} PROVE FALSE
  <2>1. In(K) = S /\ K \in SUBSET K
    OBVIOUS
  <2> HIDE DEF In
  <2> QED BY <2>1
<1>1. C \in SUBSET (SUBSET K)
  OBVIOUS
<1>2. PICK T \in C : \A U \in C : U \subseteq T => U = T
  <2> HIDE DEF C
  <2> QED BY <1>0, <1>1, MinimalSubset
<1>3. T \in SUBSET K /\ IsFiniteSet(T) /\ SumFunctionOnSet(g, T) # Cardinality(In(T))
  BY <1>1, <1>2, FS_Subset
<1>4. T # {}
  <2>1. T = {} => In(T) = {}
    OBVIOUS
  <2> HIDE DEF In
  <2> QED BY <1>3, <2>1, SumEmpty, FS_EmptySet
<1>5. PICK y \in T : TRUE
  BY <1>4
<1> DEFINE R == T \ {y}
           Y == {o \in S : f[o] = y}
<1>6. \A k \in K : g[k] \in Nat
  <2> SUFFICES ASSUME NEW k \in K PROVE g[k] \in Nat
    OBVIOUS
  <2>1. IsFiniteSet({o \in S : f[o] = k})
    BY FS_Subset
  <2> QED BY <2>1, FS_CardinalityType
<1>7. SumFunctionOnSet(g, T) = g[y] + SumFunctionOnSet(g, R)
  <2>1. \A x \in T : g[x] \in Int
    BY <1>3, <1>6
  <2> QED BY <1>3, <1>5, <2>1, SumStep
<1>8. SumFunctionOnSet(g, R) = Cardinality(In(R))
  <2>1. R \in SUBSET K /\ R \subseteq T /\ R # T
    BY <1>3, <1>5
  <2>2. R \notin C
    BY <1>2, <2>1
  <2> HIDE DEF R, In
  <2> QED BY <2>1, <2>2
<1>9. Cardinality(In(T)) = Cardinality(In(R)) + Cardinality(Y)
  <2>1. IsFiniteSet(In(R)) /\ IsFiniteSet(Y)
    <3>1. In(R) \in SUBSET S /\ Y \in SUBSET S
      OBVIOUS
    <3> HIDE DEF In, Y
    <3> QED BY <3>1, FS_Subset
  <2>2. In(R) \cap Y = {}
    OBVIOUS
  <2>3. In(T) = In(R) \cup Y
    <3>1. \A o \in S : f[o] \in T <=> f[o] \in R \/ f[o] = y
      BY <1>5
    <3> HIDE DEF R
    <3> QED BY <3>1
  <2> HIDE DEF In, Y, R
  <2>4. Cardinality(In(R) \cup Y) = Cardinality(In(R)) + Cardinality(Y) - Cardinality(In(R) \cap Y)
    BY <2>1, FS_Union
  <2>5. Cardinality(In(R)) \in Nat /\ Cardinality(Y) \in Nat
    BY <2>1, FS_CardinalityType
  <2>6. Cardinality(In(R) \cap Y) = 0
    BY <2>2, FS_EmptySet
  <2>7. Cardinality(In(R) \cup Y) = Cardinality(In(R)) + Cardinality(Y)
    BY <2>4, <2>5, <2>6
  <2> QED BY <2>3, <2>7
<1>10. g[y] = Cardinality(Y) /\ g[y] \in Nat /\ Cardinality(In(R)) \in Nat
  <2>1. IsFiniteSet(In(R)) /\ y \in K
    BY <1>3, <1>5, FS_Subset
  <2> QED BY <1>6, <2>1, FS_CardinalityType
<1> HIDE DEF In, Y, R
<1> QED BY <1>3, <1>7, <1>8, <1>9, <1>10
=============================================================================
