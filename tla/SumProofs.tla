------------------------------ MODULE SumProofs ------------------------------
(***************************************************************************)
(* What MapThenSumSet of the community modules computes on a finite set,   *)
(* for any function into the integers.  It is a recursive function on the  *)
(* set's subsets; its equation is shown to have a solution, and facts      *)
(* about it are shown by induction, as the absence of a smallest           *)
(* counterexample: the library states both for operators, which no prover  *)
(* here instantiates, but states WFMin for sets.                           *)
(***************************************************************************)
EXTENDS Integers, FiniteSets, FiniteSetsExt, FiniteSetTheorems, TLAPS

(* The sum of f over S. *)
Total(f, S) == MapThenSumSet(LAMBDA x : f[x], S)

(* g sums f over each subset of S, an element at a time. *)
Sums(g, f, S) ==
    g = [s \in SUBSET S |-> IF s = {} THEN 0
                            ELSE f[CHOOSE x \in s : TRUE] + g[s \ {CHOOSE x \in s : TRUE}]]

-----------------------------------------------------------------------------
(* A set of subsets of a finite set has one that contains no other. *)
LEMMA MinimalSubset ==
    ASSUME NEW S, IsFiniteSet(S), NEW T \in SUBSET SUBSET S, T # {}
    PROVE  \E x \in T : \A y \in T : y \subseteq x => y = x
<1>1. IsWellFoundedOn(StrictSubsetOrdering(S), SUBSET S)
  BY FS_StrictSubsetOrderingWellFounded, FS_FiniteSubsetsOfFinite
<1>2. PICK x \in T : \A y \in T : ~(<<y, x>> \in StrictSubsetOrdering(S))
  BY <1>1, WFMin
<1>. QED BY <1>2 DEF StrictSubsetOrdering

(* A set of naturals that is not empty has a least element. *)
LEMMA LeastElement ==
    ASSUME NEW S \in SUBSET Nat, S # {}
    PROVE  \E n \in S : \A m \in S : n <= m
<1>1. PICK k \in S : TRUE
  OBVIOUS
<1>. DEFINE K == 0..k
            T == {t \in SUBSET K : \E n \in S : t = 0..n}
<1>2. IsFiniteSet(K)
  BY <1>1, FS_Interval
<1>3. T \in SUBSET SUBSET K
  OBVIOUS
<1>4. K \in T
  BY <1>1
<1>5. \A t : t \in T => \E n \in S : t = 0..n
  OBVIOUS
<1>6. \A n \in S : 0..n \subseteq K => 0..n \in T
  OBVIOUS
<1>. HIDE DEF T
<1>7. \E x \in T : \A y \in T : y \subseteq x => y = x
  <2>. HIDE DEF K
  <2>. QED BY <1>2, <1>3, <1>4, MinimalSubset
<1>8. PICK n \in S : 0..n \in T /\ \A y \in T : y \subseteq 0..n => y = 0..n
  BY <1>5, <1>7
<1>9. ASSUME NEW m \in S, m < n PROVE FALSE
  <2>1. 0..n \subseteq K
    BY <1>3, <1>8
  <2>2. 0..m \subseteq 0..n
    BY <1>9
  <2>3. 0..m \in T
    BY <1>6, <2>1, <2>2
  <2>4. 0..m = 0..n
    BY <1>8, <2>2, <2>3
  <2>. QED BY <1>9, <2>4
<1>. QED BY <1>9

-----------------------------------------------------------------------------
(* Two solutions of the equation agree wherever both are defined. *)
LEMMA SumsAgree ==
    ASSUME NEW f, NEW A, NEW B, NEW g, NEW h, Sums(g, f, A), Sums(h, f, B),
           NEW S, S \subseteq A, S \subseteq B, IsFiniteSet(S)
    PROVE  g[S] = h[S]
<1>. DEFINE T == {s \in SUBSET S : g[s] # h[s]}
<1>. SUFFICES ASSUME T # {} PROVE FALSE
  OBVIOUS
<1>a. T \in SUBSET SUBSET S /\ \A s \in SUBSET S : s \in T <=> g[s] # h[s]
  OBVIOUS
<1>. HIDE DEF T
<1>1. PICK s \in T : \A y \in T : y \subseteq s => y = s
  BY <1>a, MinimalSubset
<1>. DEFINE x == CHOOSE x \in s : TRUE
<1>b. s \in SUBSET S /\ g[s] # h[s]
  BY <1>a
<1>2. CASE s = {}
  BY <1>b, <1>2 DEF Sums
<1>3. CASE s # {}
  <2>1. x \in s
    BY <1>3
  <2>2. s \ {x} \notin T
    BY <1>1, <2>1
  <2>3. g[s \ {x}] = h[s \ {x}]
    BY <1>a, <1>b, <2>2
  <2>4. s \in SUBSET A /\ s \in SUBSET B
    BY <1>b
  <2>5. g[s] = f[x] + g[s \ {x}]
    BY <1>3, <2>4 DEF Sums
  <2>6. h[s] = f[x] + h[s \ {x}]
    BY <1>3, <2>4 DEF Sums
  <2>. QED BY <1>b, <2>3, <2>5, <2>6
<1>. QED BY <1>2, <1>3

(* The fold is the value of a solution at the whole set. *)
LEMMA TotalIsSum ==
    ASSUME NEW f, NEW S
    PROVE  Total(f, S) = (CHOOSE g : Sums(g, f, S))[S]
BY Zenon DEF Total, MapThenSumSet, MapThenFoldSet, Sums

(* Total solves the equation wherever solutions exist. *)
LEMMA TotalSums ==
    ASSUME NEW f, NEW A, IsFiniteSet(A), \A B \in SUBSET A : \E g : Sums(g, f, B)
    PROVE  \A s \in SUBSET A :
              Total(f, s) = IF s = {} THEN 0
                            ELSE f[CHOOSE x \in s : TRUE] + Total(f, s \ {CHOOSE x \in s : TRUE})
<1>. SUFFICES ASSUME NEW s \in SUBSET A
              PROVE  Total(f, s) = IF s = {} THEN 0
                            ELSE f[CHOOSE x \in s : TRUE] + Total(f, s \ {CHOOSE x \in s : TRUE})
  OBVIOUS
<1>. DEFINE x == CHOOSE x \in s : TRUE
            G(t) == CHOOSE g : Sums(g, f, t)
<1>1. Sums(G(s), f, s) /\ Total(f, s) = G(s)[s]
  BY TotalIsSum
<1>2. CASE s = {}
  BY <1>1, <1>2 DEF Sums
<1>3. CASE s # {}
  <2>. DEFINE r == s \ {x}
  <2>1. Sums(G(r), f, r) /\ Total(f, r) = G(r)[r]
    BY TotalIsSum
  <2>. HIDE DEF G
  <2>2. IsFiniteSet(r)
    BY FS_Subset
  <2>3. G(s)[r] = G(r)[r]
    BY <1>1, <2>1, <2>2, SumsAgree
  <2>4. G(s)[s] = f[x] + G(s)[r]
    BY <1>1, <1>3 DEF Sums
  <2>. QED BY <1>1, <1>3, <2>1, <2>3, <2>4
<1>. QED BY <1>2, <1>3

(* They exist for every finite set. *)
LEMMA SumsExist ==
    ASSUME NEW f, NEW S, IsFiniteSet(S)
    PROVE  \E g : Sums(g, f, S)
<1>. DEFINE T == {s \in SUBSET S : ~\E g : Sums(g, f, s)}
<1>. SUFFICES ASSUME T # {} PROVE FALSE
  OBVIOUS
<1>a. T \in SUBSET SUBSET S /\ \A s \in SUBSET S : s \in T <=> ~\E g : Sums(g, f, s)
  OBVIOUS
<1>. HIDE DEF T
<1>1. PICK A \in T : \A y \in T : y \subseteq A => y = A
  BY <1>a, MinimalSubset
<1>b. A \in SUBSET S /\ IsFiniteSet(A) /\ ~\E g : Sums(g, f, A)
  BY <1>a, FS_Subset
<1>2. \A B \in SUBSET A : B # A => \E g : Sums(g, f, B)
  BY <1>1, <1>a, <1>b
<1>. DEFINE x(s) == CHOOSE e \in s : TRUE
            g == [s \in SUBSET A |-> IF s = {} THEN 0 ELSE f[x(s)] + Total(f, s \ {x(s)})]
<1>3. ASSUME NEW s \in SUBSET A, s # {}
      PROVE  g[s \ {x(s)}] = Total(f, s \ {x(s)})
  <2>. DEFINE r == s \ {x(s)}
  <2>1. x(s) \in s
    BY <1>3
  <2>2. r \in SUBSET A /\ IsFiniteSet(r)
    BY FS_Subset
  <2>3. \A B \in SUBSET r : B # A
    BY <2>1
  <2>4. \A B \in SUBSET r : \E h : Sums(h, f, B)
    BY <1>2, <2>2, <2>3
  <2>5. Total(f, r) = IF r = {} THEN 0 ELSE f[x(r)] + Total(f, r \ {x(r)})
    BY <2>2, <2>4, TotalSums
  <2>. QED BY <2>2, <2>5
<1>4. Sums(g, f, A)
  <2>1. ASSUME NEW s \in SUBSET A
        PROVE  (IF s = {} THEN 0 ELSE f[x(s)] + Total(f, s \ {x(s)}))
                 = IF s = {} THEN 0 ELSE f[x(s)] + g[s \ {x(s)}]
    <3>1. CASE s = {}
      BY <3>1
    <3>2. CASE s # {}
      <4>. HIDE DEF g, x
      <4>. QED BY <1>3, <3>2
    <3>. QED BY <3>1, <3>2
  <2>2. g = [s \in SUBSET A |-> IF s = {} THEN 0 ELSE f[x(s)] + g[s \ {x(s)}]]
    <3>. DEFINE u(s) == IF s = {} THEN 0 ELSE f[x(s)] + Total(f, s \ {x(s)})
                v(s) == IF s = {} THEN 0 ELSE f[x(s)] + g[s \ {x(s)}]
    <3>1. \A s \in SUBSET A : u(s) = v(s)
      BY <2>1
    <3>2. g = [s \in SUBSET A |-> u(s)]
      BY DEF g
    <3>. HIDE DEF u, v, g
    <3>3. [s \in SUBSET A |-> u(s)] = [s \in SUBSET A |-> v(s)]
      BY <3>1
    <3>. QED BY <3>2, <3>3 DEF v
  <2>. HIDE DEF g
  <2>. QED BY <2>2 DEF Sums, x
<1>. QED BY <1>b, <1>4
-----------------------------------------------------------------------------
(* The equation of Total, for finite sets. *)
LEMMA TotalStep ==
    ASSUME NEW f, NEW S, IsFiniteSet(S)
    PROVE  Total(f, S) = IF S = {} THEN 0
                         ELSE f[CHOOSE x \in S : TRUE] + Total(f, S \ {CHOOSE x \in S : TRUE})
<1>1. \A B \in SUBSET S : \E g : Sums(g, f, B)
  BY SumsExist, FS_Subset
<1>. QED BY <1>1, TotalSums

(* A sum of integers is one. *)
LEMMA TotalInt ==
    ASSUME NEW S, IsFiniteSet(S), NEW f, \A x \in S : f[x] \in Int
    PROVE  Total(f, S) \in Int
<1>. DEFINE T == {s \in SUBSET S : Total(f, s) \notin Int}
<1>. SUFFICES ASSUME T # {} PROVE FALSE
  OBVIOUS
<1>a. T \in SUBSET SUBSET S /\ \A s \in SUBSET S : s \in T <=> Total(f, s) \notin Int
  OBVIOUS
<1>. HIDE DEF T
<1>1. PICK s \in T : \A y \in T : y \subseteq s => y = s
  BY <1>a, MinimalSubset
<1>2. s \in SUBSET S /\ IsFiniteSet(s) /\ Total(f, s) \notin Int
  BY <1>a, FS_Subset
<1>. DEFINE x == CHOOSE x \in s : TRUE
<1>3. Total(f, s) = IF s = {} THEN 0 ELSE f[x] + Total(f, s \ {x})
  BY <1>2, TotalStep
<1>4. s # {} /\ x \in s
  BY <1>2, <1>3
<1>5. Total(f, s \ {x}) \in Int
  BY <1>1, <1>2, <1>4, <1>a
<1>. QED BY <1>2, <1>3, <1>4, <1>5

(* A sum of naturals is one. *)
LEMMA TotalNat ==
    ASSUME NEW S, IsFiniteSet(S), NEW f, \A x \in S : f[x] \in Nat
    PROVE  Total(f, S) \in Nat
<1>. DEFINE T == {s \in SUBSET S : Total(f, s) \notin Nat}
<1>. SUFFICES ASSUME T # {} PROVE FALSE
  OBVIOUS
<1>a. T \in SUBSET SUBSET S /\ \A s \in SUBSET S : s \in T <=> Total(f, s) \notin Nat
  OBVIOUS
<1>. HIDE DEF T
<1>1. PICK s \in T : \A y \in T : y \subseteq s => y = s
  BY <1>a, MinimalSubset
<1>2. s \in SUBSET S /\ IsFiniteSet(s) /\ Total(f, s) \notin Nat
  BY <1>a, FS_Subset
<1>. DEFINE x == CHOOSE x \in s : TRUE
<1>3. Total(f, s) = IF s = {} THEN 0 ELSE f[x] + Total(f, s \ {x})
  BY <1>2, TotalStep
<1>4. s # {} /\ x \in s
  BY <1>2, <1>3
<1>5. Total(f, s \ {x}) \in Nat
  BY <1>1, <1>2, <1>4, <1>a
<1>. QED BY <1>2, <1>3, <1>4, <1>5

(* Any element may be counted first. *)
LEMMA TotalRemove ==
    ASSUME NEW S, IsFiniteSet(S), NEW f, \A x \in S : f[x] \in Int, NEW e \in S
    PROVE  Total(f, S) = f[e] + Total(f, S \ {e})
<1>. DEFINE Bad(s) == \E d \in s : Total(f, s) # f[d] + Total(f, s \ {d})
            T == {s \in SUBSET S : Bad(s)}
<1>. SUFFICES ASSUME T # {} PROVE FALSE
  OBVIOUS
<1>a. T \in SUBSET SUBSET S /\ \A s \in SUBSET S : s \in T <=> Bad(s)
  OBVIOUS
<1>. HIDE DEF T
<1>1. PICK s \in T : \A y \in T : y \subseteq s => y = s
  BY <1>a, MinimalSubset
<1>2. s \in SUBSET S /\ Bad(s)
  BY <1>a
<1>3. PICK d \in s : Total(f, s) # f[d] + Total(f, s \ {d})
  BY <1>2
<1>. DEFINE c == CHOOSE x \in s : TRUE
<1>4. c \in s /\ c # d /\ Total(f, s) = f[c] + Total(f, s \ {c})
  <2>1. IsFiniteSet(s)
    BY <1>2, FS_Subset
  <2>2. Total(f, s) = IF s = {} THEN 0 ELSE f[c] + Total(f, s \ {c})
    BY <2>1, TotalStep
  <2>. QED BY <1>3, <2>2
<1>. HIDE DEF c
<1>5. ~Bad(s \ {c}) /\ ~Bad(s \ {d})
  BY <1>1, <1>2, <1>4, <1>a
<1>6. Total(f, s \ {c}) = f[d] + Total(f, (s \ {c}) \ {d})
  BY <1>3, <1>4, <1>5
<1>7. Total(f, s \ {d}) = f[c] + Total(f, (s \ {d}) \ {c})
  BY <1>3, <1>4, <1>5
<1>8. (s \ {c}) \ {d} = (s \ {d}) \ {c}
  OBVIOUS
<1>9. f[c] \in Int /\ f[d] \in Int /\ Total(f, (s \ {c}) \ {d}) \in Int
  <2>1. IsFiniteSet((s \ {c}) \ {d}) /\ \A x \in (s \ {c}) \ {d} : f[x] \in Int
    BY <1>2, FS_Subset
  <2>. QED BY <1>2, <1>4, <2>1, TotalInt
<1>10. Total(f, s) = f[c] + (f[d] + Total(f, (s \ {c}) \ {d}))
  BY <1>4, <1>6
<1>11. Total(f, s \ {d}) = f[c] + Total(f, (s \ {c}) \ {d})
  BY <1>7, <1>8
<1>12. f[c] + (f[d] + Total(f, (s \ {c}) \ {d})) = f[d] + (f[c] + Total(f, (s \ {c}) \ {d}))
  BY <1>9
<1>. QED BY <1>3, <1>10, <1>11, <1>12

(* Functions that agree on a set have one sum over it. *)
LEMMA TotalAgree ==
    ASSUME NEW S, IsFiniteSet(S), NEW f, NEW g, \A x \in S : f[x] = g[x]
    PROVE  Total(f, S) = Total(g, S)
<1>. DEFINE T == {s \in SUBSET S : Total(f, s) # Total(g, s)}
<1>. SUFFICES ASSUME T # {} PROVE FALSE
  OBVIOUS
<1>a. T \in SUBSET SUBSET S /\ \A s \in SUBSET S : s \in T <=> Total(f, s) # Total(g, s)
  OBVIOUS
<1>. HIDE DEF T
<1>1. PICK s \in T : \A y \in T : y \subseteq s => y = s
  BY <1>a, MinimalSubset
<1>2. s \in SUBSET S /\ IsFiniteSet(s) /\ Total(f, s) # Total(g, s)
  BY <1>a, FS_Subset
<1>. DEFINE x == CHOOSE x \in s : TRUE
<1>3. Total(f, s) = IF s = {} THEN 0 ELSE f[x] + Total(f, s \ {x})
  BY <1>2, TotalStep
<1>4. Total(g, s) = IF s = {} THEN 0 ELSE g[x] + Total(g, s \ {x})
  BY <1>2, TotalStep
<1>5. s # {} /\ x \in s
  BY <1>2, <1>3, <1>4
<1>6. Total(f, s \ {x}) = Total(g, s \ {x})
  BY <1>1, <1>2, <1>5, <1>a
<1>. QED BY <1>2, <1>3, <1>4, <1>5, <1>6

(* A function changed at one point has its sum changed by as much. *)
LEMMA TotalChange ==
    ASSUME NEW S, IsFiniteSet(S), NEW f, NEW g, NEW e \in S,
           \A x \in S : f[x] \in Int /\ g[x] \in Int,
           \A x \in S \ {e} : g[x] = f[x]
    PROVE  Total(g, S) = Total(f, S) + g[e] - f[e]
<1>1. IsFiniteSet(S \ {e})
  BY FS_Subset
<1>2. Total(f, S) = f[e] + Total(f, S \ {e})
  BY TotalRemove
<1>3. Total(g, S) = g[e] + Total(g, S \ {e})
  BY TotalRemove
<1>4. Total(f, S \ {e}) = Total(g, S \ {e})
  BY <1>1, TotalAgree
<1>5. Total(f, S \ {e}) \in Int
  BY <1>1, TotalInt
<1>. QED BY <1>2, <1>3, <1>4, <1>5

(* Noughts sum to nothing. *)
LEMMA TotalZero ==
    ASSUME NEW S, IsFiniteSet(S), NEW f, \A x \in S : f[x] = 0
    PROVE  Total(f, S) = 0
<1>. DEFINE T == {s \in SUBSET S : Total(f, s) # 0}
<1>. SUFFICES ASSUME T # {} PROVE FALSE
  OBVIOUS
<1>a. T \in SUBSET SUBSET S /\ \A s \in SUBSET S : s \in T <=> Total(f, s) # 0
  OBVIOUS
<1>. HIDE DEF T
<1>1. PICK s \in T : \A y \in T : y \subseteq s => y = s
  BY <1>a, MinimalSubset
<1>2. s \in SUBSET S /\ IsFiniteSet(s) /\ Total(f, s) # 0
  BY <1>a, FS_Subset
<1>. DEFINE x == CHOOSE x \in s : TRUE
<1>3. Total(f, s) = IF s = {} THEN 0 ELSE f[x] + Total(f, s \ {x})
  BY <1>2, TotalStep
<1>4. s # {} /\ x \in s
  BY <1>2, <1>3
<1>5. Total(f, s \ {x}) = 0
  BY <1>1, <1>2, <1>4, <1>a
<1>. QED BY <1>2, <1>3, <1>4, <1>5
=============================================================================
