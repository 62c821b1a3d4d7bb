---------------------------- MODULE SumTheorems ----------------------------
(***************************************************************************)
(* Facts about SumFunctionOnSet, the sum of a function over a finite set:  *)
(* what changing the function at one point does to the sum, and how one    *)
(* term compares with the whole.  The ledgers of this project are such     *)
(* sums.  And facts about FoldLeft, a fold over a sequence: the recursive  *)
(* function that it chooses exists when every step stays in one set.       *)
(*                                                                         *)
(* Induction on a finite set is replaced by its first-order form: a        *)
(* nonempty family of finite sets has a member of least cardinality.       *)
(***************************************************************************)
EXTENDS Integers, FiniteSets, Functions, SequencesExt, FiniteSetTheorems,
        WellFoundedInduction, TLAPS

NatLess == {r \in Nat \X Nat : r[1] < r[2]}

(* A nonempty set of naturals has a least element.                          *)
LEMMA LeastNatural ==
  ASSUME NEW T, T \subseteq Nat, T # {}
  PROVE  \E m \in T : \A k \in T : m <= k
<1>1. IsWellFoundedOn(NatLess, Nat)
  BY NatLessThanWellFounded, Zenon DEF OpToRel, NatLess
<1>2. PICK x \in T : \A y \in T : <<y, x>> \notin NatLess
  BY <1>1, WFMin
<1>3. ASSUME NEW y \in T PROVE x <= y
  <2>1. x \in Nat /\ y \in Nat
    OBVIOUS
  <2>2. y < x => <<y, x>> \in NatLess
    BY <2>1 DEF NatLess
  <2>3. QED BY <1>2, <2>1, <2>2
<1>4. QED BY <1>3

(* A nonempty family of finite sets has a member of least cardinality, so   *)
(* every proper subset of that member is outside the family.                *)
LEMMA LeastSet ==
  ASSUME NEW F, F # {}, \A S \in F : IsFiniteSet(S)
  PROVE  \E S \in F : \A T \in SUBSET S : T # S => T \notin F
<1> DEFINE C == {n \in Nat : \E S \in F : Cardinality(S) = n}
<1>1. ASSUME NEW S \in F PROVE Cardinality(S) \in C
  BY FS_CardinalityType, Zenon
<1>2. C \subseteq Nat /\ C # {}
  BY <1>1
<1>3. PICK m \in C : \A k \in C : m <= k
  BY <1>2, LeastNatural, Zenon
<1>4. PICK S \in F : Cardinality(S) = m
  BY <1>3
<1>5. ASSUME NEW T \in SUBSET S, T # S, T \in F PROVE FALSE
  <2>1. IsFiniteSet(S)
    OBVIOUS
  <2>2. Cardinality(T) <= Cardinality(S) /\ Cardinality(T) # Cardinality(S)
    BY <1>5, <2>1, FS_Subset, Zenon
  <2>3. m <= Cardinality(T)
    BY <1>1, <1>3, <1>5
  <2>4. Cardinality(S) \in Nat /\ Cardinality(T) \in Nat
    BY <1>1, <1>5
  <2>5. QED BY <1>4, <2>2, <2>3, <2>4
<1>6. QED BY <1>5

-----------------------------------------------------------------------------
(* The recursive function inside SumFunctionOnSet.                          *)

SumEquation(sum, f, S) ==
  sum = [s \in SUBSET S |->
           IF s = {} THEN 0
           ELSE f[CHOOSE x \in s : TRUE] + sum[s \ {CHOOSE x \in s : TRUE}]]

SumSolution(f, S) == CHOOSE sum : SumEquation(sum, f, S)

Solvable(f, S) == \E sum : SumEquation(sum, f, S)

(* SumFunctionOnSet is the value of such a solution on the whole set.       *)
LEMMA SumUnfold ==
  ASSUME NEW f, NEW S
  PROVE  SumFunctionOnSet(f, S) = SumSolution(f, S)[S]
BY DEF SumFunctionOnSet, FoldFunctionOnSet, MapThenFoldSet, SumSolution, SumEquation

(* If there is a solution, SumSolution is one.                              *)
LEMMA SumSolutionSolves ==
  ASSUME NEW f, NEW S, Solvable(f, S)
  PROVE  SumEquation(SumSolution(f, S), f, S)
BY DEF Solvable, SumSolution

(* Solutions on two sets agree on their common finite subsets.              *)
LEMMA SumSolutionsAgree ==
  ASSUME NEW f, NEW S, NEW T, NEW g, NEW h,
         SumEquation(g, f, S), SumEquation(h, f, T),
         NEW V, V \subseteq S, V \subseteq T, IsFiniteSet(V)
  PROVE  g[V] = h[V]
<1> DEFINE Bad == {W \in SUBSET V : g[W] # h[W]}
<1>1. SUFFICES ASSUME Bad # {} PROVE FALSE
  OBVIOUS
<1>2. \A W \in Bad : IsFiniteSet(W)
  BY FS_Subset, Zenon
<1>3. PICK W \in Bad : \A U \in SUBSET W : U # W => U \notin Bad
  BY <1>1, <1>2, LeastSet, Zenon
<1> DEFINE c == CHOOSE x \in W : TRUE
<1>4. W \in SUBSET S /\ W \in SUBSET T /\ W \in SUBSET V
  OBVIOUS
<1>5. W # {}
  BY <1>4 DEF SumEquation
<1>6. c \in W
  BY <1>5
<1>7. g[W \ {c}] = h[W \ {c}]
  <2>1. W \ {c} \in SUBSET W /\ W \ {c} # W /\ W \ {c} \in SUBSET V
    BY <1>4, <1>6
  <2>2. QED BY <1>3, <2>1
<1>8. g[W] = f[c] + g[W \ {c}] /\ h[W] = f[c] + h[W \ {c}]
  BY <1>4, <1>5 DEF SumEquation
<1>9. QED BY <1>7, <1>8

(* Every finite set has a solution.                                         *)
LEMMA SumSolvable ==
  ASSUME NEW f, NEW S, IsFiniteSet(S)
  PROVE  Solvable(f, S)
<1> DEFINE Bad == {W \in SUBSET S : ~Solvable(f, W)}
<1>1. SUFFICES ASSUME Bad # {} PROVE FALSE
  OBVIOUS
<1>2. \A W \in Bad : IsFiniteSet(W)
  BY FS_Subset, Zenon
<1>3. PICK W \in Bad : \A U \in SUBSET W : U # W => U \notin Bad
  BY <1>1, <1>2, LeastSet, Zenon
<1>4. \A U \in SUBSET W : U # W => Solvable(f, U)
  BY <1>3
<1>5. IsFiniteSet(W)
  BY <1>2
<1> DEFINE sub(U) == SumSolution(f, U)[U]
           rest(U) == U \ {CHOOSE x \in U : TRUE}
           whole == [U \in SUBSET W |->
                       IF U = {} THEN 0 ELSE f[CHOOSE x \in U : TRUE] + sub(rest(U))]
<1>6. ASSUME NEW U \in SUBSET W, U # W PROVE whole[U] = sub(U)
  <2>1. SumEquation(SumSolution(f, U), f, U)
    BY <1>4, <1>6, SumSolutionSolves
  <2>2. CASE U = {}
    BY <2>1, <2>2 DEF SumEquation
  <2>3. CASE U # {}
    <3>1. rest(U) \in SUBSET U /\ rest(U) # U
      BY <2>3
    <3>2. SumEquation(SumSolution(f, rest(U)), f, rest(U))
      <4>1. rest(U) \in SUBSET W /\ rest(U) # W
        BY <3>1
      <4>2. QED BY <1>4, <4>1, SumSolutionSolves
    <3>3. IsFiniteSet(rest(U))
      <4>1. rest(U) \in SUBSET W
        BY <3>1
      <4>2. QED BY <1>5, <4>1, FS_Subset, Zenon
    <3>4. SumSolution(f, U)[rest(U)] = sub(rest(U))
      BY <2>1, <3>1, <3>2, <3>3, SumSolutionsAgree
    <3>5. sub(U) = f[CHOOSE x \in U : TRUE] + SumSolution(f, U)[rest(U)]
      BY <2>1, <2>3 DEF SumEquation
    <3>6. QED BY <2>3, <3>4, <3>5
  <2>4. QED BY <2>2, <2>3
<1>7. SumEquation(whole, f, W)
  <2> DEFINE again == [U \in SUBSET W |->
                         IF U = {} THEN 0 ELSE f[CHOOSE x \in U : TRUE] + whole[rest(U)]]
  <2>1. ASSUME NEW U \in SUBSET W PROVE whole[U] = again[U]
    <3>1. CASE U = {}
      BY <3>1
    <3>2. CASE U # {}
      <4>1. rest(U) \in SUBSET W /\ rest(U) # W
        BY <3>2
      <4>2. sub(rest(U)) = whole[rest(U)]
        BY <4>1, <1>6
      <4>3. whole[U] = f[CHOOSE x \in U : TRUE] + sub(rest(U))
        BY <3>2
      <4>4. again[U] = f[CHOOSE x \in U : TRUE] + whole[rest(U)]
        BY <3>2
      <4>5. QED BY <4>2, <4>3, <4>4
    <3>3. QED BY <3>1, <3>2
  <2> HIDE DEF sub
  <2>2. whole = again
    BY <2>1, Zenon
  <2>3. QED BY <2>2, Zenon DEF SumEquation
<1>8. QED BY <1>3, <1>7 DEF Solvable

-----------------------------------------------------------------------------

(* The empty sum is 0.                                                      *)
THEOREM SumEmpty ==
  ASSUME NEW f
  PROVE  SumFunctionOnSet(f, {}) = 0
<1>1. SumEquation(SumSolution(f, {}), f, {})
  BY FS_EmptySet, SumSolvable, SumSolutionSolves
<1>2. QED BY <1>1, SumUnfold DEF SumEquation

(* The recursion takes out some element.                                    *)
LEMMA SumChosen ==
  ASSUME NEW f, NEW S, IsFiniteSet(S), S # {}
  PROVE  \E c \in S : SumFunctionOnSet(f, S) = f[c] + SumFunctionOnSet(f, S \ {c})
<1> DEFINE c == CHOOSE x \in S : TRUE
<1>1. SumEquation(SumSolution(f, S), f, S)
  BY SumSolvable, SumSolutionSolves
<1>2. IsFiniteSet(S \ {c}) /\ S \ {c} \subseteq S
  BY FS_Subset
<1>3. SumEquation(SumSolution(f, S \ {c}), f, S \ {c})
  BY <1>2, SumSolvable, SumSolutionSolves
<1>4. SumSolution(f, S)[S \ {c}] = SumSolution(f, S \ {c})[S \ {c}]
  BY <1>1, <1>2, <1>3, SumSolutionsAgree
<1>5. SumSolution(f, S)[S] = f[c] + SumSolution(f, S)[S \ {c}]
  BY <1>1 DEF SumEquation
<1>6. SumFunctionOnSet(f, S) = f[c] + SumFunctionOnSet(f, S \ {c})
  BY <1>4, <1>5, SumUnfold
<1>7. c \in S
  OBVIOUS
<1>8. QED BY <1>6, <1>7

(* A sum of integers is an integer.                                         *)
THEOREM SumType ==
  ASSUME NEW f, NEW S, IsFiniteSet(S), \A x \in S : f[x] \in Int
  PROVE  SumFunctionOnSet(f, S) \in Int
<1> DEFINE Bad == {T \in SUBSET S : SumFunctionOnSet(f, T) \notin Int}
<1>1. SUFFICES ASSUME Bad # {} PROVE FALSE
  OBVIOUS
<1>2. \A T \in Bad : IsFiniteSet(T)
  BY FS_Subset, Zenon
<1>3. PICK T \in Bad : \A U \in SUBSET T : U # T => U \notin Bad
  BY <1>1, <1>2, LeastSet, Zenon
<1>4. T # {}
  BY SumEmpty
<1>5. IsFiniteSet(T)
  BY <1>2
<1>6. PICK c \in T : SumFunctionOnSet(f, T) = f[c] + SumFunctionOnSet(f, T \ {c})
  BY <1>4, <1>5, SumChosen, Zenon
<1>7. T \ {c} \in SUBSET T /\ T \ {c} # T /\ T \ {c} \in SUBSET S
  OBVIOUS
<1>8. SumFunctionOnSet(f, T \ {c}) \in Int /\ f[c] \in Int
  BY <1>3, <1>7
<1>9. QED BY <1>6, <1>8

(* Any element can be taken out: the sum does not depend on the order.      *)
THEOREM SumRemove ==
  ASSUME NEW f, NEW S, IsFiniteSet(S), \A x \in S : f[x] \in Int, NEW a \in S
  PROVE  SumFunctionOnSet(f, S) = f[a] + SumFunctionOnSet(f, S \ {a})
<1> DEFINE Total(T) == SumFunctionOnSet(f, T)
           Bad == {T \in SUBSET S : \E x \in T : Total(T) # f[x] + Total(T \ {x})}
<1>1. SUFFICES ASSUME Bad # {} PROVE FALSE
  OBVIOUS
<1>2. \A T \in SUBSET S : IsFiniteSet(T)
  BY FS_Subset, Zenon
<1>3. PICK T \in Bad : \A U \in SUBSET T : U # T => U \notin Bad
  BY <1>1, <1>2, LeastSet, Zenon
<1>4. PICK b \in T : Total(T) # f[b] + Total(T \ {b})
  OBVIOUS
<1>5. T # {} /\ IsFiniteSet(T)
  BY <1>2
<1>6. PICK c \in T : Total(T) = f[c] + Total(T \ {c})
  BY <1>5, SumChosen, Zenon
<1> HIDE DEF Total
<1>8. b # c
  BY <1>4, <1>6
<1>9. Total(T \ {c}) = f[b] + Total((T \ {c}) \ {b})
  <2>1. T \ {c} \in SUBSET T /\ T \ {c} # T /\ T \ {c} \in SUBSET S /\ b \in T \ {c}
    BY <1>8
  <2>2. QED BY <1>3, <2>1
<1>10. Total(T \ {b}) = f[c] + Total((T \ {b}) \ {c})
  <2>1. T \ {b} \in SUBSET T /\ T \ {b} # T /\ T \ {b} \in SUBSET S /\ c \in T \ {b}
    BY <1>8
  <2>2. QED BY <1>3, <2>1
<1> DEFINE U == (T \ {c}) \ {b}
<1>11. (T \ {b}) \ {c} = U
  OBVIOUS
<1>12. Total(U) \in Int /\ f[b] \in Int /\ f[c] \in Int
  <2>1. U \in SUBSET S
    OBVIOUS
  <2>2. QED BY <1>2, <2>1, SumType DEF Total
<1> HIDE DEF Bad
<1>13. Total(T \ {c}) = f[b] + Total(U) /\ Total(T \ {b}) = f[c] + Total(U)
  BY <1>9, <1>10, <1>11, Zenon
<1> HIDE DEF U
<1>14. f[c] + Total(T \ {c}) = f[b] + Total(T \ {b})
  <2>1. f[c] + (f[b] + Total(U)) = f[b] + (f[c] + Total(U))
    BY <1>12
  <2>2. QED BY <1>13, <2>1, Zenon
<1>15. QED BY <1>4, <1>6, <1>14

(* Only the values on the set matter.                                       *)
THEOREM SumSame ==
  ASSUME NEW S, IsFiniteSet(S), NEW f, NEW g, \A x \in S : f[x] = g[x]
  PROVE  SumFunctionOnSet(f, S) = SumFunctionOnSet(g, S)
<1> DEFINE Bad == {T \in SUBSET S : SumFunctionOnSet(f, T) # SumFunctionOnSet(g, T)}
<1>1. SUFFICES ASSUME Bad # {} PROVE FALSE
  OBVIOUS
<1>2. \A T \in SUBSET S : IsFiniteSet(T)
  BY FS_Subset, Zenon
<1>3. PICK T \in Bad : \A U \in SUBSET T : U # T => U \notin Bad
  BY <1>1, <1>2, LeastSet, Zenon
<1>4. T # {}
  BY SumEmpty
<1>5. SumEquation(SumSolution(f, T), f, T) /\ SumEquation(SumSolution(g, T), g, T)
  BY <1>2, SumSolvable, SumSolutionSolves
<1> DEFINE c == CHOOSE x \in T : TRUE
           U == T \ {c}
<1>6. c \in T /\ U \in SUBSET T /\ U # T /\ IsFiniteSet(U)
  BY <1>2, <1>4
<1>7. /\ SumEquation(SumSolution(f, U), f, U)
      /\ SumEquation(SumSolution(g, U), g, U)
  BY <1>6, SumSolvable, SumSolutionSolves
<1>8. /\ SumSolution(f, T)[U] = SumFunctionOnSet(f, U)
      /\ SumSolution(g, T)[U] = SumFunctionOnSet(g, U)
  BY <1>5, <1>6, <1>7, SumSolutionsAgree, SumUnfold
<1>9. /\ SumSolution(f, T)[T] = f[c] + SumSolution(f, T)[U]
      /\ SumSolution(g, T)[T] = g[c] + SumSolution(g, T)[U]
  BY <1>4, <1>5 DEF SumEquation
<1>10. SumFunctionOnSet(f, U) = SumFunctionOnSet(g, U)
  BY <1>3, <1>6
<1>11. f[c] = g[c]
  BY <1>6
<1>12. SumFunctionOnSet(f, T) = SumFunctionOnSet(g, T)
  BY <1>8, <1>9, <1>10, <1>11, SumUnfold
<1>13. QED BY <1>12

(* Functions that differ at one point only.                                 *)
THEOREM SumUpdate ==
  ASSUME NEW S, IsFiniteSet(S), NEW f, NEW g, NEW a \in S,
         \A x \in S : f[x] \in Int, g[a] \in Int,
         \A x \in S \ {a} : g[x] = f[x]
  PROVE  SumFunctionOnSet(g, S) = SumFunctionOnSet(f, S) - f[a] + g[a]
<1>1. IsFiniteSet(S \ {a})
  BY FS_Subset
<1>2. SumFunctionOnSet(g, S \ {a}) = SumFunctionOnSet(f, S \ {a})
  BY <1>1, SumSame
<1>3. SumFunctionOnSet(f, S \ {a}) \in Int
  BY <1>1, SumType
<1>4. SumFunctionOnSet(f, S) = f[a] + SumFunctionOnSet(f, S \ {a})
  BY SumRemove
<1>5. \A x \in S : g[x] \in Int
  OBVIOUS
<1>6. SumFunctionOnSet(g, S) = g[a] + SumFunctionOnSet(g, S \ {a})
  BY <1>5, SumRemove
<1>7. f[a] \in Int
  OBVIOUS
<1>8. QED BY <1>2, <1>3, <1>4, <1>6, <1>7

(* Adding d to one value adds d to the sum.                                 *)
THEOREM SumShift ==
  ASSUME NEW S, IsFiniteSet(S), NEW f, NEW g, NEW a \in S, NEW d
  PROVE  /\ d \in Int
         /\ \A x \in S : f[x] \in Int
         /\ \A x \in S : g[x] = IF x = a THEN f[x] + d ELSE f[x]
         => SumFunctionOnSet(g, S) = SumFunctionOnSet(f, S) + d
<1>1. SUFFICES ASSUME d \in Int,
                      \A x \in S : f[x] \in Int,
                      \A x \in S : g[x] = IF x = a THEN f[x] + d ELSE f[x]
               PROVE  SumFunctionOnSet(g, S) = SumFunctionOnSet(f, S) + d
  OBVIOUS
<1>2. \A x \in S : f[x] \in Int
  BY <1>1
<1>3. \A x \in S \ {a} : g[x] = f[x]
  BY <1>1
<1>4. g[a] = f[a] + d
  BY <1>1
<1>5. f[a] \in Int /\ d \in Int
  BY <1>1
<1>6. g[a] \in Int
  BY <1>4, <1>5
<1>7. SumFunctionOnSet(f, S) \in Int
  BY <1>2, SumType
<1>8. SumFunctionOnSet(g, S) = SumFunctionOnSet(f, S) - f[a] + g[a]
  BY <1>2, <1>3, <1>6, SumUpdate
<1>9. QED BY <1>4, <1>5, <1>7, <1>8

(* A sum of naturals is a natural.                                          *)
THEOREM SumNat ==
  ASSUME NEW S, IsFiniteSet(S), NEW f, \A x \in S : f[x] \in Nat
  PROVE  SumFunctionOnSet(f, S) \in Nat
<1> DEFINE Bad == {T \in SUBSET S : SumFunctionOnSet(f, T) \notin Nat}
<1>1. SUFFICES ASSUME Bad # {} PROVE FALSE
  OBVIOUS
<1>2. \A T \in Bad : IsFiniteSet(T)
  BY FS_Subset, Zenon
<1>3. PICK T \in Bad : \A U \in SUBSET T : U # T => U \notin Bad
  BY <1>1, <1>2, LeastSet, Zenon
<1>4. T # {}
  BY SumEmpty
<1>5. IsFiniteSet(T)
  BY <1>2
<1>6. PICK c \in T : SumFunctionOnSet(f, T) = f[c] + SumFunctionOnSet(f, T \ {c})
  BY <1>4, <1>5, SumChosen, Zenon
<1>7. T \ {c} \in SUBSET T /\ T \ {c} # T /\ T \ {c} \in SUBSET S
  OBVIOUS
<1>8. SumFunctionOnSet(f, T \ {c}) \in Nat /\ f[c] \in Nat
  BY <1>3, <1>7
<1>9. QED BY <1>6, <1>8

(* No term of a sum of naturals exceeds it.                                 *)
THEOREM SumTerm ==
  ASSUME NEW S, IsFiniteSet(S), NEW f, \A x \in S : f[x] \in Nat, NEW a \in S
  PROVE  f[a] <= SumFunctionOnSet(f, S)
<1>1. IsFiniteSet(S \ {a})
  BY FS_Subset
<1>2. SumFunctionOnSet(f, S \ {a}) \in Nat
  BY <1>1, SumNat
<1>3. SumFunctionOnSet(f, S) = f[a] + SumFunctionOnSet(f, S \ {a})
  BY SumRemove
<1>4. f[a] \in Nat
  OBVIOUS
<1>5. QED BY <1>2, <1>3, <1>4

(* Two terms together do not exceed the sum either.                         *)
THEOREM SumTwoTerms ==
  ASSUME NEW S, IsFiniteSet(S), NEW f, \A x \in S : f[x] \in Nat,
         NEW a \in S, NEW b \in S, a # b
  PROVE  f[a] + f[b] <= SumFunctionOnSet(f, S)
<1>1. IsFiniteSet(S \ {a}) /\ b \in S \ {a}
  BY FS_Subset
<1>2. f[b] <= SumFunctionOnSet(f, S \ {a})
  BY <1>1, SumTerm
<1>3. SumFunctionOnSet(f, S \ {a}) \in Nat
  BY <1>1, SumNat
<1>4. SumFunctionOnSet(f, S) = f[a] + SumFunctionOnSet(f, S \ {a})
  BY SumRemove
<1>5. f[a] \in Nat /\ f[b] \in Nat
  OBVIOUS
<1>6. QED BY <1>2, <1>3, <1>4, <1>5

(* A sum of zeros.                                                          *)
THEOREM SumZero ==
  ASSUME NEW S, IsFiniteSet(S), NEW f, \A x \in S : f[x] = 0
  PROVE  SumFunctionOnSet(f, S) = 0
<1> DEFINE Bad == {T \in SUBSET S : SumFunctionOnSet(f, T) # 0}
<1>1. SUFFICES ASSUME Bad # {} PROVE FALSE
  OBVIOUS
<1>2. \A T \in Bad : IsFiniteSet(T)
  BY FS_Subset, Zenon
<1>3. PICK T \in Bad : \A U \in SUBSET T : U # T => U \notin Bad
  BY <1>1, <1>2, LeastSet, Zenon
<1>4. T # {} /\ IsFiniteSet(T)
  BY <1>2, SumEmpty
<1>5. PICK c \in T : SumFunctionOnSet(f, T) = f[c] + SumFunctionOnSet(f, T \ {c})
  BY <1>4, SumChosen, Zenon
<1>6. T \ {c} \in SUBSET T /\ T \ {c} # T /\ T \ {c} \in SUBSET S
  OBVIOUS
<1>7. SumFunctionOnSet(f, T \ {c}) = 0 /\ f[c] = 0
  BY <1>3, <1>6
<1>8. QED BY <1>5, <1>7

(* Sums compare as their terms do, after scaling.                           *)
THEOREM SumScaled ==
  ASSUME NEW S, IsFiniteSet(S), NEW f, NEW g, NEW d \in Nat, NEW e \in Nat,
         \A x \in S : f[x] \in Nat /\ g[x] \in Nat /\ g[x] * d <= f[x] * e
  PROVE  SumFunctionOnSet(g, S) * d <= SumFunctionOnSet(f, S) * e
<1> DEFINE Bad == {T \in SUBSET S :
                     ~(SumFunctionOnSet(g, T) * d <= SumFunctionOnSet(f, T) * e)}
<1>1. SUFFICES ASSUME Bad # {} PROVE FALSE
  OBVIOUS
<1>2. \A T \in Bad : IsFiniteSet(T)
  BY FS_Subset, Zenon
<1>3. PICK T \in Bad : \A U \in SUBSET T : U # T => U \notin Bad
  BY <1>1, <1>2, LeastSet, Zenon
<1>4. T # {} /\ IsFiniteSet(T)
  <2>1. 0 * d <= 0 * e
    OBVIOUS
  <2>2. QED BY <1>2, <2>1, SumEmpty
<1>5. PICK c \in T : SumFunctionOnSet(f, T) = f[c] + SumFunctionOnSet(f, T \ {c})
  BY <1>4, SumChosen, Zenon
<1>6. T \ {c} \in SUBSET T /\ T \ {c} # T /\ T \ {c} \in SUBSET S /\ T \in SUBSET S
  OBVIOUS
<1>7. SumFunctionOnSet(g, T) = g[c] + SumFunctionOnSet(g, T \ {c})
  <2>1. \A x \in T : g[x] \in Int
    BY <1>6
  <2>2. QED BY <1>4, <2>1, SumRemove
<1>8. SumFunctionOnSet(g, T \ {c}) * d <= SumFunctionOnSet(f, T \ {c}) * e
  BY <1>3, <1>6
<1>9. PICK p \in Nat, q \in Nat, u \in Nat, v \in Nat :
        /\ p = f[c] /\ q = SumFunctionOnSet(f, T \ {c})
        /\ u = g[c] /\ v = SumFunctionOnSet(g, T \ {c})
  <2>1. IsFiniteSet(T \ {c})
    BY <1>4, FS_Subset
  <2>2. \A x \in T \ {c} : f[x] \in Nat /\ g[x] \in Nat
    BY <1>6
  <2>3. SumFunctionOnSet(f, T \ {c}) \in Nat /\ SumFunctionOnSet(g, T \ {c}) \in Nat
    BY <2>1, <2>2, SumNat
  <2>4. f[c] \in Nat /\ g[c] \in Nat
    BY <1>6
  <2>5. QED BY <2>3, <2>4
<1>10. u * d <= p * e
  BY <1>6, <1>9
<1>11. (u + v) * d <= (p + q) * e
  <2>1. (u + v) * d = u * d + v * d /\ (p + q) * e = p * e + q * e
    OBVIOUS
  <2>2. u * d \in Nat /\ v * d \in Nat /\ p * e \in Nat /\ q * e \in Nat
    OBVIOUS
  <2>3. v * d <= q * e
    BY <1>8, <1>9
  <2>4. QED BY <1>10, <2>1, <2>2, <2>3
<1>12. ~(SumFunctionOnSet(g, T) * d <= SumFunctionOnSet(f, T) * e)
  OBVIOUS
<1>13. QED BY <1>5, <1>7, <1>9, <1>11, <1>12

-----------------------------------------------------------------------------
(* Folds over a sequence.                                                   *)

(* What holds at 0, and at k when it holds at k - 1, holds up to n.         *)
LEMMA UpTo ==
  ASSUME NEW n \in Nat, NEW T, 0 \in T, \A k \in 1..n : k - 1 \in T => k \in T
  PROVE  \A k \in 0..n : k \in T
<1> DEFINE Bad == {k \in 0..n : k \notin T}
<1>1. SUFFICES ASSUME Bad # {} PROVE FALSE
  OBVIOUS
<1>2. PICK k \in Bad : \A j \in Bad : k <= j
  <2>1. Bad \subseteq Nat
    OBVIOUS
  <2> HIDE DEF Bad
  <2>2. QED BY <1>1, <2>1, LeastNatural
<1>3. k \in 0..n /\ k \notin T /\ k # 0
  OBVIOUS
<1>4. k \in 1..n /\ k - 1 \in 0..n /\ ~(k <= k - 1)
  BY <1>3
<1>5. k - 1 \in T
  BY <1>2, <1>4
<1>6. QED BY <1>3, <1>4, <1>5

(* The greatest of numbers up to n.                                         *)
LEMMA GreatestUpTo ==
  ASSUME NEW n \in Nat, NEW s \in SUBSET (1..n), s # {}
  PROVE  Max(s) \in s /\ \A y \in s : y <= Max(s)
<1> DEFINE D == {d \in Nat : n - d \in s}
<1>1. D \subseteq Nat /\ D # {}
  <2>1. PICK y \in s : TRUE
    OBVIOUS
  <2>2. y \in 1..n /\ n - y \in Nat /\ n - (n - y) = y
    OBVIOUS
  <2>3. QED BY <2>2
<1>2. PICK m \in D : \A k \in D : m <= k
  BY <1>1, LeastNatural
<1>3. ASSUME NEW y \in s PROVE n - m >= y
  <2>1. y \in 1..n /\ n - y \in Nat /\ n - (n - y) = y
    OBVIOUS
  <2>2. m <= n - y
    BY <1>2, <2>1
  <2>3. QED BY <2>1, <2>2
<1>4. n - m \in s
  OBVIOUS
<1> DEFINE g == Max(s)
<1>5. g \in s /\ \A y \in s : g >= y
  BY <1>3, <1>4, Zenon DEF Max
<1>6. \A y \in s : y \in Int
  OBVIOUS
<1>7. QED BY <1>5, <1>6

(* The recursive function inside FoldLeft, when step i is the function      *)
(* act[i] on V.                                                             *)
FoldSolution(g, act, base, n) ==
  \A s \in SUBSET (1..n) :
    g[s] = IF s = {} THEN base ELSE act[Max(s)][g[s \ {Max(s)}]]

LEMMA FoldSolvable ==
  ASSUME NEW V, NEW base \in V, NEW n \in Nat, NEW act \in [1..n -> [V -> V]]
  PROVE  \E g \in [SUBSET (1..n) -> V] : FoldSolution(g, act, base, n)
<1> DEFINE Good == {k \in 0..n : \E g \in [SUBSET (1..k) -> V] : FoldSolution(g, act, base, k)}
<1>1. 0 \in Good
  <2> DEFINE g == [s \in SUBSET (1..0) |-> base]
  <2>1. g \in [SUBSET (1..0) -> V] /\ \A s \in SUBSET (1..0) : s = {}
    OBVIOUS
  <2>2. FoldSolution(g, act, base, 0)
    BY <2>1 DEF FoldSolution
  <2>3. 0 \in 0..n
    OBVIOUS
  <2>4. QED BY <2>1, <2>2, <2>3
<1>2. ASSUME NEW k \in 1..n, k - 1 \in Good PROVE k \in Good
  <2>1. PICK g \in [SUBSET (1..(k - 1)) -> V] : FoldSolution(g, act, base, k - 1)
    BY <1>2
  <2> DEFINE h == [s \in SUBSET (1..k) |-> IF k \in s THEN act[k][g[s \ {k}]] ELSE g[s]]
  <2>2. ASSUME NEW s \in SUBSET (1..k)
        PROVE  /\ k \in s => s \ {k} \in SUBSET (1..(k - 1)) /\ s \ {k} \in SUBSET (1..k)
               /\ k \notin s => s \in SUBSET (1..(k - 1))
    <3>1. \A x \in s : x \in 1..k /\ (x # k => x \in 1..(k - 1))
      OBVIOUS
    <3>2. QED BY <3>1
  <2>3. h \in [SUBSET (1..k) -> V]
    BY <2>2
  <2>4. ASSUME NEW s \in SUBSET (1..k)
        PROVE  h[s] = IF s = {} THEN base ELSE act[Max(s)][h[s \ {Max(s)}]]
    <3>1. CASE k \in s
      <4>1. Max(s) = k
        <5>1. s # {} /\ k \in Nat
          BY <3>1
        <5>2. Max(s) \in s /\ k <= Max(s)
          BY <3>1, <5>1, GreatestUpTo
        <5>3. Max(s) \in 1..k
          BY <5>2
        <5>4. QED BY <5>2, <5>3
      <4>2. h[s \ {k}] = g[s \ {k}] /\ h[s] = act[k][g[s \ {k}]]
        BY <2>2, <3>1
      <4>3. QED BY <3>1, <4>1, <4>2
    <3>2. CASE k \notin s
      <4>1. s \in SUBSET (1..(k - 1)) /\ h[s] = g[s] /\ k - 1 \in Nat
        BY <2>2, <3>2
      <4>2. g[s] = IF s = {} THEN base ELSE act[Max(s)][g[s \ {Max(s)}]]
        BY <2>1, <4>1 DEF FoldSolution
      <4>3. h[s \ {Max(s)}] = g[s \ {Max(s)}]
        BY <3>2
      <4>4. QED BY <4>1, <4>2, <4>3
    <3>3. QED BY <3>1, <3>2
  <2> HIDE DEF h
  <2>5. FoldSolution(h, act, base, k)
    BY <2>4 DEF FoldSolution
  <2>6. k \in 0..n
    OBVIOUS
  <2>7. QED BY <2>3, <2>5, <2>6
<1>3. n \in Good
  <2> HIDE DEF Good
  <2>1. n \in 0..n
    OBVIOUS
  <2>2. QED BY <1>1, <1>2, <2>1, UpTo
<1>4. QED BY <1>3

(* The first numbers, and the greatest of them.                             *)
LEMMA FirstOnes ==
  ASSUME NEW n \in Nat, NEW k \in 1..n
  PROVE  /\ 1..k \in SUBSET (1..n) /\ 1..k # {} /\ k \in 0..n
         /\ Max(1..k) = k /\ (1..k) \ {k} = 1..(k - 1)
<1>1. k \in Nat /\ 1 <= k /\ k <= n /\ k \in 1..k
  OBVIOUS
<1>2. 1..k \in SUBSET (1..n) /\ 1..k # {} /\ k \in 0..n
  <2>1. \A i \in 1..k : i \in 1..n
    BY <1>1
  <2>2. QED BY <1>1, <2>1
<1>3. Max(1..k) = k
  <2>1. Max(1..k) \in 1..k /\ k <= Max(1..k)
    BY <1>1, <1>2, GreatestUpTo
  <2>2. QED BY <1>1, <2>1
<1>4. (1..k) \ {k} = 1..(k - 1)
  OBVIOUS
<1>5. QED BY <1>2, <1>3, <1>4

=============================================================================
