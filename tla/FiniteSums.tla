----------------------------- MODULE FiniteSums -----------------------------
(***************************************************************************)
(* What the sums of the models are equal to: SumFunctionOnSet(w, S), a     *)
(* fold that picks the elements of S one after the other, depends on       *)
(* nothing but the values of w on the finite set S, and grows by the       *)
(* element that is added, whichever it is.                                 *)
(*                                                                         *)
(* Where induction would be used, there is the least counterexample: the   *)
(* number of elements of the smallest set of which a claim is wrong.       *)
(***************************************************************************)
EXTENDS Integers, FiniteSets, Functions, FiniteSetTheorems, WellFoundedInduction, TLAPS

\* The element a fold takes first.
Pick(s) == CHOOSE x \in s : TRUE

\* One step of the fold: f has the sums of smaller sets.
FoldStep(w, f, s) == IF s = {} THEN 0 ELSE w[Pick(s)] + f[s \ {Pick(s)}]

\* The sums of w over the sets in D.
Sums(w, D) == CHOOSE f : f = [s \in D |-> FoldStep(w, f, s)]

\* The order of the natural numbers as a relation.
Below == OpToRel(<, Nat)

-----------------------------------------------------------------------------
(* The least counterexample.                                                *)

\* What is less is below.
LEMMA LessIsBelow == \A m, n \in Nat : m < n => <<m, n>> \in Below
  BY DEF Below, OpToRel

\* A set of numbers has a least one.
LEMMA LeastNumber == ASSUME NEW T, T \subseteq Nat, T # {} PROVE \E n \in T : \A m \in T : n <= m
<1>1. IsWellFoundedOn(Below, Nat)
  BY NatLessThanWellFounded DEF Below
<1>2. PICK n \in T : \A m \in T : <<m, n>> \notin Below
  BY <1>1, WFMin
<1>3. ASSUME NEW m \in T PROVE n <= m
  <2>1. m \in Nat /\ n \in Nat
    OBVIOUS
  <2>2. ~(m < n)
    BY <1>2, <2>1, LessIsBelow
  <2> QED BY <2>1, <2>2
<1> QED BY <1>3

\* Of the finite subsets of S that are in Bad, one has the least number of elements.
LEMMA SmallestSet ==
    ASSUME NEW S, IsFiniteSet(S), NEW Bad, Bad \subseteq SUBSET S, Bad # {}
    PROVE  \E T \in Bad : /\ IsFiniteSet(T)
                          /\ \A x \in T : /\ T \ {x} \notin Bad
                                          /\ IsFiniteSet(T \ {x})
<1> DEFINE Sizes == {Cardinality(T) : T \in Bad}
<1>1. \A T \in Bad : IsFiniteSet(T) /\ Cardinality(T) \in Nat
  BY FS_Subset, FS_CardinalityType
<1>2. PICK n \in Sizes : \A m \in Sizes : n <= m
  <2>1. Sizes \subseteq Nat /\ Sizes # {}
    BY <1>1
  <2> QED BY <2>1, LeastNumber
<1>3. PICK T \in Bad : Cardinality(T) = n
  OBVIOUS
<1>4. ASSUME NEW x \in T PROVE T \ {x} \notin Bad /\ IsFiniteSet(T \ {x})
  <2>1. IsFiniteSet(T \ {x}) /\ Cardinality(T \ {x}) = n - 1
    BY <1>1, <1>3, FS_RemoveElement
  <2>2. n \in Nat
    BY <1>1, <1>3
  <2>3. ~(n <= n - 1)
    BY <2>2
  <2>4. T \ {x} \notin Bad
    BY <1>2, <2>1, <2>3
  <2> QED BY <2>1, <2>4
<1> QED BY <1>1, <1>4

-----------------------------------------------------------------------------
(* The fold is what it says.                                                *)

\* A set that is not empty has the element that is picked.
LEMMA Picked == ASSUME NEW s, s # {} PROVE Pick(s) \in s
  BY DEF Pick

\* There are sums of all subsets of a finite set.
LEMMA SumsExist ==
    ASSUME NEW w, NEW S, IsFiniteSet(S)
    PROVE  \E f : f = [s \in SUBSET S |-> FoldStep(w, f, s)]
<1> DEFINE Small(n) == {s \in SUBSET S : Cardinality(s) <= n}
<1> DEFINE Bad == {n \in Nat : ~\E f : f = [s \in Small(n) |-> FoldStep(w, f, s)]}
<1>0. \A s \in SUBSET S : IsFiniteSet(s) /\ Cardinality(s) \in Nat
  BY FS_Subset, FS_CardinalityType
<1>1. ASSUME Bad # {} PROVE FALSE
  <2>1. PICK n \in Bad : \A m \in Bad : n <= m
    <3>1. Bad \subseteq Nat
      OBVIOUS
    <3> QED BY <1>1, <3>1, LeastNumber
  <2>2. CASE n = 0
    <3>1. \A s \in Small(0) : s = {}
      BY <1>0, FS_EmptySet
    <3> DEFINE f == [s \in Small(0) |-> 0]
    <3>2. f = [s \in Small(0) |-> FoldStep(w, f, s)]
      BY <3>1 DEF FoldStep
    <3> QED BY <2>1, <2>2, <3>2
  <2>3. CASE n # 0
    <3>1. n \in Nat /\ n - 1 \in Nat /\ n - 1 \notin Bad
      <4>1. n \in Nat /\ n - 1 \in Nat /\ ~(n <= n - 1)
        BY <2>3
      <4> HIDE DEF Bad
      <4> QED BY <2>1, <4>1
    <3>2. PICK f : f = [s \in Small(n - 1) |-> FoldStep(w, f, s)]
      BY <3>1
    <3> DEFINE g == [s \in Small(n) |-> FoldStep(w, f, s)]
    <3>3. ASSUME NEW s \in Small(n) PROVE g[s] = FoldStep(w, g, s)
      <4>1. CASE s = {}
        BY <4>1 DEF FoldStep
      <4>2. CASE s # {}
        <5> DEFINE t == s \ {Pick(s)}
        <5>1. Cardinality(t) = Cardinality(s) - 1
          BY <1>0, <4>2, Picked, FS_RemoveElement
        <5>2. t \in Small(n - 1) /\ t \in Small(n)
          BY <1>0, <3>1, <5>1
        <5>3. g[t] = FoldStep(w, f, t) /\ f[t] = FoldStep(w, f, t)
          <6> HIDE DEF t, Small
          <6>1. g[t] = FoldStep(w, f, t)
            BY <5>2
          <6>2. f[t] = [r \in Small(n - 1) |-> FoldStep(w, f, r)][t]
            BY <3>2
          <6> QED BY <5>2, <6>1, <6>2
        <5> QED BY <4>2, <5>3 DEF FoldStep
      <4> QED BY <4>1, <4>2
    <3>4. g = [s \in Small(n) |-> FoldStep(w, g, s)]
      <4> HIDE DEF Small
      <4> QED BY <3>3
    <3> QED BY <2>1, <3>4
  <2> QED BY <2>2, <2>3
<1>2. Cardinality(S) \in Nat /\ Cardinality(S) \notin Bad
  BY <1>1, FS_CardinalityType
<1>3. Small(Cardinality(S)) = SUBSET S
  BY FS_Subset
<1> QED
  <2> HIDE DEF Small
  <2> QED BY <1>2, <1>3

\* So the chosen function has them.
LEMMA SumsStep ==
    ASSUME NEW w, NEW S, IsFiniteSet(S), NEW T \in SUBSET S
    PROVE  Sums(w, SUBSET S)[T] = FoldStep(w, Sums(w, SUBSET S), T)
<1>1. Sums(w, SUBSET S) = [s \in SUBSET S |-> FoldStep(w, Sums(w, SUBSET S), s)]
  <2> DEFINE Good(f) == f = [s \in SUBSET S |-> FoldStep(w, f, s)]
  <2>1. \E f : Good(f)
    BY SumsExist
  <2>2. Good(CHOOSE f : Good(f))
    <3> HIDE DEF Good
    <3> QED BY <2>1
  <2> QED BY <2>2 DEF Sums
<1>2. [s \in SUBSET S |-> FoldStep(w, Sums(w, SUBSET S), s)][T] = FoldStep(w, Sums(w, SUBSET S), T)
  OBVIOUS
<1> QED BY <1>1, <1>2

-----------------------------------------------------------------------------
(* A sum depends on the values of the elements, and on nothing else.         *)

\* The sum over a set is that of its subsets, in any larger one.
LEMMA SumIsLocal ==
    ASSUME NEW v, NEW w, NEW S, IsFiniteSet(S), NEW R, IsFiniteSet(R),
           NEW T, T \subseteq S, T \subseteq R, \A x \in T : v[x] = w[x]
    PROVE  Sums(v, SUBSET S)[T] = Sums(w, SUBSET R)[T]
<1> DEFINE Bad == {s \in SUBSET T : Sums(v, SUBSET S)[s] # Sums(w, SUBSET R)[s]}
<1>1. ASSUME Bad # {} PROVE FALSE
  <2>1. IsFiniteSet(T)
    BY FS_Subset
  <2>2. PICK s \in Bad : \A x \in s : s \ {x} \notin Bad
    <3>1. Bad \subseteq SUBSET T
      OBVIOUS
    <3> HIDE DEF Bad
    <3> QED BY <1>1, <2>1, <3>1, SmallestSet
  <2>3. /\ Sums(v, SUBSET S)[s] = FoldStep(v, Sums(v, SUBSET S), s)
        /\ Sums(w, SUBSET R)[s] = FoldStep(w, Sums(w, SUBSET R), s)
    BY SumsStep
  <2>4. CASE s = {}
    BY <2>3, <2>4 DEF FoldStep
  <2>5. CASE s # {}
    <3>1. Pick(s) \in s
      BY <2>5, Picked
    <3>2. Sums(v, SUBSET S)[s \ {Pick(s)}] = Sums(w, SUBSET R)[s \ {Pick(s)}]
      BY <2>2, <3>1
    <3>3. v[Pick(s)] = w[Pick(s)]
      BY <3>1
    <3> QED BY <2>3, <2>5, <3>2, <3>3 DEF FoldStep
  <2> QED BY <2>4, <2>5
<1> QED BY <1>1

\* The fold of the library is such a sum.
LEMMA SumUnfolds == ASSUME NEW w, NEW S PROVE SumFunctionOnSet(w, S) = Sums(w, SUBSET S)[S]
  BY DEF SumFunctionOnSet, FoldFunctionOnSet, MapThenFoldSet, Sums, FoldStep, Pick

\* Equal values have equal sums.
LEMMA SumSame ==
    ASSUME NEW v, NEW w, NEW S, IsFiniteSet(S), \A x \in S : v[x] = w[x]
    PROVE  SumFunctionOnSet(v, S) = SumFunctionOnSet(w, S)
<1>1. Sums(v, SUBSET S)[S] = Sums(w, SUBSET S)[S]
  BY SumIsLocal
<1> QED BY <1>1, SumUnfolds

\* Nothing sums to nothing.
LEMMA SumEmpty == ASSUME NEW w PROVE SumFunctionOnSet(w, {}) = 0
  BY SumUnfolds, SumsStep, FS_EmptySet DEF FoldStep

\* The element that is picked, and the rest.
LEMMA SumPicks ==
    ASSUME NEW w, NEW S, IsFiniteSet(S), S # {}
    PROVE  SumFunctionOnSet(w, S) = w[Pick(S)] + SumFunctionOnSet(w, S \ {Pick(S)})
<1>1. IsFiniteSet(S \ {Pick(S)})
  BY FS_RemoveElement
<1>2. Sums(w, SUBSET S)[S] = w[Pick(S)] + Sums(w, SUBSET S)[S \ {Pick(S)}]
  BY SumsStep DEF FoldStep
<1>3. Sums(w, SUBSET S)[S \ {Pick(S)}] = Sums(w, SUBSET (S \ {Pick(S)}))[S \ {Pick(S)}]
  BY <1>1, SumIsLocal
<1> QED BY <1>2, <1>3, SumUnfolds

-----------------------------------------------------------------------------
(* Sums of integers.                                                        *)

\* The sum of integers is one.
LEMMA SumInt ==
    ASSUME NEW w, NEW S, IsFiniteSet(S), \A x \in S : w[x] \in Int
    PROVE  SumFunctionOnSet(w, S) \in Int
<1> DEFINE Bad == {s \in SUBSET S : SumFunctionOnSet(w, s) \notin Int}
<1>1. ASSUME Bad # {} PROVE FALSE
  <2>1. PICK s \in Bad : IsFiniteSet(s) /\ \A x \in s : s \ {x} \notin Bad
    <3>1. Bad \subseteq SUBSET S
      OBVIOUS
    <3> HIDE DEF Bad
    <3> QED BY <1>1, <3>1, SmallestSet
  <2>2. CASE s = {}
    BY <2>2, SumEmpty
  <2>3. CASE s # {}
    <3>1. Pick(s) \in s
      BY <2>3, Picked
    <3>2. w[Pick(s)] \in Int /\ SumFunctionOnSet(w, s \ {Pick(s)}) \in Int
      BY <2>1, <3>1
    <3> QED BY <2>1, <2>3, <3>2, SumPicks
  <2> QED BY <2>2, <2>3
<1> QED BY <1>1

\* The sum of natural numbers is one.
LEMMA SumNat ==
    ASSUME NEW w, NEW S, IsFiniteSet(S), \A x \in S : w[x] \in Nat
    PROVE  SumFunctionOnSet(w, S) \in Nat
<1> DEFINE Bad == {s \in SUBSET S : SumFunctionOnSet(w, s) \notin Nat}
<1>1. ASSUME Bad # {} PROVE FALSE
  <2>1. PICK s \in Bad : IsFiniteSet(s) /\ \A x \in s : s \ {x} \notin Bad
    <3>1. Bad \subseteq SUBSET S
      OBVIOUS
    <3> HIDE DEF Bad
    <3> QED BY <1>1, <3>1, SmallestSet
  <2>2. CASE s = {}
    BY <2>2, SumEmpty
  <2>3. CASE s # {}
    <3>1. Pick(s) \in s
      BY <2>3, Picked
    <3>2. w[Pick(s)] \in Nat /\ SumFunctionOnSet(w, s \ {Pick(s)}) \in Nat
      BY <2>1, <3>1
    <3> QED BY <2>1, <2>3, <3>2, SumPicks
  <2> QED BY <2>2, <2>3
<1> QED BY <1>1

\* Any element may be taken first.
LEMMA SumTakes ==
    ASSUME NEW w, NEW S, IsFiniteSet(S), \A y \in S : w[y] \in Int, NEW x \in S
    PROVE  SumFunctionOnSet(w, S) = w[x] + SumFunctionOnSet(w, S \ {x})
<1> DEFINE Bad == {s \in SUBSET S : \E y \in s : SumFunctionOnSet(w, s) # w[y] + SumFunctionOnSet(w, s \ {y})}
<1>1. ASSUME Bad # {} PROVE FALSE
  <2>1. PICK s \in Bad : IsFiniteSet(s) /\ \A y \in s : s \ {y} \notin Bad /\ IsFiniteSet(s \ {y})
    <3>1. Bad \subseteq SUBSET S
      OBVIOUS
    <3> HIDE DEF Bad
    <3> QED BY <1>1, <3>1, SmallestSet
  <2>2. PICK y \in s : SumFunctionOnSet(w, s) # w[y] + SumFunctionOnSet(w, s \ {y})
    OBVIOUS
  <2> DEFINE p == Pick(s)
  <2>3. p \in s
    BY Picked
  <2>4. SumFunctionOnSet(w, s) = w[p] + SumFunctionOnSet(w, s \ {p})
    BY <2>1, SumPicks
  <2>5. p # y
    BY <2>2, <2>4
  <2> HIDE DEF p
  <2>6. SumFunctionOnSet(w, s \ {p}) = w[y] + SumFunctionOnSet(w, (s \ {p}) \ {y})
    BY <2>1, <2>3, <2>5
  <2>7. SumFunctionOnSet(w, s \ {y}) = w[p] + SumFunctionOnSet(w, (s \ {y}) \ {p})
    BY <2>1, <2>3, <2>5
  <2>8. (s \ {p}) \ {y} = (s \ {y}) \ {p}
    OBVIOUS
  <2>9. w[p] \in Int /\ w[y] \in Int /\ SumFunctionOnSet(w, (s \ {y}) \ {p}) \in Int
    <3>1. IsFiniteSet((s \ {y}) \ {p})
      BY <2>1, FS_RemoveElement
    <3> QED BY <2>3, <3>1, SumInt
  <2>10. SumFunctionOnSet(w, s) = w[p] + (w[y] + SumFunctionOnSet(w, (s \ {y}) \ {p}))
    BY <2>4, <2>6, <2>8
  <2>11. SumFunctionOnSet(w, s) = w[y] + SumFunctionOnSet(w, s \ {y})
    <3> HIDE DEF Bad
    <3> QED BY <2>7, <2>9, <2>10
  <2> QED BY <2>2, <2>11
<1>2. S \notin Bad
  BY <1>1
<1> QED BY <1>2

\* A sum grows by what is added.
LEMMA SumGrows ==
    ASSUME NEW w, NEW S, IsFiniteSet(S), NEW x, x \notin S, \A y \in S \cup {x} : w[y] \in Int
    PROVE  SumFunctionOnSet(w, S \cup {x}) = w[x] + SumFunctionOnSet(w, S)
<1>1. IsFiniteSet(S \cup {x})
  BY FS_AddElement
<1>2. (S \cup {x}) \ {x} = S
  OBVIOUS
<1>3. SumFunctionOnSet(w, S \cup {x}) = w[x] + SumFunctionOnSet(w, (S \cup {x}) \ {x})
  BY <1>1, SumTakes
<1> QED BY <1>2, <1>3

\* One value that changes changes the sum by as much.
LEMMA SumChanges ==
    ASSUME NEW v, NEW w, NEW S, IsFiniteSet(S), NEW x \in S,
           \A y \in S : v[y] \in Int /\ w[y] \in Int, \A y \in S \ {x} : v[y] = w[y]
    PROVE  SumFunctionOnSet(v, S) = SumFunctionOnSet(w, S) + (v[x] - w[x])
<1>1. IsFiniteSet(S \ {x})
  BY FS_RemoveElement
<1>2. SumFunctionOnSet(v, S) = v[x] + SumFunctionOnSet(v, S \ {x})
  BY SumTakes
<1>3. SumFunctionOnSet(w, S) = w[x] + SumFunctionOnSet(w, S \ {x})
  BY SumTakes
<1>4. SumFunctionOnSet(v, S \ {x}) = SumFunctionOnSet(w, S \ {x})
  BY <1>1, SumSame
<1>5. v[x] \in Int /\ w[x] \in Int /\ SumFunctionOnSet(w, S \ {x}) \in Int
  BY <1>1, SumInt
<1> QED BY <1>2, <1>3, <1>4, <1>5

\* The sum of differences is the difference of the sums.
LEMMA SumMinus ==
    ASSUME NEW u, NEW v, NEW w, NEW S, IsFiniteSet(S),
           \A x \in S : v[x] \in Int /\ w[x] \in Int /\ u[x] = v[x] - w[x]
    PROVE  SumFunctionOnSet(u, S) = SumFunctionOnSet(v, S) - SumFunctionOnSet(w, S)
<1> DEFINE Bad == {s \in SUBSET S : SumFunctionOnSet(u, s) # SumFunctionOnSet(v, s) - SumFunctionOnSet(w, s)}
<1>1. ASSUME Bad # {} PROVE FALSE
  <2>1. PICK s \in Bad : IsFiniteSet(s) /\ \A x \in s : s \ {x} \notin Bad /\ IsFiniteSet(s \ {x})
    <3>1. Bad \subseteq SUBSET S
      OBVIOUS
    <3> HIDE DEF Bad
    <3> QED BY <1>1, <3>1, SmallestSet
  <2>2. CASE s = {}
    BY <2>2, SumEmpty
  <2>3. CASE s # {}
    <3> DEFINE p == Pick(s)
    <3>1. p \in s
      BY <2>3, Picked
    <3>2. /\ SumFunctionOnSet(u, s) = u[p] + SumFunctionOnSet(u, s \ {p})
          /\ SumFunctionOnSet(v, s) = v[p] + SumFunctionOnSet(v, s \ {p})
          /\ SumFunctionOnSet(w, s) = w[p] + SumFunctionOnSet(w, s \ {p})
      BY <2>1, <2>3, SumPicks
    <3>3. SumFunctionOnSet(u, s \ {p}) = SumFunctionOnSet(v, s \ {p}) - SumFunctionOnSet(w, s \ {p})
      BY <2>1, <3>1
    <3>4. /\ v[p] \in Int /\ w[p] \in Int /\ u[p] = v[p] - w[p]
          /\ SumFunctionOnSet(v, s \ {p}) \in Int /\ SumFunctionOnSet(w, s \ {p}) \in Int
      BY <2>1, <3>1, SumInt
    <3> HIDE DEF p
    <3> QED BY <3>2, <3>3, <3>4
  <2> QED BY <2>2, <2>3
<1>2. S \notin Bad
  BY <1>1
<1> QED BY <1>2

\* Elements without a value may be left out.
LEMMA SumOfPart ==
    ASSUME NEW w, NEW S, IsFiniteSet(S), \A x \in S : w[x] \in Int,
           NEW A, A \subseteq S, \A x \in S \ A : w[x] = 0
    PROVE  SumFunctionOnSet(w, A) = SumFunctionOnSet(w, S)
<1> DEFINE Bad == {s \in SUBSET S : A \subseteq s /\ SumFunctionOnSet(w, s) # SumFunctionOnSet(w, A)}
<1>1. ASSUME Bad # {} PROVE FALSE
  <2>1. PICK s \in Bad : IsFiniteSet(s) /\ \A x \in s : s \ {x} \notin Bad /\ IsFiniteSet(s \ {x})
    <3>1. Bad \subseteq SUBSET S
      OBVIOUS
    <3> HIDE DEF Bad
    <3> QED BY <1>1, <3>1, SmallestSet
  <2>2. PICK x \in s : x \notin A
    OBVIOUS
  <2>3. SumFunctionOnSet(w, s \ {x}) = SumFunctionOnSet(w, A)
    BY <2>1, <2>2
  <2>4. SumFunctionOnSet(w, s) = w[x] + SumFunctionOnSet(w, s \ {x}) /\ w[x] = 0
    BY <2>1, <2>2, SumTakes
  <2>5. SumFunctionOnSet(w, s \ {x}) \in Int
    BY <2>1, SumInt
  <2> QED BY <2>1, <2>3, <2>4, <2>5
<1>2. S \notin Bad
  BY <1>1
<1> QED BY <1>2

\* Without negative values, the sum over a part is no more than the sum.
LEMMA SumOfSubset ==
    ASSUME NEW w, NEW S, IsFiniteSet(S), \A x \in S : w[x] \in Nat, NEW A, A \subseteq S
    PROVE  SumFunctionOnSet(w, A) <= SumFunctionOnSet(w, S)
<1> DEFINE Bad == {s \in SUBSET S : A \subseteq s /\ ~(SumFunctionOnSet(w, A) <= SumFunctionOnSet(w, s))}
<1>0. IsFiniteSet(A) /\ SumFunctionOnSet(w, A) \in Nat
  <2>1. IsFiniteSet(A)
    BY FS_Subset
  <2> QED BY <2>1, SumNat
<1>1. ASSUME Bad # {} PROVE FALSE
  <2>1. PICK s \in Bad : IsFiniteSet(s) /\ \A x \in s : s \ {x} \notin Bad /\ IsFiniteSet(s \ {x})
    <3>1. Bad \subseteq SUBSET S
      OBVIOUS
    <3> HIDE DEF Bad
    <3> QED BY <1>1, <3>1, SmallestSet
  <2>2. PICK x \in s : x \notin A
    <3>1. s # A
      BY <1>0
    <3> QED BY <3>1
  <2>3. SumFunctionOnSet(w, A) <= SumFunctionOnSet(w, s \ {x})
    BY <2>1, <2>2
  <2>4. SumFunctionOnSet(w, s) = w[x] + SumFunctionOnSet(w, s \ {x}) /\ w[x] \in Nat
    BY <2>1, <2>2, SumTakes
  <2>5. SumFunctionOnSet(w, s \ {x}) \in Nat
    BY <2>1, SumNat
  <2>6. SumFunctionOnSet(w, A) <= SumFunctionOnSet(w, s)
    <3> HIDE DEF Bad
    <3> QED BY <1>0, <2>3, <2>4, <2>5
  <2> QED BY <2>1, <2>6
<1>2. S \notin Bad
  BY <1>1
<1> QED BY <1>2

\* A function summed over its domain.
LEMMA SumAll == ASSUME NEW S, NEW F, F = [x \in S |-> F[x]] PROVE SumFunction(F) = SumFunctionOnSet(F, S)
<1>1. DOMAIN F = S
  OBVIOUS
<1> QED BY <1>1 DEF SumFunction

\* The sum up to the next number.
LEMMA SumNext ==
    ASSUME NEW w, NEW a \in Int, NEW d \in Int, a <= d + 1, \A k \in a .. d + 1 : w[k] \in Int
    PROVE  /\ SumFunctionOnSet(w, a .. d + 1) = w[d + 1] + SumFunctionOnSet(w, a .. d)
           /\ SumFunctionOnSet(w, a .. d) \in Int /\ w[d + 1] \in Int
<1>1. IsFiniteSet(a .. d) /\ d + 1 \notin a .. d /\ a .. d + 1 = (a .. d) \cup {d + 1} /\ d + 1 \in a .. d + 1
  <2>1. IsFiniteSet(a .. d)
    BY FS_Interval
  <2> QED BY <2>1
<1>2. SumFunctionOnSet(w, a .. d) \in Int
  BY <1>1, SumInt
<1> QED BY <1>1, <1>2, SumGrows

\* The sum of a linear combination is that of the sums.
LEMMA SumLinear ==
    ASSUME NEW u, NEW v, NEW w, NEW k \in Int, NEW S, IsFiniteSet(S),
           \A x \in S : v[x] \in Int /\ w[x] \in Int /\ u[x] = k * v[x] + w[x]
    PROVE  SumFunctionOnSet(u, S) = k * SumFunctionOnSet(v, S) + SumFunctionOnSet(w, S)
<1> DEFINE Bad == {s \in SUBSET S : SumFunctionOnSet(u, s) # k * SumFunctionOnSet(v, s) + SumFunctionOnSet(w, s)}
<1>1. ASSUME Bad # {} PROVE FALSE
  <2>1. PICK s \in Bad : IsFiniteSet(s) /\ \A x \in s : s \ {x} \notin Bad /\ IsFiniteSet(s \ {x})
    <3>1. Bad \subseteq SUBSET S
      OBVIOUS
    <3> HIDE DEF Bad
    <3> QED BY <1>1, <3>1, SmallestSet
  <2>2. CASE s = {}
    BY <2>2, SumEmpty
  <2>3. CASE s # {}
    <3>1. Pick(s) \in s
      BY <2>3, Picked
    <3> DEFINE x == Pick(s)
               r == s \ {Pick(s)}
    <3>2. /\ SumFunctionOnSet(u, s) = u[x] + SumFunctionOnSet(u, r)
          /\ SumFunctionOnSet(v, s) = v[x] + SumFunctionOnSet(v, r)
          /\ SumFunctionOnSet(w, s) = w[x] + SumFunctionOnSet(w, r)
      BY <2>1, <2>3, SumPicks
    <3>3. SumFunctionOnSet(u, r) = k * SumFunctionOnSet(v, r) + SumFunctionOnSet(w, r)
      BY <2>1, <3>1
    <3>4. r \subseteq S /\ x \in S /\ IsFiniteSet(r)
      BY <2>1, <3>1
    <3>5. SumFunctionOnSet(v, r) \in Int /\ SumFunctionOnSet(w, r) \in Int
      BY <3>4, SumInt
    <3>6. v[x] \in Int /\ w[x] \in Int /\ u[x] = k * v[x] + w[x]
      BY <3>4
    <3> HIDE DEF x, r
    <3>7. ASSUME NEW a \in Int, NEW b \in Int PROVE k * (a + b) = k * a + k * b
      OBVIOUS
    <3>8. k * (v[x] + SumFunctionOnSet(v, r)) = k * v[x] + k * SumFunctionOnSet(v, r)
      BY <3>5, <3>6, <3>7
    <3>9. SumFunctionOnSet(u, s) = k * SumFunctionOnSet(v, s) + SumFunctionOnSet(w, s)
      BY <3>2, <3>3, <3>5, <3>6, <3>8
    <3> QED BY <2>1, <3>9
  <2> QED BY <2>2, <2>3
<1> QED BY <1>1

\* A sum of smaller values is smaller.
LEMMA SumAtMost ==
    ASSUME NEW v, NEW w, NEW S, IsFiniteSet(S), \A x \in S : v[x] \in Int /\ w[x] \in Int /\ v[x] <= w[x]
    PROVE  SumFunctionOnSet(v, S) <= SumFunctionOnSet(w, S)
<1> DEFINE Bad == {s \in SUBSET S : ~(SumFunctionOnSet(v, s) <= SumFunctionOnSet(w, s))}
<1>1. ASSUME Bad # {} PROVE FALSE
  <2>1. PICK s \in Bad : IsFiniteSet(s) /\ \A x \in s : s \ {x} \notin Bad /\ IsFiniteSet(s \ {x})
    <3>1. Bad \subseteq SUBSET S
      OBVIOUS
    <3> HIDE DEF Bad
    <3> QED BY <1>1, <3>1, SmallestSet
  <2>2. CASE s = {}
    BY <2>2, SumEmpty
  <2>3. CASE s # {}
    <3>1. Pick(s) \in s
      BY <2>3, Picked
    <3> DEFINE x == Pick(s)
               r == s \ {Pick(s)}
    <3>2. /\ SumFunctionOnSet(v, s) = v[x] + SumFunctionOnSet(v, r)
          /\ SumFunctionOnSet(w, s) = w[x] + SumFunctionOnSet(w, r)
      BY <2>1, <2>3, SumPicks
    <3>3. SumFunctionOnSet(v, r) <= SumFunctionOnSet(w, r)
      BY <2>1, <3>1
    <3>4. r \subseteq S /\ x \in S /\ IsFiniteSet(r)
      BY <2>1, <3>1
    <3>5. SumFunctionOnSet(v, r) \in Int /\ SumFunctionOnSet(w, r) \in Int
      BY <3>4, SumInt
    <3>6. v[x] \in Int /\ w[x] \in Int /\ v[x] <= w[x]
      BY <3>4
    <3> HIDE DEF x, r
    <3>7. SumFunctionOnSet(v, s) <= SumFunctionOnSet(w, s)
      BY <3>2, <3>3, <3>5, <3>6
    <3> QED BY <2>1, <3>7
  <2> QED BY <2>2, <2>3
<1> QED BY <1>1

\* A sum of ones counts.
LEMMA SumOfOnes ==
    ASSUME NEW w, NEW S, IsFiniteSet(S), \A x \in S : w[x] = 1
    PROVE  SumFunctionOnSet(w, S) = Cardinality(S)
<1> DEFINE Bad == {s \in SUBSET S : SumFunctionOnSet(w, s) # Cardinality(s)}
<1>1. ASSUME Bad # {} PROVE FALSE
  <2>1. PICK s \in Bad : IsFiniteSet(s) /\ \A x \in s : s \ {x} \notin Bad /\ IsFiniteSet(s \ {x})
    <3>1. Bad \subseteq SUBSET S
      OBVIOUS
    <3> HIDE DEF Bad
    <3> QED BY <1>1, <3>1, SmallestSet
  <2>2. CASE s = {}
    BY <2>2, SumEmpty, FS_EmptySet
  <2>3. CASE s # {}
    <3>1. Pick(s) \in s
      BY <2>3, Picked
    <3>2. SumFunctionOnSet(w, s) = w[Pick(s)] + SumFunctionOnSet(w, s \ {Pick(s)})
      BY <2>1, <2>3, SumPicks
    <3>3. SumFunctionOnSet(w, s \ {Pick(s)}) = Cardinality(s \ {Pick(s)}) /\ w[Pick(s)] = 1
      BY <2>1, <3>1
    <3>4. Cardinality(s \ {Pick(s)}) = Cardinality(s) - 1 /\ Cardinality(s) \in Nat
      BY <2>1, <3>1, FS_RemoveElement, FS_CardinalityType
    <3> QED BY <2>1, <3>2, <3>3, <3>4
  <2> QED BY <2>2, <2>3
<1> QED BY <1>1

\* A sum of ones and zeros counts the ones.
LEMMA SumOfFlags ==
    ASSUME NEW w, NEW S, IsFiniteSet(S), NEW A, A \subseteq S,
           \A x \in S : w[x] = (IF x \in A THEN 1 ELSE 0)
    PROVE  SumFunctionOnSet(w, S) = Cardinality(A)
<1>1. IsFiniteSet(A)
  BY FS_Subset
<1>2. SumFunctionOnSet(w, A) = Cardinality(A)
  BY <1>1, SumOfOnes
<1>3. SumFunctionOnSet(w, A) = SumFunctionOnSet(w, S)
  BY SumOfPart
<1> QED BY <1>2, <1>3

-----------------------------------------------------------------------------
(* Ranks in a strict order.                                                 *)

\* R is a strict total order of S.
Orders(R, S) ==
    /\ \A x \in S : <<x, x>> \notin R
    /\ \A x, y, z \in S : <<x, y>> \in R /\ <<y, z>> \in R => <<x, z>> \in R
    /\ \A x, y \in S : x = y \/ <<x, y>> \in R \/ <<y, x>> \in R

\* Those of S that come before x.
Ahead(R, S, x) == {y \in S : <<y, x>> \in R}

\* A finite set that is not empty has a last element.
LEMMA LastOne ==
    ASSUME NEW R, NEW S, IsFiniteSet(S), S # {}, Orders(R, S)
    PROVE  \E x \in S : \A y \in S \ {x} : <<y, x>> \in R
<1> DEFINE Last(s) == \E x \in s : \A y \in s \ {x} : <<y, x>> \in R
           Bad == {s \in SUBSET S : s # {} /\ ~Last(s)}
<1>1. ASSUME Bad # {} PROVE FALSE
  <2>1. PICK s \in Bad : IsFiniteSet(s) /\ \A x \in s : s \ {x} \notin Bad /\ IsFiniteSet(s \ {x})
    <3>1. Bad \subseteq SUBSET S
      OBVIOUS
    <3> HIDE DEF Bad
    <3> QED BY <1>1, <3>1, SmallestSet
  <2>2. PICK z \in s : TRUE
    BY <2>1
  <2>3. CASE s \ {z} = {}
    BY <2>1, <2>2, <2>3
  <2>4. CASE s \ {z} # {}
    <3>1. PICK x \in s \ {z} : \A y \in (s \ {z}) \ {x} : <<y, x>> \in R
      BY <2>1, <2>2, <2>4
    <3>2. x \in S /\ z \in S /\ s \subseteq S /\ x # z
      BY <2>1, <2>2, <3>1
    <3>3. CASE <<z, x>> \in R
      BY <2>1, <3>1, <3>3
    <3>4. CASE <<x, z>> \in R
      <4>1. \A y \in s \ {z} : <<y, z>> \in R
        BY <3>1, <3>2, <3>4 DEF Orders
      <4> QED BY <2>1, <2>2, <4>1
    <3> QED BY <3>2, <3>3, <3>4 DEF Orders
  <2> QED BY <2>3, <2>4
<1> QED BY <1>1

\* As many come with fewer than n before them as n says.
LEMMA FirstOnes ==
    ASSUME NEW R, NEW S, IsFiniteSet(S), Orders(R, S), NEW n \in Nat, n <= Cardinality(S)
    PROVE  Cardinality({x \in S : Cardinality(Ahead(R, S, x)) < n}) = n
<1> DEFINE First(s, k) == {x \in s : Cardinality(Ahead(R, s, x)) < k}
           Good(s) == \A k \in 0 .. Cardinality(s) : Cardinality(First(s, k)) = k
           Bad == {s \in SUBSET S : ~Good(s)}
<1>1. ASSUME Bad # {} PROVE FALSE
  <2>1. PICK s \in Bad : IsFiniteSet(s) /\ \A x \in s : s \ {x} \notin Bad /\ IsFiniteSet(s \ {x})
    <3>1. Bad \subseteq SUBSET S
      OBVIOUS
    <3> HIDE DEF Bad
    <3> QED BY <1>1, <3>1, SmallestSet
  <2>2. s \subseteq S /\ Orders(R, s)
    BY <2>1 DEF Orders
  <2>3. CASE s = {}
    <3>1. Cardinality(s) = 0
      BY <2>3, FS_EmptySet
    <3>2. First(s, 0) = {}
      BY <2>3
    <3>3. ASSUME NEW k \in 0 .. 0 PROVE Cardinality(First(s, k)) = k
      <4>1. k = 0
        OBVIOUS
      <4> HIDE DEF First
      <4> QED BY <3>2, <4>1, FS_EmptySet
    <3> QED BY <2>1, <3>1, <3>3
  <2>4. CASE s # {}
    <3>1. PICK z \in s : \A y \in s \ {z} : <<y, z>> \in R
      BY <2>1, <2>2, <2>4, LastOne
    <3> DEFINE r == s \ {z}
    <3>2. IsFiniteSet(r) /\ Cardinality(r) = Cardinality(s) - 1 /\ Cardinality(s) \in Nat
      BY <2>1, <3>1, FS_RemoveElement, FS_CardinalityType
    <3>3. Good(r)
      BY <2>1, <3>1
    <3>4. Ahead(R, s, z) = r
      BY <2>2, <3>1 DEF Ahead, Orders
    <3>5. \A x \in r : Ahead(R, s, x) = Ahead(R, r, x)
      BY <2>2, <3>1 DEF Ahead, Orders
    <3>6. ASSUME NEW k \in 0 .. Cardinality(s) - 1 PROVE Cardinality(First(s, k)) = k
      <4>1. z \notin First(s, k)
        <5>1. Cardinality(Ahead(R, s, z)) = Cardinality(s) - 1
          BY <3>2, <3>4
        <5>2. ~(Cardinality(s) - 1 < k)
          BY <3>2
        <5> QED BY <5>1, <5>2
      <4>2. First(s, k) = First(r, k)
        BY <3>1, <3>5, <4>1
      <4> QED BY <3>2, <3>3, <4>2
    <3>7. \A x \in s : Cardinality(Ahead(R, s, x)) < Cardinality(s)
      <4>1. ASSUME NEW x \in r PROVE Cardinality(Ahead(R, s, x)) < Cardinality(s)
        <5>1. Ahead(R, s, x) \subseteq r
          BY <3>5 DEF Ahead
        <5>2. Cardinality(Ahead(R, s, x)) <= Cardinality(r) /\ Cardinality(Ahead(R, s, x)) \in Nat
          BY <3>2, <5>1, FS_Subset, FS_CardinalityType
        <5> QED BY <3>2, <5>2
      <4>2. Cardinality(Ahead(R, s, z)) < Cardinality(s)
        BY <3>2, <3>4
      <4> QED BY <4>1, <4>2
    <3>8. First(s, Cardinality(s)) = s
      BY <3>7
    <3>9. \A k \in 0 .. Cardinality(s) : Cardinality(First(s, k)) = k
      <4> SUFFICES ASSUME NEW k \in 0 .. Cardinality(s) PROVE Cardinality(First(s, k)) = k
        OBVIOUS
      <4>1. k \in 0 .. Cardinality(s) - 1 \/ k = Cardinality(s)
        BY <3>2
      <4> HIDE DEF First
      <4> QED BY <3>6, <3>8, <4>1
    <3> QED BY <2>1, <3>9
  <2> QED BY <2>3, <2>4
<1>2. Good(S)
  BY <1>1
<1>3. n \in 0 .. Cardinality(S)
  BY FS_CardinalityType
<1> QED BY <1>2, <1>3

\* The sum of one.
LEMMA SumOne == ASSUME NEW w, NEW x, w[x] \in Int PROVE SumFunctionOnSet(w, {x}) = w[x]
<1>1. IsFiniteSet({x}) /\ x \in {x} /\ \A y \in {x} : w[y] \in Int
  BY FS_Singleton
<1>2. SumFunctionOnSet(w, {x}) = w[x] + SumFunctionOnSet(w, {x} \ {x})
  BY <1>1, SumTakes
<1>3. {x} \ {x} = {}
  OBVIOUS
<1> QED BY <1>2, <1>3, SumEmpty

-----------------------------------------------------------------------------
(* Two ways to count.                                                      *)

\* Two finite sets of which one is named by the other have as many elements.
LEMMA OneToOne ==
    ASSUME NEW S, IsFiniteSet(S), NEW T, NEW f, f = [x \in S |-> f[x]],
           \A x \in S : f[x] \in T, \A y \in T : \E x \in S : f[x] = y,
           \A x, y \in S : f[x] = f[y] => x = y
    PROVE  IsFiniteSet(T) /\ Cardinality(T) = Cardinality(S)
<1>1. f \in [S -> T]
  OBVIOUS
<1>2. f \in Surjection(S, T) /\ f \in Injection(S, T)
  BY <1>1 DEF Surjection, Injection, IsInjective
<1> QED BY <1>2, FS_Surjection

\* How many elements of S have the key k.
CountOf(S, key, k) == Cardinality({x \in S : key[x] = k})

\* To count by a key is to count.
LEMMA CountByKey ==
    ASSUME NEW S, IsFiniteSet(S), NEW K, IsFiniteSet(K), NEW key, \A x \in S : key[x] \in K,
           NEW w, \A k \in K : w[k] = CountOf(S, key, k)
    PROVE  SumFunctionOnSet(w, K) = Cardinality(S)
<1> DEFINE count(s) == [k \in K |-> Cardinality({x \in s : key[x] = k})]
           Bad == {s \in SUBSET S : SumFunctionOnSet(count(s), K) # Cardinality(s)}
<1>0. \A s \in SUBSET S : IsFiniteSet(s) /\ Cardinality(s) \in Nat
  BY FS_Subset, FS_CardinalityType
<1>1. ASSUME Bad # {} PROVE FALSE
  <2>1. PICK s \in Bad : IsFiniteSet(s) /\ \A x \in s : s \ {x} \notin Bad /\ IsFiniteSet(s \ {x})
    <3>1. Bad \subseteq SUBSET S
      OBVIOUS
    <3> HIDE DEF Bad
    <3> QED BY <1>1, <3>1, SmallestSet
  <2>2. s \in SUBSET S /\ SumFunctionOnSet(count(s), K) # Cardinality(s)
    BY <2>1
  <2>3. CASE s = {}
    <3>1. \A k \in K : count(s)[k] = 0
      <4>1. \A k \in K : {x \in s : key[x] = k} = {}
        BY <2>3
      <4> QED BY <4>1, FS_EmptySet
    <3> DEFINE c == count(s)
    <3>2. \A k \in K : c[k] = 0
      BY <3>1
    <3>3. SumFunctionOnSet(c, K) # Cardinality(s)
      BY <2>2
    <3> HIDE DEF c, count
    <3>4. SumFunctionOnSet(c, {}) = SumFunctionOnSet(c, K)
      BY <3>2, SumOfPart
    <3>5. Cardinality(s) = 0
      BY <2>3, FS_EmptySet
    <3> QED BY <3>3, <3>4, <3>5, SumEmpty
  <2>4. CASE s # {}
    <3>1. PICK x \in s : TRUE
      BY <2>4
    <3> DEFINE r == s \ {x}
               c == count(s)
               b == count(r)
    <3>2. r \in SUBSET S /\ IsFiniteSet(r) /\ key[x] \in K
      BY <2>1, <2>2
    <3>3. SumFunctionOnSet(b, K) = Cardinality(r)
      BY <2>1, <2>2, <3>1
    <3>4. Cardinality(s) = Cardinality(r) + 1
      <4>1. Cardinality(r) = Cardinality(s) - 1
        BY <2>1, <3>1, FS_RemoveElement
      <4> QED BY <1>0, <2>2, <4>1
    <3>5. \A k \in K : c[k] \in Int /\ b[k] \in Int
      <4>1. \A k \in K : {y \in s : key[y] = k} \in SUBSET S /\ {y \in r : key[y] = k} \in SUBSET S
        BY <2>2
      <4> QED BY <1>0, <4>1
    <3>6. \A k \in K \ {key[x]} : c[k] = b[k]
      <4>1. \A k \in K \ {key[x]} : {y \in s : key[y] = k} = {y \in r : key[y] = k}
        OBVIOUS
      <4> QED BY <4>1
    <3>7. c[key[x]] = b[key[x]] + 1
      <4> DEFINE C == {y \in s : key[y] = key[x]}
                 B == {y \in r : key[y] = key[x]}
      <4>1. C \in SUBSET S /\ B \in SUBSET S /\ B = C \ {x} /\ x \in C
        BY <2>2, <3>1
      <4>2. c[key[x]] = Cardinality(C) /\ b[key[x]] = Cardinality(B)
        BY <3>2
      <4> HIDE DEF C, B
      <4>3. Cardinality(B) = Cardinality(C) - 1 /\ Cardinality(C) \in Nat
        BY <1>0, <4>1, FS_RemoveElement
      <4> QED BY <4>2, <4>3
    <3> HIDE DEF c, b
    <3>8. SumFunctionOnSet(c, K) = SumFunctionOnSet(b, K) + (c[key[x]] - b[key[x]])
      BY <3>2, <3>5, <3>6, SumChanges
    <3>9. SumFunctionOnSet(c, K) = Cardinality(r) + 1
      <4>1. Cardinality(r) \in Nat
        BY <1>0, <3>2
      <4> QED BY <3>2, <3>3, <3>5, <3>7, <3>8, <4>1
    <3>10. SumFunctionOnSet(c, K) # Cardinality(s)
      BY <2>2 DEF c
    <3> QED BY <3>4, <3>9, <3>10
  <2> QED BY <2>3, <2>4
<1>2. SumFunctionOnSet(count(S), K) = Cardinality(S)
  BY <1>1
<1> DEFINE c == count(S)
<1>3. \A k \in K : w[k] = c[k]
  BY DEF CountOf
<1>4. SumFunctionOnSet(c, K) = Cardinality(S)
  BY <1>2
<1> HIDE DEF c, Bad
<1>5. SumFunctionOnSet(w, K) = SumFunctionOnSet(c, K)
  BY <1>3, SumSame
<1> QED BY <1>4, <1>5

=============================================================================
