---------------------------- MODULE SumTheorems ----------------------------
(***************************************************************************)
(* What SumFunctionOnSet computes for every finite set.  The contracts and *)
(* the accounts of a process are compared with sums over holders, events   *)
(* and outputs; these are the facts that their proofs use.                 *)
(*                                                                         *)
(* Induction is by a least counterexample: a set of natural numbers, or of *)
(* finite sets, that is not empty has a minimal element.                   *)
(***************************************************************************)
EXTENDS Integers, Functions, FiniteSetTheorems, WellFoundedInduction, TLAPS

\* A set of natural numbers that is not empty has a least element.
LEMMA LeastNumber ==
  ASSUME NEW T, T \subseteq Nat, T # {}
  PROVE  \E n \in T : \A m \in T : n <= m
<1>1. PICK n \in T : \A m \in T : ~ (<<m, n>> \in OpToRel(<, Nat))
  BY NatLessThanWellFounded, WFMin
<1>2. \A m \in T : ~ (m < n)
  BY <1>1 DEF OpToRel
<1> QED BY <1>2

\* Induction over the finite sets below S, without a predicate as a parameter.
LEMMA SetInduction ==
  ASSUME NEW S, IsFiniteSet(S), NEW Q,
         \A T \in SUBSET S : (\A x \in T : T \ {x} \in Q) => T \in Q
  PROVE  \A T \in SUBSET S : T \in Q
<1> DEFINE Bad == {T \in SUBSET S : T \notin Q}
           Sizes == {n \in Nat : \E T \in Bad : Cardinality(T) = n}
<1> SUFFICES ASSUME Bad # {} PROVE FALSE
  OBVIOUS
<1>1. \A T \in Bad : IsFiniteSet(T) /\ Cardinality(T) \in Nat
  BY FS_Subset, FS_CardinalityType
<1>2. PICK n \in Sizes : \A m \in Sizes : n <= m
  <2>1. Sizes # {} /\ Sizes \subseteq Nat
    BY <1>1
  <2> QED BY <2>1, LeastNumber
<1>3. PICK T \in Bad : Cardinality(T) = n
  OBVIOUS
<1>4. \A x \in T : T \ {x} \in Q
  <2> SUFFICES ASSUME NEW x \in T, T \ {x} \notin Q PROVE FALSE
    OBVIOUS
  <2>1. T \ {x} \in Bad
    OBVIOUS
  <2>2. Cardinality(T \ {x}) = n - 1 /\ n \in Nat
    BY <1>1, <1>3, FS_RemoveElement
  <2>3. n - 1 \in Sizes
    BY <1>1, <2>1, <2>2
  <2> QED BY <1>2, <2>2, <2>3
<1> QED BY <1>4

-----------------------------------------------------------------------------
(* The recursion of SumFunctionOnSet has a solution on every finite set.    *)

Pick(s) == CHOOSE x \in s : TRUE

\* the equation that MapThenFoldSet states, for a sum over sets in D
Solves(h, f, D) ==
  h = [s \in D |-> IF s = {} THEN 0 ELSE f[Pick(s)] + h[s \ {Pick(s)}]]

\* the sets below S with at most n elements
Level(S, n) == {s \in SUBSET S : Cardinality(s) <= n}

\* The element that is taken first is one of the set.
LEMMA PickFact == ASSUME NEW s, s # {} PROVE Pick(s) \in s
BY DEF Pick

\* A solution for sets of at most n elements can be extended to one more.
LEMMA LevelStep ==
  ASSUME NEW S, IsFiniteSet(S), NEW f, NEW n \in Nat,
         \E h : Solves(h, f, Level(S, n))
  PROVE  \E h : Solves(h, f, Level(S, n + 1))
<1>1. PICK h : Solves(h, f, Level(S, n))
  OBVIOUS
<1> DEFINE k == [s \in Level(S, n + 1) |-> IF s = {} THEN 0 ELSE f[Pick(s)] + h[s \ {Pick(s)}]]
<1>2. \A s \in Level(S, n) : s \in Level(S, n + 1) /\ h[s] = k[s]
  <2> SUFFICES ASSUME NEW s \in Level(S, n)
               PROVE  s \in Level(S, n + 1) /\ h[s] = k[s]
    OBVIOUS
  <2>1. s \in SUBSET S /\ IsFiniteSet(s) /\ Cardinality(s) \in Nat /\ Cardinality(s) <= n
    BY FS_Subset, FS_CardinalityType DEF Level
  <2>2. s \in Level(S, n + 1)
    BY <2>1 DEF Level
  <2>3. h[s] = IF s = {} THEN 0 ELSE f[Pick(s)] + h[s \ {Pick(s)}]
    BY <1>1 DEF Solves
  <2> QED BY <2>2, <2>3
<1>3. \A s \in Level(S, n + 1) : s # {} => s \ {Pick(s)} \in Level(S, n)
  <2> SUFFICES ASSUME NEW s \in Level(S, n + 1), s # {}
               PROVE  s \ {Pick(s)} \in Level(S, n)
    OBVIOUS
  <2>1. s \in SUBSET S /\ IsFiniteSet(s) /\ Cardinality(s) \in Nat /\ Cardinality(s) <= n + 1
    BY FS_Subset, FS_CardinalityType DEF Level
  <2>2. Cardinality(s \ {Pick(s)}) = Cardinality(s) - 1
    BY <2>1, PickFact, FS_RemoveElement
  <2> QED BY <2>1, <2>2 DEF Level
<1>4. \A s \in Level(S, n + 1) : s # {} => h[s \ {Pick(s)}] = k[s \ {Pick(s)}]
  BY <1>2, <1>3
<1>5. k = [s \in Level(S, n + 1) |-> IF s = {} THEN 0 ELSE f[Pick(s)] + k[s \ {Pick(s)}]]
  <2>1. \A s \in Level(S, n + 1) :
          (IF s = {} THEN 0 ELSE f[Pick(s)] + h[s \ {Pick(s)}])
            = (IF s = {} THEN 0 ELSE f[Pick(s)] + k[s \ {Pick(s)}])
    BY <1>4
  <2> QED BY <2>1
<1> HIDE DEF k
<1> QED BY <1>5 DEF Solves

\* The recursion of the sum has a solution on the subsets of a finite set.
LEMMA SolutionExists ==
  ASSUME NEW S, IsFiniteSet(S), NEW f
  PROVE  \E h : Solves(h, f, SUBSET S)
<1> DEFINE Bad == {n \in Nat : ~ \E h : Solves(h, f, Level(S, n))}
<1>1. 0 \notin Bad
  <2> DEFINE h == [s \in Level(S, 0) |-> 0]
  <2>1. \A s \in Level(S, 0) : s = {}
    <3> SUFFICES ASSUME NEW s \in Level(S, 0) PROVE s = {}
      OBVIOUS
    <3>1. IsFiniteSet(s) /\ Cardinality(s) \in Nat /\ Cardinality(s) <= 0
      BY FS_Subset, FS_CardinalityType DEF Level
    <3> QED BY <3>1, FS_EmptySet
  <2>2. h = [s \in Level(S, 0) |-> IF s = {} THEN 0 ELSE f[Pick(s)] + h[s \ {Pick(s)}]]
    BY <2>1
  <2> HIDE DEF h
  <2>3. Solves(h, f, Level(S, 0))
    BY <2>2 DEF Solves
  <2> QED BY <2>3
<1>2. Bad = {}
  <2> SUFFICES ASSUME Bad # {} PROVE FALSE
    OBVIOUS
  <2>1. PICK n \in Bad : \A m \in Bad : n <= m
    <3> HIDE DEF Bad
    <3>1. Bad \subseteq Nat
      BY DEF Bad
    <3> QED BY <3>1, LeastNumber
  <2>2. n \in Nat /\ n # 0
    BY <1>1
  <2>3. n - 1 \in Nat /\ n - 1 \notin Bad
    BY <2>1, <2>2
  <2>4. \E h : Solves(h, f, Level(S, n - 1))
    BY <2>3
  <2>5. \E h : Solves(h, f, Level(S, (n - 1) + 1))
    BY <2>3, <2>4, LevelStep
  <2>6. (n - 1) + 1 = n
    BY <2>2
  <2> QED BY <2>1, <2>5, <2>6
<1>3. Cardinality(S) \in Nat
  BY FS_CardinalityType
<1>4. \E h : Solves(h, f, Level(S, Cardinality(S)))
  BY <1>2, <1>3
<1>5. Level(S, Cardinality(S)) = SUBSET S
  BY FS_Subset DEF Level
<1> QED BY <1>4, <1>5

\* The sum is the value of a solution.
LEMMA SumSolution ==
  ASSUME NEW S, IsFiniteSet(S), NEW f
  PROVE  \E h : Solves(h, f, SUBSET S) /\ SumFunctionOnSet(f, S) = h[S]
<1> DEFINE P(h) == h = [s \in SUBSET S |-> IF s = {} THEN 0
                        ELSE f[CHOOSE x \in s : TRUE] + h[s \ {CHOOSE x \in s : TRUE}]]
<1>1. \E h : P(h)
  <2>1. PICK h : Solves(h, f, SUBSET S)
    BY SolutionExists
  <2>2. P(h)
    BY <2>1, Zenon DEF Solves, Pick
  <2> QED BY <2>2
<1> DEFINE g == CHOOSE h : P(h)
<1>2. P(g)
  BY <1>1
<1>3. SumFunctionOnSet(f, S) = g[S]
  BY DEF SumFunctionOnSet, FoldFunctionOnSet, MapThenFoldSet
<1>4. Solves(g, f, SUBSET S)
  <2> HIDE DEF g
  <2> QED BY <1>2 DEF Solves, Pick
<1> QED BY <1>3, <1>4

\* Two solutions agree where the functions they sum do.
LEMMA SolutionsAgree ==
  ASSUME NEW S, IsFiniteSet(S), NEW T, T \subseteq S, NEW f, NEW g, NEW h, NEW k,
         Solves(h, f, SUBSET S), Solves(k, g, SUBSET T), \A x \in T : f[x] = g[x]
  PROVE  h[T] = k[T]
<1> DEFINE Q == {s \in SUBSET T : h[s] = k[s]}
<1>1. ASSUME NEW s \in SUBSET T, \A x \in s : s \ {x} \in Q
      PROVE  s \in Q
  <2>1. h[s] = IF s = {} THEN 0 ELSE f[Pick(s)] + h[s \ {Pick(s)}]
    BY DEF Solves
  <2>2. k[s] = IF s = {} THEN 0 ELSE g[Pick(s)] + k[s \ {Pick(s)}]
    BY DEF Solves
  <2>3. CASE s = {}
    BY <2>1, <2>2, <2>3
  <2>4. CASE s # {}
    <3>1. Pick(s) \in s /\ Pick(s) \in T
      BY <2>4, PickFact
    <3>2. h[s \ {Pick(s)}] = k[s \ {Pick(s)}] /\ f[Pick(s)] = g[Pick(s)]
      BY <1>1, <3>1
    <3> QED BY <2>1, <2>2, <2>4, <3>2
  <2> QED BY <2>3, <2>4
<1>2. IsFiniteSet(T)
  BY FS_Subset
<1>3. \A s \in SUBSET T : s \in Q
  <2> HIDE DEF Q
  <2> QED BY <1>1, <1>2, SetInduction
<1> QED BY <1>3

-----------------------------------------------------------------------------
(* The facts about sums.                                                    *)

\* The sum over no elements is zero.
THEOREM SumEmpty == \A f : SumFunctionOnSet(f, {}) = 0
<1> TAKE f
<1>1. PICK h : Solves(h, f, SUBSET {}) /\ SumFunctionOnSet(f, {}) = h[{}]
  BY SumSolution, FS_EmptySet
<1> QED BY <1>1 DEF Solves

\* Functions that agree on a set have the same sum over it.
THEOREM SumEqual ==
  ASSUME NEW S, IsFiniteSet(S), NEW f, NEW g, \A x \in S : f[x] = g[x]
  PROVE  SumFunctionOnSet(f, S) = SumFunctionOnSet(g, S)
<1>1. PICK h : Solves(h, f, SUBSET S) /\ SumFunctionOnSet(f, S) = h[S]
  BY SumSolution
<1>2. PICK k : Solves(k, g, SUBSET S) /\ SumFunctionOnSet(g, S) = k[S]
  BY SumSolution
<1> QED BY <1>1, <1>2, SolutionsAgree

\* The element that is chosen first.
LEMMA SumPick ==
  ASSUME NEW S, IsFiniteSet(S), S # {}, NEW f
  PROVE  SumFunctionOnSet(f, S) = f[Pick(S)] + SumFunctionOnSet(f, S \ {Pick(S)})
<1> DEFINE T == S \ {Pick(S)}
<1>1. IsFiniteSet(T)
  BY FS_RemoveElement
<1>2. PICK h : Solves(h, f, SUBSET S) /\ SumFunctionOnSet(f, S) = h[S]
  BY SumSolution
<1>3. PICK k : Solves(k, f, SUBSET T) /\ SumFunctionOnSet(f, T) = k[T]
  BY <1>1, SumSolution
<1>4. h[T] = k[T]
  <2>1. T \subseteq S
    OBVIOUS
  <2>2. Solves(h, f, SUBSET S) /\ Solves(k, f, SUBSET T)
    BY <1>2, <1>3
  <2> HIDE DEF T
  <2> QED BY <2>1, <2>2, SolutionsAgree
<1>5. h[S] = f[Pick(S)] + h[T]
  BY <1>2 DEF Solves
<1> QED BY <1>2, <1>3, <1>4, <1>5

\* A sum of integers is an integer.
THEOREM SumInt ==
  ASSUME NEW S, IsFiniteSet(S), NEW f, \A x \in S : f[x] \in Int
  PROVE  SumFunctionOnSet(f, S) \in Int
<1> DEFINE Q == {s \in SUBSET S : SumFunctionOnSet(f, s) \in Int}
<1>1. ASSUME NEW s \in SUBSET S, \A x \in s : s \ {x} \in Q
      PROVE  s \in Q
  <2>1. CASE s = {}
    BY <2>1, SumEmpty
  <2>2. CASE s # {}
    <3>1. IsFiniteSet(s) /\ Pick(s) \in s
      BY <2>2, PickFact, FS_Subset
    <3>2. SumFunctionOnSet(f, s \ {Pick(s)}) \in Int /\ f[Pick(s)] \in Int
      BY <1>1, <3>1
    <3>3. SumFunctionOnSet(f, s) = f[Pick(s)] + SumFunctionOnSet(f, s \ {Pick(s)})
      BY <2>2, <3>1, SumPick
    <3> QED BY <3>2, <3>3
  <2> QED BY <2>1, <2>2
<1>2. \A s \in SUBSET S : s \in Q
  <2> HIDE DEF Q
  <2> QED BY <1>1, SetInduction
<1> QED BY <1>2

\* A sum of natural numbers is a natural number.
THEOREM SumNat ==
  ASSUME NEW S, IsFiniteSet(S), NEW f, \A x \in S : f[x] \in Nat
  PROVE  SumFunctionOnSet(f, S) \in Nat
<1> DEFINE Q == {s \in SUBSET S : SumFunctionOnSet(f, s) \in Nat}
<1>1. ASSUME NEW s \in SUBSET S, \A x \in s : s \ {x} \in Q
      PROVE  s \in Q
  <2>1. CASE s = {}
    BY <2>1, SumEmpty
  <2>2. CASE s # {}
    <3>1. IsFiniteSet(s) /\ Pick(s) \in s
      BY <2>2, PickFact, FS_Subset
    <3>2. SumFunctionOnSet(f, s \ {Pick(s)}) \in Nat /\ f[Pick(s)] \in Nat
      BY <1>1, <3>1
    <3>3. SumFunctionOnSet(f, s) = f[Pick(s)] + SumFunctionOnSet(f, s \ {Pick(s)})
      BY <2>2, <3>1, SumPick
    <3> QED BY <3>2, <3>3
  <2> QED BY <2>1, <2>2
<1>2. \A s \in SUBSET S : s \in Q
  <2> HIDE DEF Q
  <2> QED BY <1>1, SetInduction
<1> QED BY <1>2

\* A sum of zeros is zero.
THEOREM SumZero ==
  ASSUME NEW S, IsFiniteSet(S), NEW f, \A x \in S : f[x] = 0
  PROVE  SumFunctionOnSet(f, S) = 0
<1> DEFINE Q == {s \in SUBSET S : SumFunctionOnSet(f, s) = 0}
<1>1. ASSUME NEW s \in SUBSET S, \A x \in s : s \ {x} \in Q
      PROVE  s \in Q
  <2>1. CASE s = {}
    BY <2>1, SumEmpty
  <2>2. CASE s # {}
    <3>1. IsFiniteSet(s) /\ Pick(s) \in s
      BY <2>2, PickFact, FS_Subset
    <3>2. SumFunctionOnSet(f, s \ {Pick(s)}) = 0 /\ f[Pick(s)] = 0
      BY <1>1, <3>1
    <3>3. SumFunctionOnSet(f, s) = f[Pick(s)] + SumFunctionOnSet(f, s \ {Pick(s)})
      BY <2>2, <3>1, SumPick
    <3> QED BY <3>2, <3>3
  <2> QED BY <2>1, <2>2
<1>2. \A s \in SUBSET S : s \in Q
  <2> HIDE DEF Q
  <2> QED BY <1>1, SetInduction
<1> QED BY <1>2

\* Any element may be taken out first: the order does not matter.
THEOREM SumRemove ==
  ASSUME NEW S, IsFiniteSet(S), NEW f, \A x \in S : f[x] \in Int, NEW e \in S
  PROVE  SumFunctionOnSet(f, S) = f[e] + SumFunctionOnSet(f, S \ {e})
<1> DEFINE Sum(s) == SumFunctionOnSet(f, s)
           Q == {s \in SUBSET S : \A y \in s : Sum(s) = f[y] + Sum(s \ {y})}
<1>1. ASSUME NEW s \in SUBSET S, \A x \in s : s \ {x} \in Q
      PROVE  s \in Q
  <2> SUFFICES ASSUME NEW y \in s PROVE Sum(s) = f[y] + Sum(s \ {y})
    OBVIOUS
  <2> DEFINE p == Pick(s)
             rest == s \ {p, y}
  <2>1. p \in s /\ IsFiniteSet(s) /\ IsFiniteSet(s \ {p}) /\ IsFiniteSet(s \ {y})
    BY PickFact, FS_Subset
  <2>2. Sum(s) = f[p] + Sum(s \ {p})
    BY <2>1, SumPick
  <2>3. CASE p = y
    BY <2>2, <2>3
  <2>4. CASE p # y
    <3>1. s \ {p} \in Q /\ s \ {y} \in Q
      BY <1>1, <2>1
    <3>2. (s \ {p}) \ {y} = rest /\ (s \ {y}) \ {p} = rest /\ y \in s \ {p} /\ p \in s \ {y}
      BY <2>1, <2>4
    <3>3. Sum(s \ {p}) = f[y] + Sum(rest)
      BY <3>1, <3>2
    <3>4. Sum(s \ {y}) = f[p] + Sum(rest)
      BY <3>1, <3>2
    <3>5. f[p] \in Int /\ f[y] \in Int
      BY <2>1
    <3>6. Sum(rest) \in Int
      <4>1. IsFiniteSet(rest) /\ \A x \in rest : f[x] \in Int
        BY FS_Subset
      <4> QED BY <4>1, SumInt
    <3> HIDE DEF Sum, rest, p
    <3> QED BY <2>2, <3>3, <3>4, <3>5, <3>6
  <2> QED BY <2>3, <2>4
<1>2. \A s \in SUBSET S : s \in Q
  <2> HIDE DEF Q
  <2> QED BY <1>1, SetInduction
<1> QED BY <1>2

\* An element that is added adds its value.
THEOREM SumAdd ==
  ASSUME NEW S, IsFiniteSet(S), NEW f, NEW e, e \notin S, \A x \in S \cup {e} : f[x] \in Int
  PROVE  SumFunctionOnSet(f, S \cup {e}) = f[e] + SumFunctionOnSet(f, S)
<1>1. IsFiniteSet(S \cup {e}) /\ e \in S \cup {e} /\ (S \cup {e}) \ {e} = S
  BY FS_AddElement
<1>2. SumFunctionOnSet(f, S \cup {e}) = f[e] + SumFunctionOnSet(f, (S \cup {e}) \ {e})
  BY <1>1, SumRemove
<1> QED BY <1>1, <1>2

\* A function that differs in one place differs as much in its sum.
THEOREM SumChange ==
  ASSUME NEW S, IsFiniteSet(S), NEW f, NEW g, NEW e \in S,
         \A x \in S : f[x] \in Int /\ g[x] \in Int,
         \A x \in S \ {e} : f[x] = g[x]
  PROVE  SumFunctionOnSet(g, S) = SumFunctionOnSet(f, S) + g[e] - f[e]
<1> DEFINE T == S \ {e}
<1>1. IsFiniteSet(T) /\ \A x \in T : f[x] \in Int
  BY FS_Subset
<1>2. SumFunctionOnSet(f, S) = f[e] + SumFunctionOnSet(f, T)
  BY SumRemove
<1>3. SumFunctionOnSet(g, S) = g[e] + SumFunctionOnSet(g, T)
  BY SumRemove
<1>4. SumFunctionOnSet(f, T) = SumFunctionOnSet(g, T)
  BY <1>1, SumEqual
<1>5. SumFunctionOnSet(f, T) \in Int
  BY <1>1, SumInt
<1> QED BY <1>2, <1>3, <1>4, <1>5

\* A sum of natural numbers over fewer elements is no larger.
THEOREM SumSubset ==
  ASSUME NEW S, IsFiniteSet(S), NEW T \in SUBSET S, NEW f, \A x \in S : f[x] \in Nat
  PROVE  SumFunctionOnSet(f, T) <= SumFunctionOnSet(f, S)
<1> DEFINE Q == {s \in SUBSET S : \A U \in SUBSET s : SumFunctionOnSet(f, U) <= SumFunctionOnSet(f, s)}
<1>1. ASSUME NEW s \in SUBSET S, \A x \in s : s \ {x} \in Q
      PROVE  s \in Q
  <2> SUFFICES ASSUME NEW U \in SUBSET s
               PROVE  SumFunctionOnSet(f, U) <= SumFunctionOnSet(f, s)
    OBVIOUS
  <2>1. IsFiniteSet(s) /\ \A x \in s : f[x] \in Nat /\ f[x] \in Int
    BY FS_Subset
  <2>2. SumFunctionOnSet(f, s) \in Nat
    BY <2>1, SumNat
  <2>3. CASE U = s
    BY <2>2, <2>3
  <2>4. CASE U # s
    <3>1. PICK e \in s : e \notin U
      BY <2>4
    <3>2. SumFunctionOnSet(f, s) = f[e] + SumFunctionOnSet(f, s \ {e})
      BY <2>1, SumRemove
    <3>3. U \in SUBSET (s \ {e})
      BY <3>1
    <3>4. SumFunctionOnSet(f, U) <= SumFunctionOnSet(f, s \ {e})
      BY <1>1, <3>3
    <3>5. IsFiniteSet(U) /\ IsFiniteSet(s \ {e})
      BY <2>1, FS_Subset
    <3>6. SumFunctionOnSet(f, U) \in Nat /\ SumFunctionOnSet(f, s \ {e}) \in Nat
      BY <2>1, <3>5, SumNat
    <3> QED BY <2>1, <3>2, <3>4, <3>6
  <2> QED BY <2>3, <2>4
<1>2. \A s \in SUBSET S : s \in Q
  <2> HIDE DEF Q
  <2> QED BY <1>1, SetInduction
<1> QED BY <1>2

\* A function that is nowhere greater has no greater sum.
THEOREM SumMonotone ==
  ASSUME NEW S, IsFiniteSet(S), NEW f, NEW g,
         \A x \in S : f[x] \in Int /\ g[x] \in Int /\ f[x] <= g[x]
  PROVE  SumFunctionOnSet(f, S) <= SumFunctionOnSet(g, S)
<1> DEFINE Q == {s \in SUBSET S : SumFunctionOnSet(f, s) <= SumFunctionOnSet(g, s)}
<1>1. ASSUME NEW s \in SUBSET S, \A x \in s : s \ {x} \in Q
      PROVE  s \in Q
  <2>1. CASE s = {}
    BY <2>1, SumEmpty
  <2>2. CASE s # {}
    <3> DEFINE p == Pick(s)
    <3>1. IsFiniteSet(s) /\ IsFiniteSet(s \ {p}) /\ p \in s
      BY <2>2, PickFact, FS_Subset
    <3>2. /\ SumFunctionOnSet(f, s) = f[p] + SumFunctionOnSet(f, s \ {p})
          /\ SumFunctionOnSet(g, s) = g[p] + SumFunctionOnSet(g, s \ {p})
      BY <2>2, <3>1, SumPick
    <3>3. SumFunctionOnSet(f, s \ {p}) \in Int /\ SumFunctionOnSet(g, s \ {p}) \in Int
      BY <3>1, SumInt
    <3>4. SumFunctionOnSet(f, s \ {p}) <= SumFunctionOnSet(g, s \ {p})
      BY <1>1, <3>1
    <3>5. f[p] \in Int /\ g[p] \in Int /\ f[p] <= g[p]
      BY <3>1
    <3>6. SumFunctionOnSet(f, s) <= SumFunctionOnSet(g, s)
      BY <3>2, <3>3, <3>4, <3>5
    <3> QED BY <3>6
  <2> QED BY <2>1, <2>2
<1> HIDE DEF Q
<1>2. \A T \in SUBSET S : T \in Q
  BY <1>1, SetInduction
<1> QED BY <1>2 DEF Q
=============================================================================
