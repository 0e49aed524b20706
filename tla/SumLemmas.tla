----------------------------- MODULE SumLemmas ------------------------------
(***************************************************************************)
(* Sums over finite sets: what SumFunctionOnSet, the sum the models of     *)
(* money state their balances with, does when one summand changes.         *)
(*                                                                         *)
(* The provers cannot instantiate an induction theorem over a predicate,   *)
(* so the induction is over a set of sets: in a finite set S, the least    *)
(* member of any collection of its subsets exists.  The fold's recursive   *)
(* function is shown to exist, to be unique and to be the same whatever    *)
(* set it is defined on; the rest are its properties.                      *)
(***************************************************************************)
EXTENDS FiniteSetsExt, FiniteSetTheorems, TLAPS

-----------------------------------------------------------------------------
(* Induction over the subsets of a finite set, for a set of sets.          *)
LEMMA LeastSubset ==
  ASSUME NEW S, IsFiniteSet(S), NEW C, C \subseteq SUBSET S, C # {}
  PROVE  \E T \in C : \A U \in C : U \subseteq T => U = T
<1>1. IsWellFoundedOn(StrictSubsetOrdering(S), SUBSET S)
  BY FS_StrictSubsetOrderingWellFounded, FS_FiniteSubsetsOfFinite
<1>2. PICK T \in C : \A U \in C : ~(<<U, T>> \in StrictSubsetOrdering(S))
  BY <1>1, WFMin, Zenon
<1>3. ASSUME NEW U \in C, U \subseteq T, U # T
      PROVE  FALSE
  <2>1. <<U, T>> \in (SUBSET S) \X (SUBSET S)
    OBVIOUS
  <2>2. <<U, T>> \in StrictSubsetOrdering(S)
    BY <2>1, <1>3 DEF StrictSubsetOrdering
  <2>3. QED
    BY <2>2, <1>2
<1>4. QED
  BY <1>3

LEMMA SubsetInduction ==
  ASSUME NEW S, IsFiniteSet(S), NEW C,
         \A T \in SUBSET S : (\A U \in SUBSET T : U # T => U \in C) => T \in C
  PROVE  \A T \in SUBSET S : T \in C
<1> DEFINE B == {T \in SUBSET S : T \notin C}
<1>1. SUFFICES ASSUME B # {} PROVE FALSE
  OBVIOUS
<1>2. PICK T \in B : \A U \in B : U \subseteq T => U = T
  <2>1. B \subseteq SUBSET S
    OBVIOUS
  <2>2. \E T \in B : \A U \in B : U \subseteq T => U = T
    <3>1. \A D : D \subseteq SUBSET S /\ D # {} =>
                  \E T \in D : \A U \in D : U \subseteq T => U = T
      BY LeastSubset, SMT
    <3> HIDE DEF B
    <3>2. QED
      BY <2>1, <1>1, <3>1, SMT
  <2>3. QED
    BY <2>2
<1>3. \A U \in SUBSET T : U # T => U \in C
  BY <1>2
<1>4. QED
  BY <1>2, <1>3

-----------------------------------------------------------------------------
(* The recursion of the fold.                                              *)
Pick(s) == CHOOSE x \in s : TRUE

Adds(g, f, S) ==
  g = [s \in SUBSET S |-> IF s = {} THEN 0 ELSE f[Pick(s)] + g[s \ {Pick(s)}]]

Adder(f, S) == CHOOSE g : Adds(g, f, S)

LEMMA PickMember ==
  ASSUME NEW s, s # {}
  PROVE  Pick(s) \in s
  BY DEF Pick

LEMMA AdderIsSum ==
  ASSUME NEW f, NEW S
  PROVE  SumFunctionOnSet(f, S) = Adder(f, S)[S]
  BY DEF SumFunctionOnSet, FoldFunctionOnSet, MapThenFoldSet, Adder, Adds, Pick

\* Two functions that satisfy the recursion agree wherever both are defined.
LEMMA AddersAgree ==
  ASSUME NEW f, NEW S, IsFiniteSet(S), NEW R, R \subseteq S,
         NEW g, Adds(g, f, R), NEW h, Adds(h, f, S)
  PROVE  \A s \in SUBSET R : g[s] = h[s]
<1> DEFINE C == {s \in SUBSET R : g[s] = h[s]}
<1>1. IsFiniteSet(R)
  BY FS_Subset
<1>2. ASSUME NEW T \in SUBSET R, \A U \in SUBSET T : U # T => U \in C
      PROVE  T \in C
  <2>1. CASE T = {}
    BY <2>1 DEF Adds
  <2>2. CASE T # {}
    <3>1. Pick(T) \in T
      BY <2>2, PickMember
    <3>2. g[T \ {Pick(T)}] = h[T \ {Pick(T)}]
      BY <3>1, <1>2
    <3>3. /\ g[T] = f[Pick(T)] + g[T \ {Pick(T)}]
          /\ h[T] = f[Pick(T)] + h[T \ {Pick(T)}]
      BY <2>2 DEF Adds
    <3>4. QED
      BY <3>2, <3>3
  <2>3. QED
    BY <2>1, <2>2
<1>3. \A s \in SUBSET R : s \in C
  <2> HIDE DEF C
  <2> QED BY <1>1, <1>2, SubsetInduction, Zenon
<1>4. QED
  BY <1>3

\* The recursion has a solution over every finite set.
LEMMA AdderExists ==
  ASSUME NEW f, NEW S, IsFiniteSet(S)
  PROVE  \A R \in SUBSET S : Adds(Adder(f, R), f, R)
<1> DEFINE C == {R \in SUBSET S : Adds(Adder(f, R), f, R)}
<1>1. ASSUME NEW R \in SUBSET S, \A U \in SUBSET R : U # R => U \in C
      PROVE  R \in C
  <2> DEFINE rest(s) == s \ {Pick(s)}
             h == [s \in SUBSET R |->
                     IF s = {} THEN 0 ELSE f[Pick(s)] + Adder(f, rest(s))[rest(s)]]
  <2>1. ASSUME NEW s \in SUBSET R, s # {}
        PROVE  h[rest(s)] = Adder(f, rest(s))[rest(s)]
    <3>1. Pick(s) \in s
      BY <2>1, PickMember
    <3>2. /\ rest(s) \in SUBSET R
          /\ Adds(Adder(f, rest(s)), f, rest(s))
      BY <3>1, <1>1
    <3>3. CASE rest(s) = {}
      <4>1. h[rest(s)] = 0
        BY <3>3
      <4>2. Adder(f, rest(s))[rest(s)] = 0
        BY <3>2, <3>3 DEF Adds
      <4>3. QED
        BY <4>1, <4>2
    <3>4. CASE rest(s) # {}
      <4> DEFINE u == rest(s)
      <4>1. Pick(u) \in u
        BY <3>4, PickMember
      <4>2. /\ rest(u) \in SUBSET R
            /\ rest(u) # R
            /\ rest(u) \subseteq u
            /\ IsFiniteSet(u)
        BY <4>1, <3>2, FS_Subset
      <4>3. Adds(Adder(f, rest(u)), f, rest(u))
        BY <4>2, <1>1
      <4>4. Adder(f, rest(u))[rest(u)] = Adder(f, u)[rest(u)]
        <5> HIDE DEF rest, u
        <5>1. \A x \in SUBSET rest(u) : Adder(f, rest(u))[x] = Adder(f, u)[x]
          BY <4>2, <4>3, <3>2, AddersAgree DEF u
        <5>2. QED
          BY <5>1
      <4>5. Adder(f, u)[u] = f[Pick(u)] + Adder(f, u)[rest(u)]
        BY <3>2, <3>4 DEF Adds
      <4>6. h[u] = f[Pick(u)] + Adder(f, rest(u))[rest(u)]
        BY <3>2, <3>4
      <4>7. QED
        BY <4>4, <4>5, <4>6
    <3>5. QED
      BY <3>3, <3>4
  <2>2. Adds(h, f, R)
    <3>1. h = [s \in SUBSET R |-> IF s = {} THEN 0 ELSE f[Pick(s)] + h[rest(s)]]
      <4>1. \A s \in SUBSET R :
              (IF s = {} THEN 0 ELSE f[Pick(s)] + Adder(f, rest(s))[rest(s)])
                = (IF s = {} THEN 0 ELSE f[Pick(s)] + h[rest(s)])
        <5> HIDE DEF h, rest
        <5> QED BY <2>1
      <4>2. QED
        BY <4>1
    <3>2. QED
      BY <3>1 DEF Adds
  <2>3. Adds(Adder(f, R), f, R)
    <3> HIDE DEF h
    <3> QED BY <2>2 DEF Adder
  <2>4. QED
    BY <2>3
<1>2. \A R \in SUBSET S : R \in C
  <2> HIDE DEF C
  <2> QED BY <1>1, SubsetInduction, Zenon
<1>3. QED
  BY <1>2

-----------------------------------------------------------------------------
(* What a sum is: nothing of no summand, and one summand more than the sum *)
(* of the others, whichever is taken.                                      *)
LEMMA SumOfNone ==
  ASSUME NEW f
  PROVE  SumFunctionOnSet(f, {}) = 0
<1>1. Adds(Adder(f, {}), f, {})
  BY AdderExists, FS_EmptySet
<1>2. Adder(f, {})[{}] = 0
  BY <1>1 DEF Adds
<1>3. QED
  BY <1>2, AdderIsSum

LEMMA SumByPick ==
  ASSUME NEW f, NEW S, IsFiniteSet(S), S # {}
  PROVE  SumFunctionOnSet(f, S) = f[Pick(S)] + SumFunctionOnSet(f, S \ {Pick(S)})
<1> DEFINE R == S \ {Pick(S)}
<1>1. /\ Adds(Adder(f, S), f, S)
      /\ Adds(Adder(f, R), f, R)
  BY AdderExists
<1>2. Adder(f, S)[S] = f[Pick(S)] + Adder(f, S)[R]
  BY <1>1 DEF Adds
<1>3. Adder(f, R)[R] = Adder(f, S)[R]
  <2>1. R \subseteq S
    OBVIOUS
  <2>2. \A g, h : Adds(g, f, R) /\ Adds(h, f, S) => \A s \in SUBSET R : g[s] = h[s]
    <3> HIDE DEF R
    <3> QED BY <2>1, AddersAgree
  <2>3. QED
    BY <1>1, <2>2
<1>4. QED
  BY <1>2, <1>3, AdderIsSum

LEMMA SumInt ==
  ASSUME NEW S, IsFiniteSet(S), NEW f, \A x \in S : f[x] \in Int
  PROVE  SumFunctionOnSet(f, S) \in Int
<1> DEFINE C == {T \in SUBSET S : SumFunctionOnSet(f, T) \in Int}
<1>1. ASSUME NEW T \in SUBSET S, \A U \in SUBSET T : U # T => U \in C
      PROVE  T \in C
  <2>1. CASE T = {}
    BY <2>1, SumOfNone
  <2>2. CASE T # {}
    <3>1. /\ Pick(T) \in T
          /\ IsFiniteSet(T)
      BY <2>2, PickMember, FS_Subset
    <3>2. /\ SumFunctionOnSet(f, T \ {Pick(T)}) \in Int
          /\ f[Pick(T)] \in Int
      BY <3>1, <1>1
    <3>3. SumFunctionOnSet(f, T) = f[Pick(T)] + SumFunctionOnSet(f, T \ {Pick(T)})
      BY <3>1, <2>2, SumByPick
    <3>4. QED
      BY <3>2, <3>3
  <2>3. QED
    BY <2>1, <2>2
<1>2. \A T \in SUBSET S : T \in C
  <2> HIDE DEF C
  <2> QED BY <1>1, SubsetInduction, Zenon
<1>3. QED
  BY <1>2

LEMMA SumTakeOut ==
  ASSUME NEW S, IsFiniteSet(S), NEW f, \A x \in S : f[x] \in Int, NEW a \in S
  PROVE  SumFunctionOnSet(f, S) = f[a] + SumFunctionOnSet(f, S \ {a})
<1> DEFINE Good(T, x) == SumFunctionOnSet(f, T) = f[x] + SumFunctionOnSet(f, T \ {x})
           C == {T \in SUBSET S : \A x \in T : Good(T, x)}
<1>1. ASSUME NEW T \in SUBSET S, \A U \in SUBSET T : U # T => U \in C
      PROVE  T \in C
  <2>1. ASSUME NEW x \in T
        PROVE  Good(T, x)
    <3> DEFINE p == Pick(T)
               X == T \ {x}
               P == T \ {p}
               Q == T \ {x, p}
    <3>1. /\ p \in T
          /\ IsFiniteSet(T)
          /\ Good(T, p)
      BY FS_Subset, PickMember, SumByPick
    <3>2. CASE p = x
      BY <3>1, <3>2
    <3>3. CASE p # x
      <4>1. SumFunctionOnSet(f, P) = f[x] + SumFunctionOnSet(f, Q)
        <5>1. Good(P, x) /\ P \ {x} = Q
          BY <3>1, <3>3, <1>1
        <5>2. QED
          BY <5>1
      <4>2. SumFunctionOnSet(f, X) = f[p] + SumFunctionOnSet(f, Q)
        <5>1. Good(X, p) /\ X \ {p} = Q
          BY <3>1, <3>3, <1>1
        <5>2. QED
          BY <5>1
      <4>3. SumFunctionOnSet(f, Q) \in Int
        BY <3>1, FS_Subset, SumInt
      <4>4. f[x] \in Int /\ f[p] \in Int
        BY <3>1
      <4>5. SumFunctionOnSet(f, T) = f[p] + SumFunctionOnSet(f, P)
        BY <3>1
      <4>6. SumFunctionOnSet(f, T) = f[x] + SumFunctionOnSet(f, X)
        <5> HIDE DEF p, X, P, Q
        <5> QED BY <4>1, <4>2, <4>3, <4>4, <4>5
      <4>7. QED
        BY <4>6
    <3>4. QED
      BY <3>2, <3>3
  <2>2. QED
    BY <2>1
<1>2. \A T \in SUBSET S : T \in C
  <2> HIDE DEF C
  <2> QED BY <1>1, SubsetInduction, Zenon
<1>3. QED
  BY <1>2

-----------------------------------------------------------------------------
(* What follows for the sums of a model: they depend on their summands     *)
(* only, and change by as much as the summand that changes.                *)
LEMMA SumSame ==
  ASSUME NEW S, IsFiniteSet(S), NEW f, NEW g, \A x \in S : f[x] = g[x]
  PROVE  SumFunctionOnSet(f, S) = SumFunctionOnSet(g, S)
<1> DEFINE C == {T \in SUBSET S : SumFunctionOnSet(f, T) = SumFunctionOnSet(g, T)}
<1>1. ASSUME NEW T \in SUBSET S, \A U \in SUBSET T : U # T => U \in C
      PROVE  T \in C
  <2>1. CASE T = {}
    BY <2>1, SumOfNone
  <2>2. CASE T # {}
    <3>1. /\ Pick(T) \in T
          /\ IsFiniteSet(T)
      BY <2>2, PickMember, FS_Subset
    <3>2. SumFunctionOnSet(f, T \ {Pick(T)}) = SumFunctionOnSet(g, T \ {Pick(T)})
      BY <3>1, <1>1
    <3>3. QED
      BY <3>1, <3>2, <2>2, SumByPick
  <2>3. QED
    BY <2>1, <2>2
<1>2. \A T \in SUBSET S : T \in C
  <2> HIDE DEF C
  <2> QED BY <1>1, SubsetInduction, Zenon
<1>3. QED
  BY <1>2

LEMMA SumChange ==
  ASSUME NEW S, IsFiniteSet(S), NEW a \in S,
         NEW f, \A x \in S : f[x] \in Int,
         NEW g, g[a] \in Int, \A x \in S \ {a} : g[x] = f[x]
  PROVE  SumFunctionOnSet(g, S) = SumFunctionOnSet(f, S) - f[a] + g[a]
<1> DEFINE R == S \ {a}
<1>1. IsFiniteSet(R)
  BY FS_Subset
<1>2. /\ \A x \in S : g[x] \in Int
      /\ f[a] \in Int
  OBVIOUS
<1>3. SumFunctionOnSet(g, R) = SumFunctionOnSet(f, R)
  BY <1>1, SumSame
<1>4. SumFunctionOnSet(f, R) \in Int
  BY <1>1, SumInt
<1>5. SumFunctionOnSet(f, S) = f[a] + SumFunctionOnSet(f, R)
  BY SumTakeOut
<1>6. SumFunctionOnSet(g, S) = g[a] + SumFunctionOnSet(g, R)
  BY <1>2, SumTakeOut
<1> HIDE DEF R
<1>7. QED
  BY <1>2, <1>3, <1>4, <1>5, <1>6

LEMMA SumOfZeros ==
  ASSUME NEW S, IsFiniteSet(S), NEW f, \A x \in S : f[x] = 0
  PROVE  SumFunctionOnSet(f, S) = 0
<1> DEFINE C == {T \in SUBSET S : SumFunctionOnSet(f, T) = 0}
<1>1. ASSUME NEW T \in SUBSET S, \A U \in SUBSET T : U # T => U \in C
      PROVE  T \in C
  <2>1. CASE T = {}
    BY <2>1, SumOfNone
  <2>2. CASE T # {}
    <3>1. /\ Pick(T) \in T
          /\ IsFiniteSet(T)
      BY <2>2, PickMember, FS_Subset
    <3>2. SumFunctionOnSet(f, T \ {Pick(T)}) = 0
      BY <3>1, <1>1
    <3>3. QED
      BY <3>1, <3>2, <2>2, SumByPick
  <2>3. QED
    BY <2>1, <2>2
<1>2. \A T \in SUBSET S : T \in C
  <2> HIDE DEF C
  <2> QED BY <1>1, SubsetInduction, Zenon
<1>3. QED
  BY <1>2

LEMMA SumNat ==
  ASSUME NEW S, IsFiniteSet(S), NEW f, \A x \in S : f[x] \in Nat
  PROVE  SumFunctionOnSet(f, S) \in Nat
<1> DEFINE C == {T \in SUBSET S : SumFunctionOnSet(f, T) \in Nat}
<1>1. ASSUME NEW T \in SUBSET S, \A U \in SUBSET T : U # T => U \in C
      PROVE  T \in C
  <2>1. CASE T = {}
    BY <2>1, SumOfNone
  <2>2. CASE T # {}
    <3>1. /\ Pick(T) \in T
          /\ IsFiniteSet(T)
      BY <2>2, PickMember, FS_Subset
    <3>2. /\ SumFunctionOnSet(f, T \ {Pick(T)}) \in Nat
          /\ f[Pick(T)] \in Nat
      BY <3>1, <1>1
    <3>3. SumFunctionOnSet(f, T) = f[Pick(T)] + SumFunctionOnSet(f, T \ {Pick(T)})
      BY <3>1, <2>2, SumByPick
    <3>4. QED
      BY <3>2, <3>3
  <2>3. QED
    BY <2>1, <2>2
<1>2. \A T \in SUBSET S : T \in C
  <2> HIDE DEF C
  <2> QED BY <1>1, SubsetInduction, Zenon
<1>3. QED
  BY <1>2

LEMMA SummandBounded ==
  ASSUME NEW S, IsFiniteSet(S), NEW f, \A x \in S : f[x] \in Nat, NEW a \in S
  PROVE  f[a] <= SumFunctionOnSet(f, S)
<1>1. SumFunctionOnSet(f, S \ {a}) \in Nat
  BY FS_Subset, SumNat
<1>2. SumFunctionOnSet(f, S) = f[a] + SumFunctionOnSet(f, S \ {a})
  BY SumTakeOut
<1>3. QED
  BY <1>1, <1>2

\* Summands that do not grow make a sum that does not.
LEMMA SumMonotone ==
  ASSUME NEW S, IsFiniteSet(S), NEW f, NEW g,
         \A x \in S : f[x] \in Int /\ g[x] \in Int /\ g[x] <= f[x]
  PROVE  SumFunctionOnSet(g, S) <= SumFunctionOnSet(f, S)
<1> DEFINE C == {T \in SUBSET S : SumFunctionOnSet(g, T) <= SumFunctionOnSet(f, T)}
<1>1. ASSUME NEW T \in SUBSET S, \A U \in SUBSET T : U # T => U \in C
      PROVE  T \in C
  <2>1. CASE T = {}
    BY <2>1, SumOfNone
  <2>2. CASE T # {}
    <3> DEFINE p == Pick(T)
               U == T \ {p}
    <3>1. p \in T /\ U \in SUBSET T /\ U # T /\ IsFiniteSet(T) /\ IsFiniteSet(U)
      BY <2>2, PickMember, FS_Subset
    <3>2. SumFunctionOnSet(g, U) <= SumFunctionOnSet(f, U)
      BY <3>1, <1>1
    <3>3. /\ SumFunctionOnSet(f, T) = f[p] + SumFunctionOnSet(f, U)
          /\ SumFunctionOnSet(g, T) = g[p] + SumFunctionOnSet(g, U)
      BY <3>1, <2>2, SumByPick
    <3>4. SumFunctionOnSet(f, U) \in Int /\ SumFunctionOnSet(g, U) \in Int
      BY <3>1, SumInt
    <3>5. f[p] \in Int /\ g[p] \in Int /\ g[p] <= f[p]
      BY <3>1
    <3> HIDE DEF p, U
    <3>6. SumFunctionOnSet(g, T) <= SumFunctionOnSet(f, T)
      BY <3>2, <3>3, <3>4, <3>5
    <3>7. QED
      BY <3>6
  <2>3. QED
    BY <2>1, <2>2
<1>2. \A T \in SUBSET S : T \in C
  <2> HIDE DEF C
  <2> QED BY <1>1, SubsetInduction, Zenon
<1>3. QED
  BY <1>2

\* The summands of R become zero: the sum loses what they added.
LEMMA SumWithout ==
  ASSUME NEW S, IsFiniteSet(S), NEW R \in SUBSET S,
         NEW f, \A x \in S : f[x] \in Int,
         NEW g, \A x \in R : g[x] = 0, \A x \in S \ R : g[x] = f[x]
  PROVE  SumFunctionOnSet(g, S) = SumFunctionOnSet(f, S) - SumFunctionOnSet(f, R)
<1> DEFINE Good(T) == SumFunctionOnSet(g, T) = SumFunctionOnSet(f, T) - SumFunctionOnSet(f, R \cap T)
           C == {T \in SUBSET S : Good(T)}
<1>1. ASSUME NEW T \in SUBSET S, \A U \in SUBSET T : U # T => U \in C
      PROVE  T \in C
  <2>1. CASE T = {}
    <3>1. R \cap T = {} /\ SumFunctionOnSet(f, {}) = 0 /\ SumFunctionOnSet(g, {}) = 0
      BY <2>1, SumOfNone
    <3>2. QED
      BY <2>1, <3>1
  <2>2. CASE T # {}
    <3> DEFINE p == Pick(T)
               U == T \ {p}
    <3>1. p \in T /\ U \in SUBSET T /\ U # T /\ IsFiniteSet(T) /\ IsFiniteSet(U)
      BY <2>2, PickMember, FS_Subset
    <3>2. Good(U)
      BY <3>1, <1>1
    <3>3. /\ SumFunctionOnSet(f, T) = f[p] + SumFunctionOnSet(f, U)
          /\ SumFunctionOnSet(g, T) = g[p] + SumFunctionOnSet(g, U)
      BY <3>1, <2>2, SumByPick
    <3>4. \A V \in SUBSET S : SumFunctionOnSet(f, V) \in Int
      BY FS_Subset, SumInt
    <3>5. f[p] \in Int /\ (p \in R => g[p] = 0) /\ (p \notin R => g[p] = f[p])
      BY <3>1
    <3>6. CASE p \in R
      <4> DEFINE V == R \cap T
      <4>1. V \in SUBSET S /\ p \in V /\ V \ {p} = R \cap U /\ IsFiniteSet(V)
        BY <3>1, <3>6, FS_Subset
      <4>2. \A x \in V : f[x] \in Int
        BY <4>1
      <4>3. SumFunctionOnSet(f, V) = f[p] + SumFunctionOnSet(f, R \cap U)
        <5> HIDE DEF V, p, U
        <5>1. SumFunctionOnSet(f, V) = f[p] + SumFunctionOnSet(f, V \ {p})
          BY <4>1, <4>2, SumTakeOut
        <5>2. QED
          BY <4>1, <5>1
      <4>4. /\ SumFunctionOnSet(f, U) \in Int /\ SumFunctionOnSet(f, R \cap U) \in Int
        BY <3>1, <3>4
      <4> HIDE DEF p, U
      <4>5. SumFunctionOnSet(g, T) = SumFunctionOnSet(f, T) - SumFunctionOnSet(f, R \cap T)
        BY <3>2, <3>3, <3>5, <3>6, <4>3, <4>4
      <4>6. QED
        BY <4>5
    <3>7. CASE p \notin R
      <4>1. R \cap T = R \cap U
        BY <3>7
      <4>2. SumFunctionOnSet(f, U) \in Int /\ SumFunctionOnSet(f, R \cap U) \in Int
        BY <3>1, <3>4
      <4>3. SumFunctionOnSet(g, U) = SumFunctionOnSet(f, U) - SumFunctionOnSet(f, R \cap T)
        BY <3>2, <4>1
      <4>4. g[p] = f[p] /\ f[p] \in Int /\ SumFunctionOnSet(f, R \cap T) \in Int
        BY <3>5, <3>7, <4>1, <4>2
      <4>5. SumFunctionOnSet(g, T) = f[p] + SumFunctionOnSet(g, U)
        BY <3>3, <4>4
      <4> HIDE DEF U, p
      <4>6. SumFunctionOnSet(g, T) = SumFunctionOnSet(f, T) - SumFunctionOnSet(f, R \cap T)
        BY <3>3, <4>2, <4>3, <4>4, <4>5
      <4>7. QED
        BY <4>6
    <3>8. QED
      BY <3>6, <3>7
  <2>3. QED
    BY <2>1, <2>2
<1>2. \A T \in SUBSET S : T \in C
  <2> HIDE DEF C
  <2> QED BY <1>1, SubsetInduction, Zenon
<1>3. Good(S) /\ R \cap S = R
  BY <1>2
<1>4. QED
  BY <1>3
=============================================================================
