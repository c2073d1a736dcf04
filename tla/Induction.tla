------------------------------ MODULE Induction ------------------------------
(***************************************************************************)
(* Induction and recursion over values that have a rank, a number: a page  *)
(* its length, a document its depth.  A module that defines a function by  *)
(* recursion instantiates this one with what the function is at a value.   *)
(***************************************************************************)
EXTENDS Integers, FiniteSetTheorems, WellFoundedInduction, TLAPS

CONSTANT Def(_, _, _)  \* what a function is at a value, given the function
                       \* and a parameter

Smaller(Domain, rank, x) == {y \in Domain : rank[y] < rank[x]}

(* The elements of a finite set can be counted, and a count that takes none *)
(* twice takes them all.                                                    *)
LEMMA FiniteIsCounted ==
  ASSUME NEW S, IsFiniteSet(S)
  PROVE  LET n == Cardinality(S) IN
         /\ n \in Nat
         /\ \E f \in [1..n -> S] : \A j, k \in 1..n : f[j] = f[k] => j = k
         /\ \A f \in [1..n -> S] : (\A j, k \in 1..n : f[j] = f[k] => j = k) => \A x \in S : \E k \in 1..n : f[k] = x
  <1> DEFINE n == Cardinality(S)
  <1>1. n \in Nat /\ ExistsBijection(1..n, S)
    BY FS_CardinalityType
  <1>2. \E f \in [1..n -> S] : \A j, k \in 1..n : f[j] = f[k] => j = k
    BY <1>1 DEF ExistsBijection, Bijection, Injection, IsInjective
  <1>3. IsFiniteSet(1..n) /\ Cardinality(1..n) = n
    BY <1>1, FS_Interval
  <1>4. ASSUME NEW f \in [1..n -> S], \A j, k \in 1..n : f[j] = f[k] => j = k
        PROVE  \A x \in S : \E k \in 1..n : f[k] = x
    <2>1. f \in Injection(1..n, S)
      BY <1>4 DEF Injection, IsInjective
    <2>2. f \in Surjection(1..n, S)
      BY <1>3, <2>1, FS_Injection
    <2> QED BY <2>2 DEF Surjection
  <1> QED BY <1>1, <1>2, <1>4

(* A set of numbers has a least one. *)
LEMMA LeastNumber ==
  ASSUME NEW S \in SUBSET Nat, S # {}
  PROVE  \E m \in S : \A n \in S : m <= n
  <1> DEFINE Below == {1..n : n \in S}
  <1>1. Below \subseteq FiniteSubsetsOf(Nat) /\ Below # {}
    <2>1. \A n \in Nat : 1..n \in SUBSET Nat /\ IsFiniteSet(1..n)
      BY FS_Interval
    <2> QED BY <2>1 DEF FiniteSubsetsOf
  <1>2. PICK B \in Below : \A C \in Below : ~(<<C, B>> \in StrictSubsetOrdering(Nat))
    BY <1>1, FS_StrictSubsetOrderingWellFounded, WFMin
  <1>3. PICK m \in S : B = 1..m
    BY <1>2
  <1>4. ASSUME NEW n \in S, n < m PROVE FALSE
    <2>1. 1..n \in Below /\ 1..n \subseteq 1..m /\ m \in 1..m /\ m \notin 1..n
      BY <1>4
    <2>2. <<1..n, 1..m>> \in StrictSubsetOrdering(Nat)
      BY <2>1 DEF StrictSubsetOrdering
    <2> QED BY <2>1, <2>2, <1>2, <1>3
  <1> QED BY <1>4

(* What holds of a value when it holds of all smaller ones holds of all.    *)
LEMMA ByRank ==
  ASSUME NEW Domain, NEW rank \in [Domain -> Nat], NEW S,
         \A x \in Domain : Smaller(Domain, rank, x) \subseteq S => x \in S
  PROVE  Domain \subseteq S
  <1> DEFINE Ranks == {n \in Nat : \E x \in Domain : rank[x] = n /\ x \notin S}
  <1>1. SUFFICES ASSUME NEW x \in Domain, x \notin S PROVE FALSE
    OBVIOUS
  <1>2. rank[x] \in Ranks
    BY <1>1
  <1>3. PICK m \in Ranks : \A n \in Ranks : m <= n
    BY <1>2, LeastNumber
  <1>4. PICK y \in Domain : rank[y] = m /\ y \notin S
    BY <1>3
  <1>5. Smaller(Domain, rank, y) \subseteq S
    BY <1>3, <1>4 DEF Smaller
  <1> QED BY <1>4, <1>5

(* What holds of 0, and of n + 1 when of n, holds of every number.          *)
LEMMA ByNumber ==
  ASSUME NEW S, 0 \in S, \A n \in Nat : n \in S => n + 1 \in S
  PROVE  Nat \subseteq S
  <1> DEFINE Bad == {n \in Nat : n \notin S}
  <1>1. SUFFICES ASSUME Bad # {} PROVE FALSE
    OBVIOUS
  <1>2. PICK m \in Bad : \A n \in Bad : m <= n
    BY <1>1, LeastNumber
  <1>3. m # 0 /\ m - 1 \in Nat /\ m - 1 \in S /\ (m - 1) + 1 = m
    BY <1>2
  <1> QED BY <1>2, <1>3

-----------------------------------------------------------------------------
(* Def needs the function at smaller values alone. *)
NeedsSmaller(Domain, rank, p) ==
  \A x \in Domain : \A g, h :
    (\A y \in Smaller(Domain, rank, x) : g[y] = h[y]) => Def(g, x, p) = Def(h, x, p)

(* A function that is right up to a rank. *)
RightBelow(Domain, rank, p, g, n) == \A x \in Domain : rank[x] < n => g[x] = Def(g, x, p)

(* Functions that are right up to a rank are the same up to it. *)
LEMMA RightAreAlike ==
  ASSUME NEW Domain, NEW rank \in [Domain -> Nat], NEW p, NeedsSmaller(Domain, rank, p),
         NEW n \in Nat, NEW g, NEW h,
         RightBelow(Domain, rank, p, g, n), RightBelow(Domain, rank, p, h, n)
  PROVE  \A x \in Domain : rank[x] < n => g[x] = h[x]
  <1> DEFINE Alike == {x \in Domain : rank[x] < n => g[x] = h[x]}
  <1>1. ASSUME NEW x \in Domain, Smaller(Domain, rank, x) \subseteq Alike, rank[x] < n PROVE g[x] = h[x]
    <2>1. \A y \in Smaller(Domain, rank, x) : g[y] = h[y]
      BY <1>1 DEF Smaller
    <2>2. Def(g, x, p) = Def(h, x, p)
      BY <2>1 DEF NeedsSmaller
    <2> QED BY <1>1, <2>2 DEF RightBelow
  <1>2. Domain \subseteq Alike
    <2>1. \A x \in Domain : Smaller(Domain, rank, x) \subseteq Alike => x \in Alike
      BY <1>1
    <2> HIDE DEF Alike
    <2> QED BY <2>1, ByRank
  <1> QED BY <1>2

(* There are functions right up to every rank. *)
LEMMA RightExist ==
  ASSUME NEW Domain, NEW rank \in [Domain -> Nat], NEW p, NeedsSmaller(Domain, rank, p)
  PROVE  \A n \in Nat : \E g : RightBelow(Domain, rank, p, g, n)
  <1> DEFINE Reached == {n \in Nat : \E g : RightBelow(Domain, rank, p, g, n)}
  <1>1. 0 \in Reached
    <2>1. RightBelow(Domain, rank, p, {}, 0)
      BY DEF RightBelow
    <2> QED BY <2>1
  <1>2. ASSUME NEW n \in Nat, n \in Reached PROVE n + 1 \in Reached
    <2>1. PICK g : RightBelow(Domain, rank, p, g, n)
      BY <1>2
    <2> DEFINE h == [x \in Domain |-> Def(g, x, p)]
    <2>2. \A x \in Domain : rank[x] < n => h[x] = g[x]
      BY <2>1 DEF RightBelow
    <2>3. ASSUME NEW x \in Domain, rank[x] < n + 1 PROVE h[x] = Def(h, x, p)
      <3>1. \A y \in Smaller(Domain, rank, x) : y \in Domain /\ rank[y] < n
        BY <2>3 DEF Smaller
      <3>2. \A y \in Smaller(Domain, rank, x) : g[y] = h[y]
        BY <2>2, <3>1
      <3>3. Def(g, x, p) = Def(h, x, p)
        <4> HIDE DEF h
        <4> QED BY <3>2 DEF NeedsSmaller
      <3> QED BY <3>3
    <2>4. RightBelow(Domain, rank, p, h, n + 1)
      BY <2>3 DEF RightBelow
    <2> QED BY <2>4
  <1>3. Nat \subseteq Reached
    <2> HIDE DEF Reached
    <2> QED BY <1>1, <1>2, ByNumber
  <1> QED BY <1>3

(* A recursive definition that uses the function at smaller values defines  *)
(* a function.                                                              *)
LEMMA Defined ==
  ASSUME NEW Domain, NEW rank \in [Domain -> Nat], NEW p, NeedsSmaller(Domain, rank, p)
  PROVE  \E f : f = [x \in Domain |-> Def(f, x, p)]
  <1> DEFINE Right(x) == CHOOSE g : RightBelow(Domain, rank, p, g, rank[x] + 1)
             f == [x \in Domain |-> Right(x)[x]]
  <1>1. \A x \in Domain : RightBelow(Domain, rank, p, Right(x), rank[x] + 1)
    BY RightExist
  <1>2. ASSUME NEW x \in Domain PROVE f[x] = Def(f, x, p)
    <2>1. Right(x)[x] = Def(Right(x), x, p)
      BY <1>1 DEF RightBelow
    <2>2. ASSUME NEW y \in Smaller(Domain, rank, x) PROVE Right(x)[y] = f[y]
      <3>1. y \in Domain /\ rank[y] < rank[x] /\ rank[y] < rank[y] + 1 /\ rank[y] + 1 \in Nat
        BY DEF Smaller
      <3>2. /\ RightBelow(Domain, rank, p, Right(x), rank[y] + 1)
            /\ RightBelow(Domain, rank, p, Right(y), rank[y] + 1)
        BY <1>1, <3>1 DEF RightBelow
      <3> HIDE DEF Right
      <3>3. Right(x)[y] = Right(y)[y]
        BY <3>1, <3>2, RightAreAlike
      <3> QED BY <3>1, <3>3
    <2>3. Def(Right(x), x, p) = Def(f, x, p)
      <3> HIDE DEF f, Right
      <3> QED BY <2>2 DEF NeedsSmaller
    <2> QED BY <2>1, <2>3
  <1> QED BY <1>2
=============================================================================
