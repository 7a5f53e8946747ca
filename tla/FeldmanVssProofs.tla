-------------------------- MODULE FeldmanVssProofs --------------------------
(***************************************************************************)
(* Proofs about verifiable secret sharing, for every prime Q: what sums,   *)
(* products and polynomials mod Q are, that Verify accepts exactly the     *)
(* value of the committed polynomial, and that the Lagrange coefficients   *)
(* of any t + 1 shares recover the secret.  The proofs about the protocols *)
(* rest on these lemmas.                                                   *)
(***************************************************************************)
EXTENDS FeldmanVss, FiniteSetTheorems, TLAPS

-----------------------------------------------------------------------------
(* Induction, in the form the provers can use: about sets of numbers.      *)

\* A set of natural numbers that is not empty has a least element.
LEMMA Least ==
    ASSUME NEW S \in SUBSET Nat, S # {}
    PROVE  \E n \in S : \A m \in S : n <= m
<1> DEFINE R == OpToRel(<, Nat)
<1>1. IsWellFoundedOn(R, Nat)
  BY NatLessThanWellFounded
<1>2. \A x, y \in Nat : x < y => <<x, y>> \in R
  BY DEF OpToRel
<1> HIDE DEF R
<1>3. \E x \in S : \A y \in S : ~ (<<y, x>> \in R)
  BY <1>1, WFMin
<1>4. PICK x \in S : \A y \in S : ~ (<<y, x>> \in R)
  BY <1>3
<1>5. \A y \in S : ~(y < x)
  BY <1>2, <1>4
<1> QED BY <1>5

\* A set that holds 0, and with n also n + 1, holds every natural number.
LEMMA Induction ==
    ASSUME NEW P, 0 \in P, \A n \in Nat : n \in P => n + 1 \in P
    PROVE  \A n \in Nat : n \in P
<1> SUFFICES ASSUME Nat \ P # {} PROVE FALSE
  OBVIOUS
<1>1. PICK n \in Nat \ P : \A m \in Nat \ P : n <= m
  BY Least
<1>2. n # 0 /\ n - 1 \in Nat
  BY <1>1
<1>3. n - 1 \in P
  BY <1>1, <1>2
<1> QED BY <1>1, <1>2, <1>3

-----------------------------------------------------------------------------
(* Arithmetic mod Q.                                                       *)

LEMMA ModType == ASSUME NEW a \in Int PROVE a % Q \in Zq /\ a % Q \in Int
BY QAssumption DEF Zq

LEMMA ModSmall == ASSUME NEW a \in Zq PROVE a % Q = a
BY QAssumption DEF Zq

LEMMA ModUnique ==
    ASSUME NEW a \in Int, NEW k \in Int, NEW r \in Zq, a = (Q * k) + r PROVE a % Q = r
BY QAssumption DEF Zq

LEMMA ModDiv == ASSUME NEW a \in Int PROVE \E k \in Int : a = (Q * k) + (a % Q)
<1>1. a = (Q * (a \div Q)) + (a % Q) /\ a \div Q \in Int
  BY QAssumption
<1> QED BY <1>1

LEMMA ModPlusMultiple ==
    ASSUME NEW a \in Int, NEW k \in Int PROVE (a + (Q * k)) % Q = a % Q
<1>1. PICK d \in Int : a = (Q * d) + (a % Q)
  BY ModDiv
<1> DEFINE r == a % Q
<1>2. r \in Zq /\ r \in Int /\ Q \in Int
  BY ModType, QAssumption
<1>3. a = (Q * d) + r
  BY <1>1
<1> HIDE DEF r
<1>4. a + (Q * k) = (Q * (d + k)) + r /\ a + (Q * k) \in Int /\ d + k \in Int
  BY <1>2, <1>3
<1>5. (a + (Q * k)) % Q = r
  BY <1>2, <1>4, ModUnique
<1> QED BY <1>5 DEF r

\* Equal remainders: the difference is a multiple of Q.
LEMMA ModCong ==
    ASSUME NEW a \in Int, NEW b \in Int
    PROVE  a % Q = b % Q <=> \E k \in Int : a = b + (Q * k)
<1>1. ASSUME a % Q = b % Q PROVE \E k \in Int : a = b + (Q * k)
  <2>1. PICK d \in Int : a = (Q * d) + (a % Q)
    BY ModDiv
  <2>2. PICK e \in Int : b = (Q * e) + (b % Q)
    BY ModDiv
  <2> DEFINE r == b % Q
  <2>3. r \in Int /\ Q \in Int
    BY ModType, QAssumption
  <2>4. a = (Q * d) + r /\ b = (Q * e) + r
    BY <1>1, <2>1, <2>2
  <2> HIDE DEF r
  <2>5. a = b + (Q * (d - e))
    BY <2>3, <2>4
  <2> QED BY <2>5
<1>2. ASSUME NEW k \in Int, a = b + (Q * k) PROVE a % Q = b % Q
  BY <1>2, ModPlusMultiple
<1> QED BY <1>1, <1>2

LEMMA CongPlus ==
    ASSUME NEW a \in Int, NEW b \in Int, NEW c \in Int, NEW d \in Int,
           a % Q = b % Q, c % Q = d % Q
    PROVE  (a + c) % Q = (b + d) % Q
<1>1. PICK k \in Int : a = b + (Q * k)
  BY ModCong
<1>2. PICK l \in Int : c = d + (Q * l)
  BY ModCong
<1>3. a + c = (b + d) + (Q * (k + l))
  BY <1>1, <1>2, QAssumption
<1> QED BY <1>3, ModCong

LEMMA CongMinus ==
    ASSUME NEW a \in Int, NEW b \in Int, NEW c \in Int, NEW d \in Int,
           a % Q = b % Q, c % Q = d % Q
    PROVE  (a - c) % Q = (b - d) % Q
<1>1. PICK k \in Int : a = b + (Q * k)
  BY ModCong
<1>2. PICK l \in Int : c = d + (Q * l)
  BY ModCong
<1>3. a - c = (b - d) + (Q * (k - l))
  BY <1>1, <1>2, QAssumption
<1> QED BY <1>3, ModCong

LEMMA CongTimes ==
    ASSUME NEW a \in Int, NEW b \in Int, NEW c \in Int, NEW d \in Int,
           a % Q = b % Q, c % Q = d % Q
    PROVE  (a * c) % Q = (b * d) % Q
<1>1. PICK k \in Int : a = b + (Q * k)
  BY ModCong
<1>2. PICK l \in Int : c = d + (Q * l)
  BY ModCong
<1> DEFINE m == (b * l) + (k * d) + (Q * k * l)
<1>3. Q \in Int /\ m \in Int
  BY QAssumption
<1>4. a * c = (b * d) + (Q * m)
  BY <1>1, <1>2, <1>3
<1>5. a * c \in Int /\ b * d \in Int
  OBVIOUS
<1> HIDE DEF m
<1> QED BY <1>3, <1>4, <1>5, ModCong, Zenon

LEMMA CongScale ==
    ASSUME NEW a \in Int, NEW b \in Int, NEW c \in Int, a % Q = b % Q
    PROVE  (a * c) % Q = (b * c) % Q
BY CongTimes, Zenon

\* A remainder may stand for the number it is the remainder of.
LEMMA ModMod == ASSUME NEW a \in Int PROVE (a % Q) % Q = a % Q
BY ModType, ModSmall

-----------------------------------------------------------------------------
(* Folds: the recursive function behind them exists and is unique.         *)

Pick(s) == CHOOSE x \in s : TRUE

LEMMA PickIn == ASSUME NEW s, s # {} PROVE Pick(s) \in s
BY DEF Pick

\* g follows the equation of a fold with base b and step H on the subsets of S.
Follows(g, S, b, H) ==
    \A s \in SUBSET S : g[s] = IF s = {} THEN b ELSE H[<<Pick(s), g[s \ {Pick(s)}]>>]

LEMMA FoldExists ==
    ASSUME NEW S, IsFiniteSet(S), NEW b \in Int, NEW H \in [S \X Int -> Int]
    PROVE  \E g \in [SUBSET S -> Int] : Follows(g, S, b, H)
<1> DEFINE Small(n) == {s \in SUBSET S : Cardinality(s) <= n}
           Good(g, n) == \A s \in Small(n) :
               g[s] = IF s = {} THEN b ELSE H[<<Pick(s), g[s \ {Pick(s)}]>>]
           P == {n \in Nat : \E g \in [Small(n) -> Int] : Good(g, n)}
<1>0. \A s \in SUBSET S : IsFiniteSet(s) /\ Cardinality(s) \in Nat
  BY FS_Subset, FS_CardinalityType
<1>1. 0 \in P
  <2> DEFINE g == [s \in Small(0) |-> b]
  <2>1. \A s \in Small(0) : s = {}
    BY <1>0, FS_EmptySet
  <2>2. g \in [Small(0) -> Int] /\ Good(g, 0)
    BY <2>1
  <2> QED BY <2>2
<1>2. ASSUME NEW n \in Nat, n \in P PROVE n + 1 \in P
  <2>1. PICK g \in [Small(n) -> Int] : Good(g, n)
    BY <1>2
  <2> DEFINE h == [s \in Small(n + 1) |-> IF s = {} THEN b ELSE H[<<Pick(s), g[s \ {Pick(s)}]>>]]
  <2>2. ASSUME NEW s \in Small(n + 1), s # {}
        PROVE Pick(s) \in S /\ s \ {Pick(s)} \in Small(n)
    <3>1. Pick(s) \in s
      BY <2>2, PickIn
    <3>2. Cardinality(s \ {Pick(s)}) = Cardinality(s) - 1
      BY <1>0, <3>1, FS_RemoveElement
    <3> QED BY <1>0, <3>1, <3>2
  <2>3. h \in [Small(n + 1) -> Int]
    <3> SUFFICES ASSUME NEW s \in Small(n + 1) PROVE h[s] \in Int
      OBVIOUS
    <3>1. CASE s = {}
      BY <3>1
    <3>2. CASE s # {}
      <4>1. Pick(s) \in S /\ g[s \ {Pick(s)}] \in Int
        BY <2>1, <2>2, <3>2
      <4> QED BY <3>2, <4>1
    <3> QED BY <3>1, <3>2
  <2>4. \A s \in Small(n) : s \in Small(n + 1) /\ h[s] = g[s]
    BY <1>0, <2>1
  <2>5. Good(h, n + 1)
    <3> SUFFICES ASSUME NEW s \in Small(n + 1)
                 PROVE  h[s] = IF s = {} THEN b ELSE H[<<Pick(s), h[s \ {Pick(s)}]>>]
      OBVIOUS
    <3>1. CASE s = {}
      BY <3>1
    <3>2. CASE s # {}
      <4>1. h[s \ {Pick(s)}] = g[s \ {Pick(s)}]
        BY <2>2, <2>4, <3>2
      <4> QED BY <3>2, <4>1
    <3> QED BY <3>1, <3>2
  <2> HIDE DEF h, Good, Small
  <2> QED BY <2>3, <2>5
<1>3. Cardinality(S) \in P
  <2> HIDE DEF P
  <2> QED BY <1>0, <1>1, <1>2, Induction
<1>4. PICK g \in [Small(Cardinality(S)) -> Int] : Good(g, Cardinality(S))
  BY <1>3
<1>5. Small(Cardinality(S)) = SUBSET S
  BY FS_Subset
<1> QED BY <1>4, <1>5 DEF Follows

\* Two functions on the subsets of T that agree on {}, and on a set whenever they
\* agree without its chosen element, agree everywhere.
LEMMA FoldAgree ==
    ASSUME NEW T, IsFiniteSet(T), NEW g, NEW h, g[{}] = h[{}],
           \A s \in SUBSET T : (s # {} /\ g[s \ {Pick(s)}] = h[s \ {Pick(s)}]) => g[s] = h[s]
    PROVE  \A s \in SUBSET T : g[s] = h[s]
<1> DEFINE P == {n \in Nat : \A s \in SUBSET T : Cardinality(s) <= n => g[s] = h[s]}
<1>0. \A s \in SUBSET T : IsFiniteSet(s) /\ Cardinality(s) \in Nat
  BY FS_Subset, FS_CardinalityType
<1>1. 0 \in P
  <2>1. \A s \in SUBSET T : Cardinality(s) <= 0 => s = {}
    BY <1>0, FS_EmptySet
  <2> QED BY <2>1
<1>2. ASSUME NEW n \in Nat, n \in P PROVE n + 1 \in P
  <2> SUFFICES ASSUME NEW s \in SUBSET T, Cardinality(s) <= n + 1 PROVE g[s] = h[s]
    OBVIOUS
  <2>1. CASE s = {}
    BY <2>1
  <2>2. CASE s # {}
    <3> DEFINE r == s \ {Pick(s)}
    <3>1. Cardinality(r) = Cardinality(s) - 1
      BY <1>0, <2>2, PickIn, FS_RemoveElement
    <3>2. r \in SUBSET T /\ Cardinality(r) <= n
      BY <1>0, <3>1
    <3>3. g[r] = h[r]
      BY <1>2, <3>2
    <3> QED BY <2>2, <3>3
  <2> QED BY <2>1, <2>2
<1>3. \A n \in Nat : n \in P
  <2> HIDE DEF P
  <2> QED BY <1>1, <1>2, Induction
<1> QED BY <1>0, <1>3

-----------------------------------------------------------------------------
(* Sums.                                                                   *)

\* f maps the elements of S to integers.
IntOn(f, S) == \A x \in S : f[x] \in Int

\* The recursive function whose value at S is SumFunctionOnSet(f, S).
SumIter(f, S) ==
    CHOOSE iter : iter = [s \in SUBSET S |->
        IF s = {} THEN 0 ELSE f[Pick(s)] + iter[s \ {Pick(s)}]]

LEMMA SumIterDef ==
    ASSUME NEW f, NEW S PROVE SumFunctionOnSet(f, S) = SumIter(f, S)[S]
BY DEF SumFunctionOnSet, FoldFunctionOnSet, MapThenFoldSet, SumIter, Pick

\* It satisfies its equation.
LEMMA SumIterEq ==
    ASSUME NEW S, IsFiniteSet(S), NEW f, IntOn(f, S)
    PROVE  /\ SumIter(f, S) \in [SUBSET S -> Int]
           /\ \A s \in SUBSET S : SumIter(f, S)[s] =
                 IF s = {} THEN 0 ELSE f[Pick(s)] + SumIter(f, S)[s \ {Pick(s)}]
<1> DEFINE Eq(g) == g = [s \in SUBSET S |-> IF s = {} THEN 0 ELSE f[Pick(s)] + g[s \ {Pick(s)}]]
           H == [z \in S \X Int |-> f[z[1]] + z[2]]
<1>1. H \in [S \X Int -> Int] /\ 0 \in Int
  BY DEF IntOn
<1>2. \E g \in [SUBSET S -> Int] : Follows(g, S, 0, H)
  <2> HIDE DEF H
  <2> QED BY <1>1, FoldExists
<1>3. PICK g \in [SUBSET S -> Int] : Follows(g, S, 0, H)
  BY <1>2
<1>4. \A s \in SUBSET S : s # {} => Pick(s) \in S /\ s \ {Pick(s)} \in SUBSET S
  BY PickIn
<1>5. \A s \in SUBSET S : g[s] = IF s = {} THEN 0 ELSE f[Pick(s)] + g[s \ {Pick(s)}]
  BY <1>3, <1>4 DEF Follows
<1>6. Eq(SumIter(f, S))
  <2>1. Eq(g)
    BY <1>5
  <2> QED BY <2>1, Zenon DEF SumIter
<1> DEFINE h == SumIter(f, S)
<1>7. \A s \in SUBSET S : h[s] = IF s = {} THEN 0 ELSE f[Pick(s)] + h[s \ {Pick(s)}]
  <2> HIDE DEF h
  <2>1. h = [s \in SUBSET S |-> IF s = {} THEN 0 ELSE f[Pick(s)] + h[s \ {Pick(s)}]]
    BY <1>6 DEF h
  <2> QED BY <2>1
<1>8. \A s \in SUBSET S : g[s] = h[s]
  <2>1. g[{}] = h[{}]
    BY <1>5, <1>7
  <2>2. \A s \in SUBSET S : (s # {} /\ g[s \ {Pick(s)}] = h[s \ {Pick(s)}]) => g[s] = h[s]
    BY <1>5, <1>7
  <2> HIDE DEF h
  <2> QED BY <2>1, <2>2, FoldAgree
<1>9. h \in [SUBSET S -> Int]
  <2>1. h = [s \in SUBSET S |-> h[s]]
    BY <1>6
  <2> HIDE DEF h
  <2> QED BY <1>8, <2>1
<1> QED BY <1>7, <1>9

\* The value at a subset does not depend on the set one starts from.
LEMMA SumIterSubset ==
    ASSUME NEW S, IsFiniteSet(S), NEW f, IntOn(f, S), NEW T \in SUBSET S
    PROVE  SumIter(f, S)[T] = SumFunctionOnSet(f, T)
<1> DEFINE g == SumIter(f, S)
           h == SumIter(f, T)
<1>1. IsFiniteSet(T) /\ IntOn(f, T)
  BY FS_Subset DEF IntOn
<1>2. \A s \in SUBSET T : g[s] = IF s = {} THEN 0 ELSE f[Pick(s)] + g[s \ {Pick(s)}]
  BY SumIterEq
<1>3. \A s \in SUBSET T : h[s] = IF s = {} THEN 0 ELSE f[Pick(s)] + h[s \ {Pick(s)}]
  BY <1>1, SumIterEq
<1> HIDE DEF g, h
<1>4. \A s \in SUBSET T : g[s] = h[s]
  <2>1. g[{}] = h[{}]
    BY <1>2, <1>3
  <2>2. \A s \in SUBSET T : (s # {} /\ g[s \ {Pick(s)}] = h[s \ {Pick(s)}]) => g[s] = h[s]
    BY <1>2, <1>3
  <2> QED BY <1>1, <2>1, <2>2, FoldAgree
<1> QED BY <1>4, SumIterDef DEF g, h

\* The sum over a set, by its chosen element.
LEMMA SumPick ==
    ASSUME NEW S, IsFiniteSet(S), NEW f, IntOn(f, S)
    PROVE  /\ SumFunctionOnSet(f, S) \in Int
           /\ S = {} => SumFunctionOnSet(f, S) = 0
           /\ S # {} => SumFunctionOnSet(f, S) =
                 f[Pick(S)] + SumFunctionOnSet(f, S \ {Pick(S)})
<1>1. SumFunctionOnSet(f, S) = SumIter(f, S)[S]
  BY SumIterDef
<1>2. SumFunctionOnSet(f, S \ {Pick(S)}) = SumIter(f, S)[S \ {Pick(S)}]
  BY SumIterSubset
<1> DEFINE g == SumIter(f, S)
<1>3. /\ g \in [SUBSET S -> Int]
      /\ \A s \in SUBSET S : g[s] = IF s = {} THEN 0 ELSE f[Pick(s)] + g[s \ {Pick(s)}]
  BY SumIterEq
<1>4. SumFunctionOnSet(f, S) = g[S] /\ SumFunctionOnSet(f, S \ {Pick(S)}) = g[S \ {Pick(S)}]
  BY <1>1, <1>2
<1> HIDE DEF g
<1>5. S \in SUBSET S /\ g[S] \in Int
  BY <1>3
<1> QED BY <1>3, <1>4, <1>5

\* Induction over the subsets of a finite set.
LEMMA SetInduction ==
    ASSUME NEW S, IsFiniteSet(S), NEW P, {} \in P,
           \A T \in SUBSET S : \A x \in T : T \ {x} \in P => T \in P
    PROVE  \A T \in SUBSET S : T \in P
<1> DEFINE N == {n \in Nat : \A T \in SUBSET S : Cardinality(T) <= n => T \in P}
<1>0. \A T \in SUBSET S : IsFiniteSet(T) /\ Cardinality(T) \in Nat
  BY FS_Subset, FS_CardinalityType
<1>1. 0 \in N
  <2>1. \A T \in SUBSET S : Cardinality(T) <= 0 => T = {}
    BY <1>0, FS_EmptySet
  <2> QED BY <2>1
<1>2. ASSUME NEW n \in Nat, n \in N PROVE n + 1 \in N
  <2> SUFFICES ASSUME NEW T \in SUBSET S, Cardinality(T) <= n + 1 PROVE T \in P
    OBVIOUS
  <2>1. CASE T = {}
    BY <2>1
  <2>2. CASE T # {}
    <3>1. PICK x \in T : TRUE
      BY <2>2
    <3>2. Cardinality(T \ {x}) = Cardinality(T) - 1
      BY <1>0, FS_RemoveElement
    <3>3. T \ {x} \in SUBSET S /\ Cardinality(T \ {x}) <= n
      BY <1>0, <3>2
    <3>4. T \ {x} \in P
      BY <1>2, <3>3
    <3> QED BY <3>4
  <2> QED BY <2>1, <2>2
<1>3. \A n \in Nat : n \in N
  <2> HIDE DEF N
  <2> QED BY <1>1, <1>2, Induction
<1> QED BY <1>0, <1>3

LEMMA SumType ==
    ASSUME NEW S, IsFiniteSet(S), NEW f, IntOn(f, S) PROVE SumFunctionOnSet(f, S) \in Int
BY SumPick

LEMMA SumEmpty == ASSUME NEW f PROVE SumFunctionOnSet(f, {}) = 0
BY SumPick, FS_EmptySet DEF IntOn

\* Any element may be taken out.
LEMMA SumRemove ==
    ASSUME NEW S, IsFiniteSet(S), NEW f, IntOn(f, S), NEW x \in S
    PROVE  SumFunctionOnSet(f, S) = f[x] + SumFunctionOnSet(f, S \ {x})
<1> DEFINE Sm(T) == SumFunctionOnSet(f, T)
           N == {n \in Nat : \A T \in SUBSET S : Cardinality(T) <= n =>
                    \A y \in T : Sm(T) = f[y] + Sm(T \ {y})}
<1>0. \A T \in SUBSET S : IsFiniteSet(T) /\ Cardinality(T) \in Nat
  BY FS_Subset, FS_CardinalityType
<1>1. \A T \in SUBSET S : Sm(T) \in Int /\ (T # {} => Sm(T) = f[Pick(T)] + Sm(T \ {Pick(T)}))
  BY <1>0, SumPick DEF IntOn
<1>2. 0 \in N
  <2>1. \A T \in SUBSET S : Cardinality(T) <= 0 => T = {}
    BY <1>0, FS_EmptySet
  <2> QED BY <2>1
<1>3. ASSUME NEW n \in Nat, n \in N PROVE n + 1 \in N
  <2> SUFFICES ASSUME NEW T \in SUBSET S, Cardinality(T) <= n + 1, NEW y \in T
               PROVE  Sm(T) = f[y] + Sm(T \ {y})
    OBVIOUS
  <2> DEFINE c == Pick(T)
  <2>1. c \in T
    BY PickIn
  <2>2. CASE c = y
    BY <1>1, <2>2
  <2>3. CASE c # y
    <3>1. Cardinality(T \ {c}) = Cardinality(T) - 1 /\ Cardinality(T \ {y}) = Cardinality(T) - 1
      BY <1>0, <2>1, FS_RemoveElement
    <3>2. Cardinality(T \ {c}) <= n /\ Cardinality(T \ {y}) <= n
      BY <1>0, <3>1
    <3> HIDE DEF c, Sm
    <3>3. Sm(T \ {c}) = f[y] + Sm((T \ {c}) \ {y})
      BY <1>3, <2>3, <3>2
    <3>4. Sm(T \ {y}) = f[c] + Sm((T \ {y}) \ {c})
      BY <1>3, <2>1, <2>3, <3>2
    <3>5. (T \ {c}) \ {y} = (T \ {y}) \ {c}
      OBVIOUS
    <3>6. Sm(T) = f[c] + Sm(T \ {c})
      BY <1>1 DEF c
    <3>7. f[c] \in Int /\ f[y] \in Int /\ Sm((T \ {y}) \ {c}) \in Int
      BY <1>1, <2>1 DEF IntOn
    <3> DEFINE z == Sm((T \ {y}) \ {c})
    <3>8. Sm(T \ {c}) = f[y] + z /\ Sm(T \ {y}) = f[c] + z /\ z \in Int
      BY <3>3, <3>4, <3>5, <3>7
    <3> HIDE DEF z
    <3> QED BY <3>6, <3>7, <3>8
  <2> QED BY <2>2, <2>3
<1>4. \A n \in Nat : n \in N
  <2> HIDE DEF N
  <2> QED BY <1>2, <1>3, Induction
<1> QED BY <1>0, <1>4

\* Equal values give equal sums.
LEMMA SumExt ==
    ASSUME NEW S, IsFiniteSet(S), NEW f, NEW g, IntOn(f, S), \A x \in S : f[x] = g[x]
    PROVE  SumFunctionOnSet(f, S) = SumFunctionOnSet(g, S)
<1> DEFINE P == {T \in SUBSET S : SumFunctionOnSet(f, T) = SumFunctionOnSet(g, T)}
<1>1. {} \in P
  BY SumEmpty
<1>2. ASSUME NEW T \in SUBSET S, NEW x \in T, T \ {x} \in P PROVE T \in P
  <2>1. IsFiniteSet(T) /\ IntOn(f, T) /\ IntOn(g, T)
    BY FS_Subset DEF IntOn
  <2> QED BY <1>2, <2>1, SumRemove
<1>3. \A T \in SUBSET S : T \in P
  <2> HIDE DEF P
  <2> QED BY <1>1, <1>2, SetInduction
<1> QED BY <1>3

\* Sums are additive.
LEMMA SumPlus ==
    ASSUME NEW S, IsFiniteSet(S), NEW f, NEW g, NEW h, IntOn(f, S), IntOn(g, S),
           \A x \in S : h[x] = f[x] + g[x]
    PROVE  SumFunctionOnSet(h, S) = SumFunctionOnSet(f, S) + SumFunctionOnSet(g, S)
<1> DEFINE P == {T \in SUBSET S : SumFunctionOnSet(h, T) =
                     SumFunctionOnSet(f, T) + SumFunctionOnSet(g, T)}
<1>1. {} \in P
  BY SumEmpty
<1>2. ASSUME NEW T \in SUBSET S, NEW x \in T, T \ {x} \in P PROVE T \in P
  <2> DEFINE R == T \ {x}
  <2>1. IsFiniteSet(T) /\ IntOn(f, T) /\ IntOn(g, T) /\ IntOn(h, T)
    BY FS_Subset DEF IntOn
  <2>2. IsFiniteSet(R) /\ IntOn(f, R) /\ IntOn(g, R)
    BY FS_Subset DEF IntOn
  <2>3. /\ SumFunctionOnSet(f, T) = f[x] + SumFunctionOnSet(f, R)
        /\ SumFunctionOnSet(g, T) = g[x] + SumFunctionOnSet(g, R)
        /\ SumFunctionOnSet(h, T) = h[x] + SumFunctionOnSet(h, R)
    BY <2>1, SumRemove
  <2>4. SumFunctionOnSet(f, R) \in Int /\ SumFunctionOnSet(g, R) \in Int
    BY <2>2, SumType
  <2>5. f[x] \in Int /\ g[x] \in Int /\ h[x] = f[x] + g[x]
    BY DEF IntOn
  <2>6. SumFunctionOnSet(h, R) = SumFunctionOnSet(f, R) + SumFunctionOnSet(g, R)
    BY <1>2
  <2> QED BY <2>3, <2>4, <2>5, <2>6
<1>3. \A T \in SUBSET S : T \in P
  <2> HIDE DEF P
  <2> QED BY <1>1, <1>2, SetInduction
<1> QED BY <1>3

\* A common factor may be taken out.
LEMMA SumScale ==
    ASSUME NEW S, IsFiniteSet(S), NEW f, NEW h, NEW c \in Int, IntOn(f, S),
           \A x \in S : h[x] = c * f[x]
    PROVE  SumFunctionOnSet(h, S) = c * SumFunctionOnSet(f, S)
<1> DEFINE P == {T \in SUBSET S : SumFunctionOnSet(h, T) = c * SumFunctionOnSet(f, T)}
<1>1. {} \in P
  BY SumEmpty
<1>2. ASSUME NEW T \in SUBSET S, NEW x \in T, T \ {x} \in P PROVE T \in P
  <2> DEFINE R == T \ {x}
  <2>1. IsFiniteSet(T) /\ IntOn(f, T) /\ IntOn(h, T)
    BY FS_Subset DEF IntOn
  <2>2. IsFiniteSet(R) /\ IntOn(f, R)
    BY FS_Subset DEF IntOn
  <2>3. /\ SumFunctionOnSet(f, T) = f[x] + SumFunctionOnSet(f, R)
        /\ SumFunctionOnSet(h, T) = h[x] + SumFunctionOnSet(h, R)
    BY <2>1, SumRemove
  <2>4. SumFunctionOnSet(f, R) \in Int
    BY <2>2, SumType
  <2>5. f[x] \in Int /\ h[x] = c * f[x]
    BY DEF IntOn
  <2>6. SumFunctionOnSet(h, R) = c * SumFunctionOnSet(f, R)
    BY <1>2
  <2> QED BY <2>3, <2>4, <2>5, <2>6
<1>3. \A T \in SUBSET S : T \in P
  <2> HIDE DEF P
  <2> QED BY <1>1, <1>2, SetInduction
<1> QED BY <1>3

\* The sums of the rows, with index in A, of the matrix m.
RowSums(m, A, B) == [a \in A |-> SumFunctionOnSet(m[a], B)]

\* The order of two sums may be exchanged: n is the transpose of m.
LEMMA SumExchange ==
    ASSUME NEW A, IsFiniteSet(A), NEW B, IsFiniteSet(B), NEW m, NEW n,
           \A a \in A, b \in B : m[a][b] \in Int /\ n[b][a] = m[a][b]
    PROVE  SumFunctionOnSet(RowSums(m, A, B), A) = SumFunctionOnSet(RowSums(n, B, A), B)
<1> DEFINE row == RowSums(m, A, B)
           col == RowSums(n, B, A)
<1>a. /\ \A a \in A : row[a] = SumFunctionOnSet(m[a], B)
      /\ \A b \in B : col[b] = SumFunctionOnSet(n[b], A)
  BY DEF RowSums
<1> HIDE DEF row, col
<1> DEFINE Col(T) == [b \in B |-> SumFunctionOnSet(n[b], T)]
           P == {T \in SUBSET A : SumFunctionOnSet(row, T) = SumFunctionOnSet(Col(T), B)}
<1>0. /\ \A T \in SUBSET A : IsFiniteSet(T) /\ \A b \in B : IntOn(n[b], T)
      /\ \A a \in A : IntOn(m[a], B) /\ row[a] \in Int
  <2>1. \A T \in SUBSET A : IsFiniteSet(T)
    BY FS_Subset
  <2>2. \A a \in A : IntOn(m[a], B)
    BY DEF IntOn
  <2>3. \A a \in A : row[a] \in Int
    BY <1>a, <2>2, SumType
  <2> QED BY <2>1, <2>2, <2>3 DEF IntOn
<1>1. {} \in P
  <2> DEFINE zero == [b \in B |-> 0]
  <2>1. IntOn(zero, B) /\ \A b \in B : Col({})[b] = 0 * zero[b]
    BY SumEmpty DEF IntOn
  <2> HIDE DEF Col, zero
  <2>2. SumFunctionOnSet(Col({}), B) = 0 * SumFunctionOnSet(zero, B)
    BY <2>1, SumScale
  <2>3. SumFunctionOnSet(zero, B) \in Int
    BY <2>1, SumType
  <2> QED BY <2>2, <2>3, SumEmpty
<1>2. ASSUME NEW T \in SUBSET A, NEW x \in T, T \ {x} \in P PROVE T \in P
  <2> DEFINE R == T \ {x}
  <2>1. IsFiniteSet(T) /\ IsFiniteSet(R) /\ IntOn(row, T) /\ IntOn(m[x], B) /\ R \in SUBSET A
    BY <1>0 DEF IntOn
  <2>2. SumFunctionOnSet(row, T) = row[x] + SumFunctionOnSet(row, R)
    BY <2>1, SumRemove
  <2>3. row[x] = SumFunctionOnSet(m[x], B)
    BY <1>a
  <2>4. \A b \in B : Col(T)[b] = m[x][b] + Col(R)[b] /\ Col(R)[b] \in Int
    <3> TAKE b \in B
    <3>1. IntOn(n[b], T) /\ IntOn(n[b], R) /\ n[b][x] = m[x][b]
      BY <1>0, <2>1
    <3>2. SumFunctionOnSet(n[b], T) = n[b][x] + SumFunctionOnSet(n[b], R)
      BY <2>1, <3>1, SumRemove
    <3>3. SumFunctionOnSet(n[b], R) \in Int
      BY <2>1, <3>1, SumType
    <3> QED BY <3>1, <3>2, <3>3
  <2>5. SumFunctionOnSet(Col(T), B) = SumFunctionOnSet(m[x], B) + SumFunctionOnSet(Col(R), B)
    <3> HIDE DEF Col, R
    <3> QED BY <2>1, <2>4, SumPlus DEF IntOn
  <2>6. SumFunctionOnSet(row, R) = SumFunctionOnSet(Col(R), B)
    BY <1>2
  <2> QED BY <2>2, <2>3, <2>5, <2>6
<1>3. A \in P
  <2> HIDE DEF P
  <2> QED BY <1>1, <1>2, SetInduction
<1>4. SumFunctionOnSet(Col(A), B) = SumFunctionOnSet(col, B)
  <2>1. IntOn(Col(A), B)
    BY <1>0, SumType DEF IntOn
  <2>2. \A b \in B : Col(A)[b] = col[b]
    BY <1>a
  <2> HIDE DEF Col
  <2> QED BY <2>1, <2>2, SumExt
<1> QED BY <1>3, <1>4 DEF row, col

\* Congruent values give congruent sums.
LEMMA SumCong ==
    ASSUME NEW S, IsFiniteSet(S), NEW f, NEW g, IntOn(f, S), IntOn(g, S),
           \A x \in S : f[x] % Q = g[x] % Q
    PROVE  SumFunctionOnSet(f, S) % Q = SumFunctionOnSet(g, S) % Q
<1> DEFINE P == {T \in SUBSET S : SumFunctionOnSet(f, T) % Q = SumFunctionOnSet(g, T) % Q}
<1>1. {} \in P
  BY SumEmpty
<1>2. ASSUME NEW T \in SUBSET S, NEW x \in T, T \ {x} \in P PROVE T \in P
  <2> DEFINE R == T \ {x}
  <2>1. IsFiniteSet(T) /\ IntOn(f, T) /\ IntOn(g, T)
    BY FS_Subset DEF IntOn
  <2>2. IsFiniteSet(R) /\ IntOn(f, R) /\ IntOn(g, R)
    BY FS_Subset DEF IntOn
  <2>3. /\ SumFunctionOnSet(f, T) = f[x] + SumFunctionOnSet(f, R)
        /\ SumFunctionOnSet(g, T) = g[x] + SumFunctionOnSet(g, R)
    BY <2>1, SumRemove
  <2>4. SumFunctionOnSet(f, R) \in Int /\ SumFunctionOnSet(g, R) \in Int
    BY <2>2, SumType
  <2>5. f[x] \in Int /\ g[x] \in Int /\ f[x] % Q = g[x] % Q
    BY DEF IntOn
  <2>6. SumFunctionOnSet(f, R) % Q = SumFunctionOnSet(g, R) % Q
    BY <1>2
  <2> HIDE DEF R
  <2>7. (f[x] + SumFunctionOnSet(f, R)) % Q = (g[x] + SumFunctionOnSet(g, R)) % Q
    BY <2>4, <2>5, <2>6, CongPlus
  <2> QED BY <2>3, <2>7
<1>3. \A T \in SUBSET S : T \in P
  <2> HIDE DEF P
  <2> QED BY <1>1, <1>2, SetInduction
<1> QED BY <1>3

\* A sum of numbers up to d is at most their number times d.
LEMMA SumBound ==
    ASSUME NEW S, IsFiniteSet(S), NEW d \in Nat, NEW f, \A x \in S : f[x] \in 0 .. d
    PROVE  /\ SumFunctionOnSet(f, S) \in Int /\ SumFunctionOnSet(f, S) \in Nat
           /\ SumFunctionOnSet(f, S) <= Cardinality(S) * d
<1> DEFINE P == {T \in SUBSET S : /\ SumFunctionOnSet(f, T) \in Nat
                                  /\ SumFunctionOnSet(f, T) <= Cardinality(T) * d}
<1>1. \A T \in SUBSET S : IsFiniteSet(T) /\ Cardinality(T) \in Nat /\ IntOn(f, T)
  BY FS_Subset, FS_CardinalityType DEF IntOn
<1>2. {} \in P
  <2>1. Cardinality({}) = 0 /\ 0 * d = 0
    BY FS_EmptySet
  <2> QED BY <2>1, SumEmpty
<1>3. ASSUME NEW T \in SUBSET S, NEW x \in T, T \ {x} \in P PROVE T \in P
  <2> DEFINE R == T \ {x}
             s == SumFunctionOnSet(f, R)
             n == Cardinality(R)
             y == f[x]
  <2>1. SumFunctionOnSet(f, T) = y + s
    BY <1>1, SumRemove
  <2>2. Cardinality(T) = n + 1
    <3>1. Cardinality(R) = Cardinality(T) - 1
      BY <1>1, FS_RemoveElement
    <3> QED BY <1>1, <3>1
  <2>3. s \in Nat /\ s <= n * d /\ n \in Nat /\ y \in 0 .. d
    BY <1>1, <1>3
  <2> HIDE DEF s, n, y, P
  <2>4. y + s \in Nat /\ y + s <= (n + 1) * d
    <3> DEFINE e == n * d
    <3>1. e \in Int /\ (n + 1) * d = e + d
      BY <2>3
    <3>2. s <= e
      BY <2>3
    <3> HIDE DEF e
    <3> QED BY <2>3, <3>1, <3>2
  <2> QED BY <2>1, <2>2, <2>4 DEF P
<1>4. S \in P
  <2>1. \A T \in SUBSET S : \A x \in T : T \ {x} \in P => T \in P
    BY <1>3
  <2> HIDE DEF P
  <2> QED BY <1>2, <2>1, SetInduction
<1> QED BY <1>4

LEMMA SumQDef == ASSUME NEW f PROVE SumQ(f) = SumFunctionOnSet(f, DOMAIN f) % Q
BY DEF SumQ, SumFunction

\* SumQ is a number mod Q.
LEMMA SumQType ==
    ASSUME NEW f, IsFiniteSet(DOMAIN f), IntOn(f, DOMAIN f)
    PROVE  SumQ(f) \in Zq /\ SumQ(f) \in Int
<1>1. SumFunctionOnSet(f, DOMAIN f) \in Int
  BY SumType
<1> QED BY <1>1, SumQDef, ModType

-----------------------------------------------------------------------------
(* Products.                                                               *)

Product(f, S) == FoldFunctionOnSet(LAMBDA x, y : x * y, 1, f, S)

\* The recursive function whose value at S is Product(f, S).
ProdIter(f, S) ==
    CHOOSE iter : iter = [s \in SUBSET S |->
        IF s = {} THEN 1 ELSE f[Pick(s)] * iter[s \ {Pick(s)}]]

LEMMA ProdIterDef ==
    ASSUME NEW f, NEW S PROVE Product(f, S) = ProdIter(f, S)[S]
BY DEF Product, FoldFunctionOnSet, MapThenFoldSet, ProdIter, Pick

\* It satisfies its equation.
LEMMA ProdIterEq ==
    ASSUME NEW S, IsFiniteSet(S), NEW f, IntOn(f, S)
    PROVE  /\ ProdIter(f, S) \in [SUBSET S -> Int]
           /\ \A s \in SUBSET S : ProdIter(f, S)[s] =
                 IF s = {} THEN 1 ELSE f[Pick(s)] * ProdIter(f, S)[s \ {Pick(s)}]
<1> DEFINE Eq(g) == g = [s \in SUBSET S |-> IF s = {} THEN 1 ELSE f[Pick(s)] * g[s \ {Pick(s)}]]
           H == [z \in S \X Int |-> f[z[1]] * z[2]]
<1>1. H \in [S \X Int -> Int] /\ 1 \in Int
  BY DEF IntOn
<1>2. \E g \in [SUBSET S -> Int] : Follows(g, S, 1, H)
  <2> HIDE DEF H
  <2> QED BY <1>1, FoldExists
<1>3. PICK g \in [SUBSET S -> Int] : Follows(g, S, 1, H)
  BY <1>2
<1>4. \A s \in SUBSET S : s # {} => Pick(s) \in S /\ s \ {Pick(s)} \in SUBSET S
  BY PickIn
<1>5. \A s \in SUBSET S : g[s] = IF s = {} THEN 1 ELSE f[Pick(s)] * g[s \ {Pick(s)}]
  BY <1>3, <1>4 DEF Follows
<1>6. Eq(ProdIter(f, S))
  <2>1. Eq(g)
    BY <1>5
  <2> QED BY <2>1, Zenon DEF ProdIter
<1> DEFINE h == ProdIter(f, S)
<1>7. \A s \in SUBSET S : h[s] = IF s = {} THEN 1 ELSE f[Pick(s)] * h[s \ {Pick(s)}]
  <2> HIDE DEF h
  <2>1. h = [s \in SUBSET S |-> IF s = {} THEN 1 ELSE f[Pick(s)] * h[s \ {Pick(s)}]]
    BY <1>6 DEF h
  <2> QED BY <2>1
<1>8. \A s \in SUBSET S : g[s] = h[s]
  <2>1. g[{}] = h[{}]
    BY <1>5, <1>7
  <2>2. \A s \in SUBSET S : (s # {} /\ g[s \ {Pick(s)}] = h[s \ {Pick(s)}]) => g[s] = h[s]
    BY <1>5, <1>7
  <2> HIDE DEF h
  <2> QED BY <2>1, <2>2, FoldAgree
<1>9. h \in [SUBSET S -> Int]
  <2>1. h = [s \in SUBSET S |-> h[s]]
    BY <1>6
  <2> HIDE DEF h
  <2> QED BY <1>8, <2>1
<1> QED BY <1>7, <1>9

\* The value at a subset does not depend on the set one starts from.
LEMMA ProdIterSubset ==
    ASSUME NEW S, IsFiniteSet(S), NEW f, IntOn(f, S), NEW T \in SUBSET S
    PROVE  ProdIter(f, S)[T] = Product(f, T)
<1> DEFINE g == ProdIter(f, S)
           h == ProdIter(f, T)
<1>1. IsFiniteSet(T) /\ IntOn(f, T)
  BY FS_Subset DEF IntOn
<1>2. \A s \in SUBSET T : g[s] = IF s = {} THEN 1 ELSE f[Pick(s)] * g[s \ {Pick(s)}]
  BY ProdIterEq
<1>3. \A s \in SUBSET T : h[s] = IF s = {} THEN 1 ELSE f[Pick(s)] * h[s \ {Pick(s)}]
  BY <1>1, ProdIterEq
<1> HIDE DEF g, h
<1>4. \A s \in SUBSET T : g[s] = h[s]
  <2>1. g[{}] = h[{}]
    BY <1>2, <1>3
  <2>2. \A s \in SUBSET T : (s # {} /\ g[s \ {Pick(s)}] = h[s \ {Pick(s)}]) => g[s] = h[s]
    BY <1>2, <1>3
  <2> QED BY <1>1, <2>1, <2>2, FoldAgree
<1> QED BY <1>4, ProdIterDef DEF g, h

\* The product over a set, by its chosen element.
LEMMA ProdPick ==
    ASSUME NEW S, IsFiniteSet(S), NEW f, IntOn(f, S)
    PROVE  /\ Product(f, S) \in Int
           /\ S = {} => Product(f, S) = 1
           /\ S # {} => Product(f, S) =
                 f[Pick(S)] * Product(f, S \ {Pick(S)})
<1>1. Product(f, S) = ProdIter(f, S)[S]
  BY ProdIterDef
<1>2. Product(f, S \ {Pick(S)}) = ProdIter(f, S)[S \ {Pick(S)}]
  BY ProdIterSubset
<1> DEFINE g == ProdIter(f, S)
<1>3. /\ g \in [SUBSET S -> Int]
      /\ \A s \in SUBSET S : g[s] = IF s = {} THEN 1 ELSE f[Pick(s)] * g[s \ {Pick(s)}]
  BY ProdIterEq
<1>4. Product(f, S) = g[S] /\ Product(f, S \ {Pick(S)}) = g[S \ {Pick(S)}]
  BY <1>1, <1>2
<1> HIDE DEF g
<1>5. S \in SUBSET S /\ g[S] \in Int
  BY <1>3
<1> QED BY <1>3, <1>4, <1>5

LEMMA ProdType ==
    ASSUME NEW S, IsFiniteSet(S), NEW f, IntOn(f, S) PROVE Product(f, S) \in Int
BY ProdPick

LEMMA ProdEmpty == ASSUME NEW f PROVE Product(f, {}) = 1
BY ProdPick, FS_EmptySet DEF IntOn

\* Any element may be taken out.
LEMMA ProdRemove ==
    ASSUME NEW S, IsFiniteSet(S), NEW f, IntOn(f, S), NEW x \in S
    PROVE  Product(f, S) = f[x] * Product(f, S \ {x})
<1> DEFINE Pr(T) == Product(f, T)
           N == {n \in Nat : \A T \in SUBSET S : Cardinality(T) <= n =>
                    \A y \in T : Pr(T) = f[y] * Pr(T \ {y})}
<1>0. \A T \in SUBSET S : IsFiniteSet(T) /\ Cardinality(T) \in Nat
  BY FS_Subset, FS_CardinalityType
<1>1. \A T \in SUBSET S : Pr(T) \in Int /\ (T # {} => Pr(T) = f[Pick(T)] * Pr(T \ {Pick(T)}))
  BY <1>0, ProdPick DEF IntOn
<1>2. 0 \in N
  <2>1. \A T \in SUBSET S : Cardinality(T) <= 0 => T = {}
    BY <1>0, FS_EmptySet
  <2> QED BY <2>1
<1>3. ASSUME NEW n \in Nat, n \in N PROVE n + 1 \in N
  <2> SUFFICES ASSUME NEW T \in SUBSET S, Cardinality(T) <= n + 1, NEW y \in T
               PROVE  Pr(T) = f[y] * Pr(T \ {y})
    OBVIOUS
  <2> DEFINE c == Pick(T)
  <2>1. c \in T
    BY PickIn
  <2>2. CASE c = y
    BY <1>1, <2>2
  <2>3. CASE c # y
    <3>1. Cardinality(T \ {c}) = Cardinality(T) - 1 /\ Cardinality(T \ {y}) = Cardinality(T) - 1
      BY <1>0, <2>1, FS_RemoveElement
    <3>2. Cardinality(T \ {c}) <= n /\ Cardinality(T \ {y}) <= n
      BY <1>0, <3>1
    <3> HIDE DEF c, Pr
    <3>3. Pr(T \ {c}) = f[y] * Pr((T \ {c}) \ {y})
      BY <1>3, <2>3, <3>2
    <3>4. Pr(T \ {y}) = f[c] * Pr((T \ {y}) \ {c})
      BY <1>3, <2>1, <2>3, <3>2
    <3>5. (T \ {c}) \ {y} = (T \ {y}) \ {c}
      OBVIOUS
    <3>6. Pr(T) = f[c] * Pr(T \ {c})
      BY <1>1 DEF c
    <3>7. f[c] \in Int /\ f[y] \in Int /\ Pr((T \ {y}) \ {c}) \in Int
      BY <1>1, <2>1 DEF IntOn
    <3> DEFINE z == Pr((T \ {y}) \ {c})
    <3>8. Pr(T \ {c}) = f[y] * z /\ Pr(T \ {y}) = f[c] * z /\ z \in Int
      BY <3>3, <3>4, <3>5, <3>7
    <3> HIDE DEF z
    <3> QED BY <3>6, <3>7, <3>8
  <2> QED BY <2>2, <2>3
<1>4. \A n \in Nat : n \in N
  <2> HIDE DEF N
  <2> QED BY <1>2, <1>3, Induction
<1> QED BY <1>0, <1>4

\* Equal values give equal products.
LEMMA ProdExt ==
    ASSUME NEW S, IsFiniteSet(S), NEW f, NEW g, IntOn(f, S), \A x \in S : f[x] = g[x]
    PROVE  Product(f, S) = Product(g, S)
<1> DEFINE P == {T \in SUBSET S : Product(f, T) = Product(g, T)}
<1>1. {} \in P
  BY ProdEmpty
<1>2. ASSUME NEW T \in SUBSET S, NEW x \in T, T \ {x} \in P PROVE T \in P
  <2>1. IsFiniteSet(T) /\ IntOn(f, T) /\ IntOn(g, T)
    BY FS_Subset DEF IntOn
  <2> QED BY <1>2, <2>1, ProdRemove
<1>3. \A T \in SUBSET S : T \in P
  <2> HIDE DEF P
  <2> QED BY <1>1, <1>2, SetInduction
<1> QED BY <1>3

-----------------------------------------------------------------------------
(* Powers and polynomials.                                                 *)

LEMMA PowersEq ==
    ASSUME NEW t \in Nat, NEW x \in Int
    PROVE  /\ Powers(t, x) \in [0 .. t -> Int]
           /\ Powers(t, x)[0] = 1
           /\ \A i \in 1 .. t : Powers(t, x)[i] = (Powers(t, x)[i - 1] * x) % Q
<1> DEFINE Eq(g, n) == g = [i \in 0 .. n |-> IF i = 0 THEN 1 ELSE (g[i - 1] * x) % Q]
           N == {n \in Nat : \E g \in [0 .. n -> Int] : Eq(g, n)}
<1>1. 0 \in N
  <2> DEFINE g == [i \in 0 .. 0 |-> 1]
  <2>1. g \in [0 .. 0 -> Int] /\ Eq(g, 0)
    OBVIOUS
  <2> QED BY <2>1
<1>2. ASSUME NEW n \in Nat, n \in N PROVE n + 1 \in N
  <2>1. PICK g \in [0 .. n -> Int] : Eq(g, n)
    BY <1>2
  <2> DEFINE h == [i \in 0 .. n + 1 |-> IF i = 0 THEN 1 ELSE (g[i - 1] * x) % Q]
  <2>2. h \in [0 .. n + 1 -> Int]
    <3>1. ASSUME NEW i \in 0 .. n + 1, i # 0 PROVE (g[i - 1] * x) % Q \in Int
      <4>1. i - 1 \in 0 .. n
        BY <3>1
      <4>2. g[i - 1] \in Int
        BY <4>1
      <4>3. g[i - 1] * x \in Int
        BY <4>2
      <4> QED BY <4>3, ModType
    <3> QED BY <3>1
  <2>3. \A i \in 0 .. n : h[i] = g[i]
    BY <2>1
  <2>4. Eq(h, n + 1)
    <3>1. \A i \in 0 .. n + 1 : h[i] = IF i = 0 THEN 1 ELSE (h[i - 1] * x) % Q
      <4> SUFFICES ASSUME NEW i \in 0 .. n + 1, i # 0 PROVE h[i] = (h[i - 1] * x) % Q
        OBVIOUS
      <4>1. i - 1 \in 0 .. n
        OBVIOUS
      <4>2. h[i - 1] = g[i - 1]
        BY <2>3, <4>1
      <4>3. h[i] = (g[i - 1] * x) % Q
        OBVIOUS
      <4> QED BY <4>2, <4>3
    <3>2. h = [i \in 0 .. n + 1 |-> h[i]]
      OBVIOUS
    <3> HIDE DEF h
    <3> QED BY <3>1, <3>2
  <2> HIDE DEF h, Eq
  <2> QED BY <2>2, <2>4
<1>3. t \in N
  <2> HIDE DEF N
  <2> QED BY <1>1, <1>2, Induction
<1>4. PICK g \in [0 .. t -> Int] : Eq(g, t)
  BY <1>3
<1>5. Eq(Powers(t, x), t)
  BY <1>4, Zenon DEF Powers
<1> DEFINE h == Powers(t, x)
<1>6. \A i \in 0 .. t : h[i] = IF i = 0 THEN 1 ELSE (h[i - 1] * x) % Q
  <2> HIDE DEF h
  <2>1. Eq(h, t)
    BY <1>5 DEF h
  <2> QED BY <2>1
<1>7. h = [i \in 0 .. t |-> h[i]]
  BY <1>5
<1> HIDE DEF h
<1> DEFINE M == {n \in Nat : n <= t => h[n] \in Int}
<1>8. 0 \in M
  BY <1>6
<1>9. ASSUME NEW n \in Nat, n \in M PROVE n + 1 \in M
  <2> SUFFICES ASSUME n + 1 <= t PROVE h[n + 1] \in Int
    OBVIOUS
  <2>1. h[n + 1] = (h[n] * x) % Q /\ h[n] \in Int
    BY <1>6, <1>9
  <2>2. h[n] * x \in Int
    BY <2>1
  <2> QED BY <2>1, <2>2, ModType
<1>10. \A n \in Nat : n \in M
  <2> HIDE DEF M
  <2> QED BY <1>8, <1>9, Induction
<1>11. h \in [0 .. t -> Int]
  BY <1>7, <1>10
<1>12. h[0] = 1 /\ \A i \in 1 .. t : h[i] = (h[i - 1] * x) % Q
  BY <1>6
<1> QED BY <1>11, <1>12 DEF h

\* A polynomial with integer coefficients takes values mod Q.
LEMMA EvalType ==
    ASSUME NEW t \in Nat, NEW v, IntOn(v, 0 .. t), NEW id \in Int
    PROVE  evaluatePolynomial(t, v, id) \in Zq /\ evaluatePolynomial(t, v, id) \in Int
<1> DEFINE X == Powers(t, id)
           f == [i \in 0 .. t |-> v[i] * X[i]]
<1>1. X \in [0 .. t -> Int]
  BY PowersEq
<1> HIDE DEF X
<1>2. IntOn(f, 0 .. t) /\ DOMAIN f = 0 .. t /\ IsFiniteSet(0 .. t)
  <2>1. \A i \in 0 .. t : v[i] \in Int /\ X[i] \in Int
    BY <1>1 DEF IntOn
  <2>2. \A i \in 0 .. t : v[i] * X[i] \in Int
    BY <2>1
  <2>3. IsFiniteSet(0 .. t)
    BY FS_Interval
  <2> QED BY <2>2, <2>3 DEF IntOn
<1>3. evaluatePolynomial(t, v, id) = SumQ(f)
  BY DEF evaluatePolynomial, X
<1> HIDE DEF f
<1> QED BY <1>2, <1>3, SumQType

\* The share that was dealt verifies, and no other value does.
LEMMA VerifyIff ==
    ASSUME NEW t \in Nat, NEW v, IntOn(v, 0 .. t), NEW id \in Int, NEW s \in Zq
    PROVE  Verify([threshold |-> t, id |-> id, share |-> s], t, v)
              <=> s = evaluatePolynomial(t, v, id)
<1>1. s % Q = s
  BY ModSmall
<1> DEFINE r == [threshold |-> t, id |-> id, share |-> s]
<1>2. r.threshold = t /\ r.id = id /\ r.share = s
  OBVIOUS
<1>3. Verify(r, t, v) <=> r.threshold = t /\ r.share % Q = evaluatePolynomial(t, v, r.id)
  BY DEF Verify, evaluatePolynomial
<1> HIDE DEF r
<1>4. Verify(r, t, v) <=> s = evaluatePolynomial(t, v, id)
  BY <1>1, <1>2, <1>3
<1> QED BY <1>4 DEF r

\* The sum of the polynomials v[j], and their values at id.
PolySum(t, J, v) == [c \in 0 .. t |-> SumQ([j \in J |-> v[j][c]])]
Values(t, J, v, id) == [j \in J |-> evaluatePolynomial(t, v[j], id)]

\* The value of a sum of polynomials is the sum of their values.
LEMMA EvalSum ==
    ASSUME NEW t \in Nat, NEW J, IsFiniteSet(J), NEW v, \A j \in J : IntOn(v[j], 0 .. t),
           NEW id \in Int
    PROVE  evaluatePolynomial(t, PolySum(t, J, v), id) = SumQ(Values(t, J, v, id))
<1> DEFINE w == PolySum(t, J, v)
<1>0. \A c \in 0 .. t : w[c] = SumQ([j \in J |-> v[j][c]])
  BY DEF PolySum
<1> HIDE DEF w
<1> DEFINE X == Powers(t, id)
           C == 0 .. t
           m == [j \in J |-> [c \in C |-> v[j][c] * X[c]]]
           n == [c \in C |-> [j \in J |-> v[j][c] * X[c]]]
           coef(c) == [j \in J |-> v[j][c]]
           row == RowSums(m, J, C)
           col == RowSums(n, C, J)
           wX == [c \in C |-> w[c] * X[c]]
           val == [j \in J |-> evaluatePolynomial(t, v[j], id)]
<1>1. X \in [C -> Int] /\ IsFiniteSet(C)
  BY PowersEq, FS_Interval
<1> HIDE DEF X
<1>2. \A j \in J, c \in C : /\ m[j][c] = v[j][c] * X[c] /\ n[c][j] = m[j][c]
                            /\ m[j][c] \in Int /\ v[j][c] \in Int
  <2>1. \A j \in J, c \in C : v[j][c] \in Int /\ X[c] \in Int
    BY <1>1 DEF IntOn
  <2>2. \A j \in J, c \in C : v[j][c] * X[c] \in Int
    BY <2>1
  <2> QED BY <2>1, <2>2
<1>3. SumFunctionOnSet(row, J) = SumFunctionOnSet(col, C)
  <2> HIDE DEF C, m, n
  <2> QED BY <1>1, <1>2, SumExchange
<1>a. /\ \A j \in J : row[j] = SumFunctionOnSet(m[j], C)
      /\ \A c \in C : col[c] = SumFunctionOnSet(n[c], J)
  BY DEF RowSums
<1> HIDE DEF row, col
<1>4. \A c \in C : col[c] \in Int /\ wX[c] \in Int /\ wX[c] % Q = col[c] % Q
  <2> TAKE c \in C
  <2> DEFINE f == coef(c)
  <2>1. IntOn(f, J) /\ DOMAIN f = J /\ \A j \in J : n[c][j] = X[c] * f[j]
    <3>1. \A j \in J : f[j] = v[j][c] /\ n[c][j] = v[j][c] * X[c] /\ v[j][c] \in Int
      BY <1>2
    <3>2. \A j \in J : v[j][c] * X[c] = X[c] * v[j][c]
      BY <1>1, <3>1
    <3> QED BY <3>1, <3>2 DEF IntOn
  <2>2. w[c] = SumQ(f) /\ col[c] = SumFunctionOnSet(n[c], J) /\ wX[c] = w[c] * X[c] /\ X[c] \in Int
    BY <1>0, <1>a, <1>1
  <2> HIDE DEF f, n, m, wX, coef
  <2> DEFINE s == SumFunctionOnSet(f, J)
  <2>3. s \in Int /\ w[c] = s % Q /\ w[c] \in Int
    BY <2>1, <2>2, SumType, SumQDef, SumQType
  <2>4. col[c] = X[c] * s
    BY <2>1, <2>2, SumScale
  <2> HIDE DEF s
  <2> DEFINE y == X[c]
             u == w[c]
  <2>5. u \in Int /\ y \in Int /\ s \in Int /\ u % Q = s % Q
    BY <2>2, <2>3, ModMod
  <2>6. wX[c] = u * y /\ col[c] = y * s
    BY <2>2, <2>4
  <2> HIDE DEF y, u
  <2>7. (u * y) % Q = (s * y) % Q
    BY <2>5, CongScale
  <2>8. y * s = s * y /\ y * s \in Int /\ u * y \in Int
    BY <2>5
  <2> QED BY <2>6, <2>7, <2>8
<1>5. \A j \in J : val[j] \in Int /\ row[j] \in Int /\ val[j] % Q = row[j] % Q
  <2> TAKE j \in J
  <2> DEFINE g == [c \in C |-> v[j][c] * X[c]]
  <2>1. IntOn(g, C) /\ DOMAIN g = C /\ m[j] = g
    BY <1>2 DEF IntOn
  <2>2. val[j] = SumQ(g) /\ row[j] = SumFunctionOnSet(g, C)
    BY <1>a, <2>1 DEF evaluatePolynomial, X
  <2> HIDE DEF g, m, val, C
  <2>3. row[j] \in Int
    BY <1>1, <2>1, <2>2, SumType
  <2>4. val[j] = row[j] % Q
    BY <2>1, <2>2, SumQDef
  <2> QED BY <2>3, <2>4, ModType, ModMod
<1>6. SumFunctionOnSet(wX, C) % Q = SumFunctionOnSet(col, C) % Q
  <2>1. IntOn(wX, C) /\ IntOn(col, C)
    BY <1>4 DEF IntOn
  <2> HIDE DEF wX, C
  <2> QED BY <1>1, <1>4, <2>1, SumCong
<1>7. SumFunctionOnSet(val, J) % Q = SumFunctionOnSet(row, J) % Q
  <2>1. IntOn(val, J) /\ IntOn(row, J)
    BY <1>5 DEF IntOn
  <2> HIDE DEF val
  <2> QED BY <1>5, <2>1, SumCong
<1>8. evaluatePolynomial(t, w, id) = SumFunctionOnSet(wX, C) % Q
  <2>1. evaluatePolynomial(t, w, id) = SumQ(wX) /\ DOMAIN wX = C
    BY DEF evaluatePolynomial, X
  <2> HIDE DEF wX
  <2> QED BY <2>1, SumQDef
<1>9. SumQ(val) = SumFunctionOnSet(val, J) % Q
  <2>1. DOMAIN val = J
    OBVIOUS
  <2> HIDE DEF val
  <2> QED BY <2>1, SumQDef
<1> HIDE DEF wX
<1> QED BY <1>3, <1>6, <1>7, <1>8, <1>9 DEF w, Values

-----------------------------------------------------------------------------
(* Interpolation at 0 with the Lagrange coefficients.                      *)

\* Equality mod Q.
Cong(a, b) == a % Q = b % Q

LEMMA CgTrans == ASSUME NEW a, NEW b, NEW c, Cong(a, b), Cong(b, c) PROVE Cong(a, c)
BY DEF Cong

LEMMA CgSym == ASSUME NEW a, NEW b, Cong(a, b) PROVE Cong(b, a)
BY DEF Cong

LEMMA CgMod == ASSUME NEW a \in Int PROVE Cong(a % Q, a) /\ Cong(a, a % Q) /\ a % Q \in Int
BY ModMod, ModType DEF Cong

LEMMA CgPlus ==
    ASSUME NEW a \in Int, NEW b \in Int, NEW c \in Int, NEW d \in Int, Cong(a, b), Cong(c, d)
    PROVE  Cong(a + c, b + d)
<1>1. a % Q = b % Q /\ c % Q = d % Q
  BY DEF Cong
<1>2. (a + c) % Q = (b + d) % Q
  BY <1>1, CongPlus
<1> QED BY <1>2 DEF Cong

LEMMA CgMinus ==
    ASSUME NEW a \in Int, NEW b \in Int, NEW c \in Int, NEW d \in Int, Cong(a, b), Cong(c, d)
    PROVE  Cong(a - c, b - d)
<1>1. a % Q = b % Q /\ c % Q = d % Q
  BY DEF Cong
<1>2. (a - c) % Q = (b - d) % Q
  BY <1>1, CongMinus
<1> QED BY <1>2 DEF Cong

LEMMA CgTimes ==
    ASSUME NEW a \in Int, NEW b \in Int, NEW c \in Int, NEW d \in Int, Cong(a, b), Cong(c, d)
    PROVE  Cong(a * c, b * d)
<1>1. a % Q = b % Q /\ c % Q = d % Q
  BY DEF Cong
<1>2. (a * c) % Q = (b * d) % Q
  BY <1>1, CongTimes
<1> QED BY <1>2 DEF Cong

\* A factor on the left.
LEMMA CgFactor ==
    ASSUME NEW a \in Int, NEW b \in Int, NEW c \in Int, Cong(a, b)
    PROVE  Cong(c * a, c * b)
<1>1. Cong(c, c)
  BY DEF Cong
<1> QED BY <1>1, CgTimes

\* modQ.Inverse is an inverse.
LEMMA InverseIs ==
    ASSUME NEW g \in Int, g % Q # 0
    PROVE  ModInverse(g) \in Zq /\ ModInverse(g) \in Int /\ Cong(g * ModInverse(g), 1)
<1> DEFINE r == g % Q
           y == ModInverse(g)
<1>1. r \in Zq \ {0} /\ r \in Int
  BY ModType
<1>2. \E z \in Zq : (r * z) % Q = 1
  BY <1>1, QPrime
<1>3. y \in Zq /\ (r * y) % Q = 1
  BY <1>2, Zenon DEF ModInverse
<1>4. y \in Int
  BY <1>3, QAssumption DEF Zq
<1> HIDE DEF y
<1>5. Cong(r * y, g * y)
  <2>1. Cong(r, g) /\ Cong(y, y)
    BY CgMod DEF Cong
  <2> HIDE DEF r
  <2> QED BY <1>1, <1>4, <2>1, CgTimes
<1>6. (1 % Q) = 1
  BY QAssumption
<1>7. Cong(g * y, 1)
  <2> HIDE DEF r
  <2> QED BY <1>3, <1>5, <1>6 DEF Cong
<1> QED BY <1>3, <1>4, <1>7 DEF y

\* What is not 0 mod Q may be cancelled.
LEMMA Cancel ==
    ASSUME NEW d \in Int, NEW x \in Int, d % Q # 0, Cong(d * x, 0)
    PROVE  Cong(x, 0)
<1> DEFINE y == ModInverse(d)
<1>1. y \in Int /\ Cong(d * y, 1)
  BY InverseIs
<1> HIDE DEF y
<1>2. d * y \in Int /\ d * x \in Int /\ 0 \in Int /\ 1 \in Int
  BY <1>1
<1>3. Cong(x * (d * y), x * 1)
  BY <1>1, <1>2, CgFactor
<1>4. Cong(y * (d * x), y * 0)
  BY <1>1, <1>2, CgFactor
<1>5. x * (d * y) = y * (d * x) /\ x * 1 = x /\ y * 0 = 0
  BY <1>1
<1>6. Cong(y * (d * x), x) /\ Cong(y * (d * x), 0)
  BY <1>3, <1>4, <1>5
<1> QED BY <1>6 DEF Cong

\* Share ids that are integers and different mod Q.
Distinct(ks, S) ==
    /\ IntOn(ks, S)
    /\ \A i, j \in S : i # j => ks[i] % Q # ks[j] % Q

LEMMA Differ ==
    ASSUME NEW ks, NEW S, Distinct(ks, S), NEW i \in S, NEW j \in S, i # j
    PROVE  ks[j] - ks[i] \in Int /\ (ks[j] - ks[i]) % Q # 0
<1>1. ks[i] \in Int /\ ks[j] \in Int /\ ks[i] % Q # ks[j] % Q
  BY DEF Distinct, IntOn
<1> DEFINE a == ks[j]
           b == ks[i]
<1> SUFFICES ASSUME (a - b) % Q = 0 PROVE FALSE
  BY <1>1
<1>2. a \in Int /\ b \in Int /\ a % Q # b % Q
  BY <1>1
<1> HIDE DEF a, b
<1>3. a - b \in Int /\ 0 \in Int /\ (a - b) % Q = 0 % Q
  BY <1>2, QAssumption
<1>4. PICK k \in Int : a - b = 0 + (Q * k)
  BY <1>3, ModCong
<1>5. a = b + (Q * k)
  BY <1>2, <1>4, QAssumption
<1> QED BY <1>2, <1>5, ModCong

\* The factor of j in the coefficient of i.
Factors(i, I, ks) == [j \in I \ {i} |-> ks[j] * ModInverse(ks[j] - ks[i])]

LEMMA LambdaIs ==
    ASSUME NEW ks, NEW S, IsFiniteSet(S), Distinct(ks, S), NEW i \in S
    PROVE  /\ IsFiniteSet(S \ {i}) /\ IntOn(Factors(i, S, ks), S \ {i})
           /\ Product(Factors(i, S, ks), S \ {i}) \in Int
           /\ Lambda(i, S, ks) = Product(Factors(i, S, ks), S \ {i}) % Q
           /\ Lambda(i, S, ks) \in Int /\ Lambda(i, S, ks) \in Zq
<1> DEFINE f == Factors(i, S, ks)
<1>1. IsFiniteSet(S \ {i})
  BY FS_Subset
<1>2. ASSUME NEW j \in S \ {i} PROVE f[j] \in Int
  <2>1. ks[j] \in Int /\ ModInverse(ks[j] - ks[i]) \in Int
    BY Differ, InverseIs DEF Distinct, IntOn
  <2>2. f[j] = ks[j] * ModInverse(ks[j] - ks[i])
    BY DEF Factors
  <2> HIDE DEF f
  <2> DEFINE u == ks[j]
             w == ModInverse(ks[j] - ks[i])
  <2>3. u \in Int /\ w \in Int /\ f[j] = u * w
    BY <2>1, <2>2
  <2> HIDE DEF u, w
  <2> QED BY <2>3
<1>3. IntOn(f, S \ {i}) /\ DOMAIN f = S \ {i}
  BY <1>2 DEF IntOn, Factors
<1>4. Lambda(i, S, ks) = Product(f, DOMAIN f) % Q
  BY DEF Lambda, ProdQ, FoldFunction, Product, Factors
<1> HIDE DEF f
<1>5. Product(f, S \ {i}) \in Int
  BY <1>1, <1>3, ProdType
<1>6. Lambda(i, S, ks) = Product(f, S \ {i}) % Q
  BY <1>3, <1>4
<1> QED BY <1>1, <1>3, <1>5, <1>6, ModType DEF f

\* How a coefficient changes when a is left out.
LEMMA LambdaStep ==
    ASSUME NEW ks, NEW S, IsFiniteSet(S), Distinct(ks, S), NEW i \in S, NEW a \in S, i # a
    PROVE  Cong((ks[a] - ks[i]) * Lambda(i, S, ks), ks[a] * Lambda(i, S \ {a}, ks))
<1> DEFINE f == Factors(i, S, ks)
           g == Factors(i, S \ {a}, ks)
           R == (S \ {a}) \ {i}
           p == Product(g, R)
           d == ks[a] - ks[i]
           y == ModInverse(d)
           k == ks[a]
           l == Lambda(i, S, ks)
           m == Lambda(i, S \ {a}, ks)
<1>1. k \in Int /\ d \in Int /\ y \in Int /\ Cong(d * y, 1)
  BY Differ, InverseIs DEF Distinct, IntOn
<1>2. l = Product(f, S \ {i}) % Q /\ l \in Int /\ IsFiniteSet(S \ {i}) /\ IntOn(f, S \ {i})
  BY LambdaIs
<1>3. m = p % Q /\ m \in Int /\ p \in Int /\ IsFiniteSet(R) /\ IntOn(g, R)
  <2>1. IsFiniteSet(S \ {a}) /\ Distinct(ks, S \ {a}) /\ i \in S \ {a}
    BY FS_Subset DEF Distinct, IntOn
  <2> QED BY <2>1, LambdaIs
<1>4. Product(f, S \ {i}) = f[a] * Product(f, (S \ {i}) \ {a}) /\ (S \ {i}) \ {a} = R
  <2> HIDE DEF f
  <2> QED BY <1>2, ProdRemove
<1>5. Product(f, R) = p
  <2>1. \A x \in R : g[x] = f[x]
    BY DEF Factors
  <2> HIDE DEF f, g, R
  <2> QED BY <1>3, <2>1, ProdExt
<1>6. f[a] = k * y
  BY DEF Factors
<1>7. Product(f, S \ {i}) = (k * y) * p
  BY <1>4, <1>5, <1>6
<1> HIDE DEF f, g, R, p, d, y, k, l, m
<1>8. Cong(l, (k * y) * p)
  <2>1. (k * y) * p \in Int /\ l = ((k * y) * p) % Q
    BY <1>1, <1>2, <1>3, <1>7
  <2> QED BY <2>1, CgMod
<1>9. Cong(d * l, d * ((k * y) * p))
  <2>1. (k * y) * p \in Int
    BY <1>1, <1>3
  <2> QED BY <1>1, <1>2, <1>8, <2>1, CgFactor
<1>10. d * ((k * y) * p) = (k * p) * (d * y) /\ (k * p) * 1 = k * p
  BY <1>1, <1>3
<1>11. Cong((k * p) * (d * y), (k * p) * 1)
  <2>1. k * p \in Int /\ d * y \in Int /\ 1 \in Int
    BY <1>1, <1>3
  <2> QED BY <1>1, <2>1, CgFactor
<1>12. Cong(k * p, k * m)
  <2>1. Cong(p, m)
    BY <1>3, CgMod
  <2> QED BY <1>1, <1>3, <2>1, CgFactor
<1>13. Cong(d * l, k * p)
  BY <1>9, <1>10, <1>11 DEF Cong
<1>14. Cong(d * l, k * m)
  BY <1>12, <1>13 DEF Cong
<1> QED BY <1>14 DEF d, l, k, m

\* The terms u_i lambda_i, and their sum.
Terms(u, S, ks) == [i \in S |-> u[i] * Lambda(i, S, ks)]
Weighted(u, S, ks) == SumFunctionOnSet(Terms(u, S, ks), S)

LEMMA TermsInt ==
    ASSUME NEW ks, NEW S, IsFiniteSet(S), Distinct(ks, S), NEW u, IntOn(u, S)
    PROVE  /\ IntOn(Terms(u, S, ks), S) /\ Weighted(u, S, ks) \in Int
           /\ \A i \in S : Terms(u, S, ks)[i] = u[i] * Lambda(i, S, ks)
<1>1. \A i \in S : Terms(u, S, ks)[i] = u[i] * Lambda(i, S, ks)
  BY DEF Terms
<1>2. \A i \in S : u[i] \in Int /\ Lambda(i, S, ks) \in Int
  BY LambdaIs DEF IntOn
<1>3. \A i \in S : u[i] * Lambda(i, S, ks) \in Int
  BY <1>2
<1>4. IntOn(Terms(u, S, ks), S)
  BY <1>1, <1>3 DEF IntOn
<1> QED BY <1>1, <1>4, SumType DEF Weighted

\* Leaving out one signer.
LEMMA WeightedStep ==
    ASSUME NEW ks, NEW S, IsFiniteSet(S), Distinct(ks, S), NEW a \in S,
           NEW u, IntOn(u, S), NEW w, \A i \in S : w[i] = u[i] * ks[i]
    PROVE  Cong(Weighted(w, S, ks), ks[a] * (Weighted(u, S, ks) - Weighted(u, S \ {a}, ks)))
<1> DEFINE R == S \ {a}
           k == ks[a]
           f1 == Terms(u, S, ks)
           f2 == Terms(w, S, ks)
           g == Terms(u, R, ks)
           kf == [i \in S |-> k * f1[i]]
           mf == [i \in S |-> (-1) * f2[i]]
           h == [i \in S |-> kf[i] + mf[i]]
           kg == [i \in R |-> k * g[i]]
           F1 == SumFunctionOnSet(f1, S)
           F2 == SumFunctionOnSet(f2, S)
           G == SumFunctionOnSet(g, R)
<1>1. IsFiniteSet(R) /\ Distinct(ks, R) /\ IntOn(u, R) /\ k \in Int
  BY FS_Subset DEF Distinct, IntOn
<1>2. IntOn(w, S)
  <2>1. \A i \in S : u[i] \in Int /\ ks[i] \in Int
    BY DEF Distinct, IntOn
  <2>2. \A i \in S : u[i] * ks[i] \in Int
    BY <2>1
  <2> QED BY <2>2 DEF IntOn
<1>3. IntOn(f1, S) /\ F1 \in Int /\ \A i \in S : f1[i] = u[i] * Lambda(i, S, ks)
  BY TermsInt DEF Weighted
<1>4. IntOn(f2, S) /\ F2 \in Int /\ \A i \in S : f2[i] = w[i] * Lambda(i, S, ks)
  BY <1>2, TermsInt DEF Weighted
<1>5. IntOn(g, R) /\ G \in Int /\ \A i \in R : g[i] = u[i] * Lambda(i, R, ks)
  BY <1>1, TermsInt DEF Weighted
<1>6. F1 = Weighted(u, S, ks) /\ F2 = Weighted(w, S, ks) /\ G = Weighted(u, R, ks)
  BY DEF Weighted
<1> HIDE DEF f1, f2, g, F1, F2, G, k
<1>7. IntOn(kf, S) /\ IntOn(mf, S) /\ IntOn(kg, R)
  <2>1. \A i \in S : f1[i] \in Int /\ f2[i] \in Int
    BY <1>3, <1>4 DEF IntOn
  <2>2. \A i \in R : g[i] \in Int
    BY <1>5 DEF IntOn
  <2>3. \A i \in S : k * f1[i] \in Int /\ (-1) * f2[i] \in Int
    BY <1>1, <2>1
  <2>4. \A i \in R : k * g[i] \in Int
    BY <1>1, <2>2
  <2> QED BY <2>3, <2>4 DEF IntOn
<1>8. \A i \in S : kf[i] = k * f1[i] /\ mf[i] = (-1) * f2[i] /\ h[i] = kf[i] + mf[i]
  OBVIOUS
<1>9. \A i \in R : kg[i] = k * g[i]
  OBVIOUS
<1> HIDE DEF kf, mf, h, kg
<1>10. IntOn(h, S) /\ IntOn(h, R)
  BY <1>7, <1>8 DEF IntOn
<1>11. SumFunctionOnSet(h, S) = (k * F1) - F2
  <2>1. SumFunctionOnSet(kf, S) = k * F1
    BY <1>1, <1>3, <1>8, SumScale DEF F1
  <2>2. SumFunctionOnSet(mf, S) = (-1) * F2
    BY <1>4, <1>8, SumScale DEF F2
  <2>3. SumFunctionOnSet(h, S) = SumFunctionOnSet(kf, S) + SumFunctionOnSet(mf, S)
    BY <1>7, <1>8, SumPlus
  <2>4. k * F1 \in Int
    BY <1>1, <1>3
  <2> DEFINE z == k * F1
  <2>5. SumFunctionOnSet(h, S) = z + ((-1) * F2) /\ z \in Int
    BY <2>1, <2>2, <2>3, <2>4
  <2> HIDE DEF z
  <2>6. SumFunctionOnSet(h, S) = z - F2
    BY <1>4, <2>5
  <2> QED BY <2>6 DEF z
<1>12. \A i \in S : h[i] = (u[i] * (k - ks[i])) * Lambda(i, S, ks)
  <2> TAKE i \in S
  <2> DEFINE uu == u[i]
             kk == ks[i]
             ll == Lambda(i, S, ks)
  <2>1. uu \in Int /\ kk \in Int /\ ll \in Int
    BY LambdaIs DEF Distinct, IntOn
  <2>2. h[i] = (k * (uu * ll)) + ((-1) * ((uu * kk) * ll))
    BY <1>3, <1>4, <1>8
  <2> HIDE DEF uu, kk, ll
  <2>3. (k * (uu * ll)) + ((-1) * ((uu * kk) * ll)) = (uu * (k - kk)) * ll
    BY <1>1, <2>1
  <2> QED BY <2>2, <2>3 DEF uu, kk, ll
<1>13. h[a] = 0
  <2>1. h[a] = (u[a] * (k - k)) * Lambda(a, S, ks)
    BY <1>12 DEF k
  <2>2. u[a] \in Int /\ Lambda(a, S, ks) \in Int
    BY LambdaIs DEF IntOn
  <2>3. k - k = 0 /\ u[a] * 0 = 0 /\ 0 * Lambda(a, S, ks) = 0
    BY <1>1, <2>2
  <2> QED BY <2>1, <2>3
<1>14. SumFunctionOnSet(h, S) = SumFunctionOnSet(h, R)
  <2>1. SumFunctionOnSet(h, S) = h[a] + SumFunctionOnSet(h, R)
    BY <1>10, SumRemove
  <2>2. SumFunctionOnSet(h, R) \in Int
    BY <1>1, <1>10, SumType
  <2> QED BY <1>13, <2>1, <2>2
<1>15. \A i \in R : h[i] % Q = kg[i] % Q
  <2> TAKE i \in R
  <2> DEFINE uu == u[i]
             d == k - ks[i]
             l == Lambda(i, S, ks)
             m == Lambda(i, R, ks)
  <2>1. uu \in Int /\ d \in Int /\ l \in Int /\ m \in Int
    <3>1. uu \in Int /\ ks[i] \in Int /\ i \in S
      BY DEF Distinct, IntOn
    <3>2. l \in Int /\ m \in Int
      BY <1>1, <3>1, LambdaIs
    <3> QED BY <1>1, <3>1, <3>2
  <2>2. Cong(d * l, k * m)
    BY LambdaStep DEF k
  <2>3. h[i] = (uu * d) * l /\ kg[i] = k * (uu * m)
    BY <1>5, <1>9, <1>12
  <2> HIDE DEF uu, d, l, m
  <2>4. Cong(uu * (d * l), uu * (k * m))
    <3>1. d * l \in Int /\ k * m \in Int
      BY <1>1, <2>1
    <3> QED BY <2>1, <2>2, <3>1, CgFactor
  <2>5. (uu * d) * l = uu * (d * l) /\ k * (uu * m) = uu * (k * m)
    BY <1>1, <2>1
  <2> QED BY <2>3, <2>4, <2>5 DEF Cong
<1>16. SumFunctionOnSet(h, R) % Q = SumFunctionOnSet(kg, R) % Q
  BY <1>1, <1>7, <1>10, <1>15, SumCong
<1>17. SumFunctionOnSet(kg, R) = k * G
  BY <1>1, <1>5, <1>9, SumScale DEF G
<1>18. Cong((k * F1) - F2, k * G)
  BY <1>11, <1>14, <1>16, <1>17 DEF Cong
<1> DEFINE x == k * F1
           y == k * G
<1>19. x \in Int /\ y \in Int /\ Cong(x - F2, y) /\ Cong(x, x)
  BY <1>1, <1>3, <1>5, <1>18 DEF Cong
<1>20. k * (F1 - G) = x - y
  BY <1>1, <1>3, <1>5
<1> HIDE DEF x, y
<1>21. x - F2 \in Int
  BY <1>4, <1>19
<1>22. Cong(x - (x - F2), x - y)
  BY <1>19, <1>21, CgMinus
<1>23. x - (x - F2) = F2
  BY <1>4, <1>19
<1>24. Cong(F2, k * (F1 - G))
  BY <1>20, <1>22, <1>23
<1> QED BY <1>6, <1>24 DEF k

\* The coefficients add up to 1.
LEMMA WeightsOne ==
    ASSUME NEW ks, NEW S, IsFiniteSet(S), Distinct(ks, S), S # {}, NEW u, \A i \in S : u[i] = 1
    PROVE  Cong(Weighted(u, S, ks), 1)
<1> DEFINE P == {X \in SUBSET S : X # {} => Cong(Weighted(u, X, ks), 1)}
<1>1. {} \in P
  OBVIOUS
<1>2. ASSUME NEW X \in SUBSET S, X # {} PROVE IsFiniteSet(X) /\ Distinct(ks, X) /\ IntOn(u, X)
  BY FS_Subset DEF Distinct, IntOn
<1>3. ASSUME NEW a \in S PROVE {a} \in P
  <2>1. IsFiniteSet({a}) /\ Distinct(ks, {a}) /\ IntOn(u, {a})
    BY <1>2
  <2>2. Lambda(a, {a}, ks) = 1 % Q
    <3>1. {a} \ {a} = {}
      OBVIOUS
    <3> QED BY <2>1, <3>1, LambdaIs, ProdEmpty
  <2>3. 1 % Q = 1
    BY QAssumption
  <2>4. Terms(u, {a}, ks)[a] = 1 /\ IntOn(Terms(u, {a}, ks), {a})
    BY <2>1, <2>2, <2>3, TermsInt
  <2>5. SumFunctionOnSet(Terms(u, {a}, ks), {a}) = 1 + SumFunctionOnSet(Terms(u, {a}, ks), {a} \ {a})
    BY <2>1, <2>4, SumRemove
  <2>6. SumFunctionOnSet(Terms(u, {a}, ks), {a} \ {a}) = 0
    <3>1. {a} \ {a} = {}
      OBVIOUS
    <3> QED BY <3>1, SumEmpty
  <2>7. Weighted(u, {a}, ks) = 1
    BY <2>5, <2>6 DEF Weighted
  <2> QED BY <2>7 DEF Cong
<1> DEFINE N == {n \in Nat : \A X \in SUBSET S : Cardinality(X) <= n => X \in P}
<1>4. \A X \in SUBSET S : IsFiniteSet(X) /\ Cardinality(X) \in Nat
  BY FS_Subset, FS_CardinalityType
<1>5. 0 \in N
  <2>1. \A X \in SUBSET S : Cardinality(X) <= 0 => X = {}
    BY <1>4, FS_EmptySet
  <2> QED BY <1>1, <2>1
<1>6. ASSUME NEW n \in Nat, n \in N PROVE n + 1 \in N
  <2> SUFFICES ASSUME NEW X \in SUBSET S, Cardinality(X) <= n + 1, X # {} PROVE X \in P
    BY <1>1
  <2>1. PICK a \in X : TRUE
    OBVIOUS
  <2>2. CASE X = {a}
    BY <1>3, <2>2
  <2>3. CASE X # {a}
    <3>1. PICK b \in X : b # a
      BY <2>3
    <3>2. \A c \in {a, b} : X \ {c} \in P /\ X \ {c} # {}
      <4> TAKE c \in {a, b}
      <4>1. Cardinality(X \ {c}) = Cardinality(X) - 1
        BY <1>4, <3>1, FS_RemoveElement
      <4>2. Cardinality(X \ {c}) <= n /\ X \ {c} \in SUBSET S
        BY <1>4, <4>1
      <4> QED BY <1>6, <3>1, <4>2
    <3> DEFINE m == Weighted(u, X, ks)
               v == [i \in X |-> u[i] * ks[i]]
               z == Weighted(v, X, ks)
    <3>3. IsFiniteSet(X) /\ Distinct(ks, X) /\ IntOn(u, X) /\ m \in Int
      BY <1>2, TermsInt
    <3>4. \A i \in X : v[i] = u[i] * ks[i]
      OBVIOUS
    <3>5. IntOn(v, X)
      BY <3>3 DEF IntOn, Distinct
    <3>6. z \in Int
      <4> HIDE DEF v
      <4> QED BY <3>3, <3>5, TermsInt
    <3> HIDE DEF v
    <3>7. ASSUME NEW c \in {a, b}
          PROVE  ks[c] \in Int /\ Cong(z, ks[c] * (m - 1))
      <4> DEFINE q == Weighted(u, X \ {c}, ks)
                 k == ks[c]
      <4>1. k \in Int /\ X \ {c} \in SUBSET S
        BY <3>3 DEF Distinct, IntOn
      <4>2. q \in Int
        BY <1>2, <3>2, <4>1, TermsInt
      <4>3. Cong(q, 1)
        BY <3>2
      <4>4. Cong(z, k * (m - q))
        BY <3>3, <3>4, WeightedStep
      <4> HIDE DEF q, k, m, z
      <4>5. Cong(m, m) /\ 1 \in Int
        BY DEF Cong
      <4>6. Cong(m - q, m - 1)
        BY <3>3, <4>2, <4>3, <4>5, CgMinus
      <4>7. m - q \in Int /\ m - 1 \in Int
        BY <3>3, <4>2
      <4>8. Cong(k * (m - q), k * (m - 1))
        BY <4>1, <4>6, <4>7, CgFactor
      <4>9. Cong(z, k * (m - 1))
        BY <4>4, <4>8 DEF Cong
      <4> QED BY <4>1, <4>9 DEF k
    <3> DEFINE k == ks[a]
               l == ks[b]
    <3>8. k \in Int /\ l \in Int /\ Cong(z, k * (m - 1)) /\ Cong(z, l * (m - 1))
      BY <3>7
    <3>9. k - l \in Int /\ (k - l) % Q # 0
      BY <3>1, <3>3, Differ
    <3> HIDE DEF k, l, m, z, P, N
    <3>10. Cong(k * (m - 1), l * (m - 1))
      BY <3>8 DEF Cong
    <3> DEFINE x == k * (m - 1)
               y == l * (m - 1)
    <3>11. x \in Int /\ y \in Int /\ Cong(x, y) /\ Cong(y, y)
      BY <3>3, <3>8, <3>10 DEF Cong
    <3>12. (k - l) * (m - 1) = x - y
      BY <3>3, <3>8
    <3> HIDE DEF x, y
    <3>13. Cong(x - y, y - y) /\ y - y = 0
      BY <3>11, CgMinus
    <3>14. Cong((k - l) * (m - 1), 0)
      BY <3>12, <3>13
    <3>15. m - 1 \in Int
      BY <3>3
    <3>16. Cong(m - 1, 0)
      BY <3>9, <3>14, <3>15, Cancel
    <3>17. Cong((m - 1) + 1, 0 + 1)
      <4>1. Cong(1, 1) /\ 1 \in Int /\ 0 \in Int
        BY DEF Cong
      <4> QED BY <3>15, <3>16, <4>1, CgPlus
    <3>18. (m - 1) + 1 = m /\ 0 + 1 = 1
      BY <3>3
    <3>19. Cong(m, 1)
      BY <3>17, <3>18
    <3> QED BY <3>19 DEF m, P
  <2> QED BY <2>2, <2>3
<1>7. \A n \in Nat : n \in N
  <2> HIDE DEF N
  <2> QED BY <1>5, <1>6, Induction
<1> QED BY <1>4, <1>7

LEMMA WeightedCong ==
    ASSUME NEW ks, NEW S, IsFiniteSet(S), Distinct(ks, S), NEW u, IntOn(u, S), NEW w, IntOn(w, S),
           \A i \in S : Cong(u[i], w[i])
    PROVE  Cong(Weighted(u, S, ks), Weighted(w, S, ks))
<1> DEFINE f == Terms(u, S, ks)
           g == Terms(w, S, ks)
<1>1. IntOn(f, S) /\ IntOn(g, S)
  BY TermsInt
<1>2. \A i \in S : f[i] % Q = g[i] % Q
  <2> TAKE i \in S
  <2> DEFINE a == u[i]
             b == w[i]
             l == Lambda(i, S, ks)
  <2>1. a \in Int /\ b \in Int /\ l \in Int /\ Cong(a, b) /\ Cong(l, l)
    BY LambdaIs DEF IntOn, Cong
  <2>2. f[i] = a * l /\ g[i] = b * l
    BY DEF Terms
  <2> HIDE DEF a, b, l
  <2>3. Cong(a * l, b * l)
    BY <2>1, CgTimes
  <2> QED BY <2>2, <2>3 DEF Cong
<1> HIDE DEF f, g
<1>3. SumFunctionOnSet(f, S) % Q = SumFunctionOnSet(g, S) % Q
  BY <1>1, <1>2, SumCong
<1> QED BY <1>3 DEF Cong, Weighted, f, g

\* The c-th powers of the ids.
PowersOf(t, c, S, ks) == [i \in S |-> Powers(t, ks[i])[c]]

LEMMA PowersInt ==
    ASSUME NEW t \in Nat, NEW c \in 0 .. t, NEW S, NEW ks, IntOn(ks, S), NEW X \in SUBSET S
    PROVE  IntOn(PowersOf(t, c, S, ks), X)
<1>1. \A i \in S : Powers(t, ks[i]) \in [0 .. t -> Int]
  BY PowersEq DEF IntOn
<1>2. \A i \in S : Powers(t, ks[i])[c] \in Int
  BY <1>1
<1> QED BY <1>2 DEF IntOn, PowersOf

\* Powers of the ids, weighted: the step from c - 1 to c.
LEMMA PowersStep ==
    ASSUME NEW t \in Nat, NEW c \in 1 .. t, NEW S, IsFiniteSet(S), NEW ks, Distinct(ks, S),
           NEW X \in SUBSET S, NEW a \in X, NEW r \in Int,
           Cong(Weighted(PowersOf(t, c - 1, S, ks), X, ks), r),
           Cong(Weighted(PowersOf(t, c - 1, S, ks), X \ {a}, ks), r)
    PROVE  Cong(Weighted(PowersOf(t, c, S, ks), X, ks), 0)
<1> DEFINE u == PowersOf(t, c - 1, S, ks)
           p == PowersOf(t, c, S, ks)
           w == [i \in X |-> u[i] * ks[i]]
           m == Weighted(u, X, ks)
           q == Weighted(u, X \ {a}, ks)
           k == ks[a]
<1>1. /\ IsFiniteSet(X) /\ Distinct(ks, X) /\ IntOn(ks, S)
      /\ IsFiniteSet(X \ {a}) /\ Distinct(ks, X \ {a}) /\ k \in Int
  BY FS_Subset DEF Distinct, IntOn
<1>2. c - 1 \in 0 .. t /\ c \in 0 .. t /\ X \ {a} \in SUBSET S
  OBVIOUS
<1>3. IntOn(u, X) /\ IntOn(p, X) /\ IntOn(u, X \ {a})
  BY <1>1, <1>2, PowersInt
<1>4. IntOn(w, X)
  <2>1. \A i \in X : u[i] \in Int /\ ks[i] \in Int
    BY <1>1, <1>3 DEF IntOn
  <2> HIDE DEF u
  <2>2. \A i \in X : u[i] * ks[i] \in Int
    BY <2>1
  <2> QED BY <2>2 DEF IntOn
<1>5. \A i \in X : p[i] = w[i] % Q
  <2> TAKE i \in X
  <2>1. ks[i] \in Int /\ i \in S
    BY <1>1 DEF IntOn
  <2>2. Powers(t, ks[i])[c] = (Powers(t, ks[i])[c - 1] * ks[i]) % Q
    BY <2>1, PowersEq
  <2> QED BY <2>1, <2>2 DEF PowersOf
<1>6. \A i \in X : w[i] = u[i] * ks[i]
  OBVIOUS
<1> HIDE DEF u, p, w
<1>7. \A i \in X : Cong(p[i], w[i])
  BY <1>4, <1>5, CgMod DEF IntOn
<1>8. Cong(Weighted(p, X, ks), Weighted(w, X, ks))
  BY <1>1, <1>3, <1>4, <1>7, WeightedCong
<1>9. Cong(Weighted(w, X, ks), k * (m - q))
  BY <1>1, <1>3, <1>6, WeightedStep
<1>10. m \in Int /\ q \in Int
  BY <1>1, <1>3, TermsInt
<1>11. Cong(m, r) /\ Cong(q, r)
  BY DEF u
<1> HIDE DEF m, q, k
<1>12. Cong(m - q, r - r) /\ r - r = 0
  BY <1>10, <1>11, CgMinus
<1>13. Cong(k * (m - q), k * 0) /\ k * 0 = 0
  <2>1. m - q \in Int /\ 0 \in Int
    BY <1>10
  <2>2. Cong(m - q, 0)
    BY <1>12
  <2>3. Cong(k * (m - q), k * 0)
    BY <1>1, <2>1, <2>2, CgFactor
  <2> QED BY <1>1, <2>3
<1>14. Cong(Weighted(p, X, ks), 0)
  BY <1>8, <1>9, <1>13 DEF Cong
<1> QED BY <1>14 DEF p

\* Weighted with the coefficients of S, the powers of the ids from 1 to
\* Cardinality(S) - 1 add up to 0.
LEMMA WeightsPowers ==
    ASSUME NEW t \in Nat, NEW S, IsFiniteSet(S), NEW ks, Distinct(ks, S)
    PROVE  \A c \in 1 .. t : c < Cardinality(S) =>
              Cong(Weighted(PowersOf(t, c, S, ks), S, ks), 0)
<1> DEFINE N == {n \in Nat : n + 1 <= t => \A X \in SUBSET S : n + 1 < Cardinality(X) =>
                    Cong(Weighted(PowersOf(t, n + 1, S, ks), X, ks), 0)}
<1>1. \A X \in SUBSET S : IsFiniteSet(X) /\ Cardinality(X) \in Nat
  BY FS_Subset, FS_CardinalityType
<1>2. ASSUME NEW X \in SUBSET S, NEW n \in Nat, n + 1 < Cardinality(X)
      PROVE  \E a \in X : n < Cardinality(X \ {a}) /\ X \ {a} \in SUBSET S /\ X \ {a} # {}
  <2>1. X # {}
    BY <1>1, <1>2, FS_EmptySet
  <2>2. PICK a \in X : TRUE
    BY <2>1
  <2>3. Cardinality(X \ {a}) = Cardinality(X) - 1
    BY <1>1, FS_RemoveElement
  <2>4. n < Cardinality(X \ {a})
    BY <1>1, <1>2, <2>3
  <2>5. X \ {a} # {}
    BY <1>1, <2>4, FS_EmptySet
  <2> QED BY <2>4, <2>5
<1>3. 0 \in N
  <2> SUFFICES ASSUME 1 <= t, NEW X \in SUBSET S, 1 < Cardinality(X)
               PROVE  Cong(Weighted(PowersOf(t, 1, S, ks), X, ks), 0)
    OBVIOUS
  <2>0. 0 \in Nat /\ 0 + 1 < Cardinality(X)
    OBVIOUS
  <2>1. PICK a \in X : X \ {a} \in SUBSET S /\ X \ {a} # {}
    BY <1>2, <2>0
  <2> DEFINE u == PowersOf(t, 0, S, ks)
  <2>2. \A i \in S : u[i] = 1
    <3>1. \A i \in S : Powers(t, ks[i])[0] = 1
      BY PowersEq DEF Distinct, IntOn
    <3> QED BY <3>1 DEF PowersOf
  <2>3. \A Y \in SUBSET S : Y # {} => Cong(Weighted(u, Y, ks), 1)
    <3> SUFFICES ASSUME NEW Y \in SUBSET S, Y # {} PROVE Cong(Weighted(u, Y, ks), 1)
      OBVIOUS
    <3>1. IsFiniteSet(Y) /\ Distinct(ks, Y) /\ \A i \in Y : u[i] = 1
      BY <1>1, <2>2 DEF Distinct, IntOn
    <3> HIDE DEF u
    <3> QED BY <3>1, WeightsOne
  <2>4. 1 \in 1 .. t /\ 1 - 1 = 0 /\ 1 \in Int
    OBVIOUS
  <2>5. Cong(Weighted(PowersOf(t, 1 - 1, S, ks), X, ks), 1)
        /\ Cong(Weighted(PowersOf(t, 1 - 1, S, ks), X \ {a}, ks), 1)
    BY <2>1, <2>3, <2>4
  <2> QED BY <2>1, <2>4, <2>5, PowersStep
<1>4. ASSUME NEW n \in Nat, n \in N PROVE n + 1 \in N
  <2> SUFFICES ASSUME (n + 1) + 1 <= t, NEW X \in SUBSET S, (n + 1) + 1 < Cardinality(X)
               PROVE  Cong(Weighted(PowersOf(t, (n + 1) + 1, S, ks), X, ks), 0)
    OBVIOUS
  <2> DEFINE c == (n + 1) + 1
  <2>1. PICK a \in X : n + 1 < Cardinality(X \ {a}) /\ X \ {a} \in SUBSET S
    BY <1>2
  <2>2. c \in 1 .. t /\ c - 1 = n + 1 /\ 0 \in Int /\ n + 1 <= t /\ n + 1 < Cardinality(X)
    BY <1>1
  <2>3. \A Y \in SUBSET S : n + 1 < Cardinality(Y) =>
            Cong(Weighted(PowersOf(t, n + 1, S, ks), Y, ks), 0)
    BY <1>4, <2>2
  <2>4. Cong(Weighted(PowersOf(t, c - 1, S, ks), X, ks), 0)
        /\ Cong(Weighted(PowersOf(t, c - 1, S, ks), X \ {a}, ks), 0)
    BY <2>1, <2>2, <2>3
  <2> HIDE DEF c
  <2>5. Cong(Weighted(PowersOf(t, c, S, ks), X, ks), 0)
    BY <2>1, <2>2, <2>4, PowersStep
  <2> QED BY <2>5 DEF c
<1>5. \A n \in Nat : n \in N
  <2> HIDE DEF N
  <2> QED BY <1>3, <1>4, Induction
<1> SUFFICES ASSUME NEW c \in 1 .. t, c < Cardinality(S)
             PROVE  Cong(Weighted(PowersOf(t, c, S, ks), S, ks), 0)
  OBVIOUS
<1>6. c - 1 \in Nat /\ (c - 1) + 1 = c
  OBVIOUS
<1>7. c - 1 \in N
  BY <1>5, <1>6
<1> QED BY <1>6, <1>7

\* The value of a polynomial of degree t, at the ids of S.
PolyAt(t, v, S, ks) == [i \in S |-> evaluatePolynomial(t, v, ks[i])]

\* More than t values of a polynomial of degree t, weighted with the Lagrange
\* coefficients, add up to its value at 0.
LEMMA Interpolation ==
    ASSUME NEW t \in Nat, NEW v, IntOn(v, 0 .. t), NEW S, IsFiniteSet(S), NEW ks, Distinct(ks, S),
           t < Cardinality(S)
    PROVE  Cong(Weighted(PolyAt(t, v, S, ks), S, ks), v[0])
<1> DEFINE C == 0 .. t
           L(i) == Lambda(i, S, ks)
           pw(c) == PowersOf(t, c, S, ks)
           m == [i \in S |-> [c \in C |-> L(i) * (v[c] * pw(c)[i])]]
           n == [c \in C |-> [i \in S |-> L(i) * (v[c] * pw(c)[i])]]
           row == RowSums(m, S, C)
           col == RowSums(n, C, S)
           y == PolyAt(t, v, S, ks)
           z == [c \in C |-> IF c = 0 THEN v[0] ELSE 0]
<1>1. IsFiniteSet(C) /\ 0 \in C /\ C \ {0} \in SUBSET C
  BY FS_Interval
<1>2. \A i \in S, c \in C : L(i) \in Int /\ v[c] \in Int /\ pw(c)[i] \in Int
  <2>1. \A c \in C : IntOn(pw(c), S)
    BY PowersInt DEF Distinct
  <2> QED BY <2>1, LambdaIs DEF IntOn
<1>3. \A i \in S, c \in C :
          /\ m[i][c] = L(i) * (v[c] * pw(c)[i])
          /\ n[c][i] = m[i][c]
  OBVIOUS
<1>4. \A i \in S, c \in C : m[i][c] \in Int
  <2> HIDE DEF pw, L, C
  <2>1. \A i \in S, c \in C : L(i) * (v[c] * pw(c)[i]) \in Int
    BY <1>2
  <2> QED BY <1>3, <2>1
<1>5. SumFunctionOnSet(row, S) = SumFunctionOnSet(col, C)
  <2> HIDE DEF C, m, n
  <2> QED BY <1>1, <1>3, <1>4, SumExchange
<1>6. /\ \A i \in S : row[i] = SumFunctionOnSet(m[i], C)
      /\ \A c \in C : col[c] = SumFunctionOnSet(n[c], S)
  BY DEF RowSums
<1> HIDE DEF row, col
<1>7. \A i \in S : row[i] \in Int /\ Terms(y, S, ks)[i] % Q = row[i] % Q
  <2> TAKE i \in S
  <2> DEFINE X == Powers(t, ks[i])
             f == [c \in C |-> v[c] * X[c]]
             s == SumFunctionOnSet(f, C)
             l == L(i)
  <2>1. \A c \in C : m[i][c] = l * f[c]
    BY <1>3 DEF PowersOf
  <2>2. DOMAIN f = C /\ IntOn(f, C)
    <3>1. \A c \in C : v[c] \in Int /\ X[c] \in Int
      BY <1>2 DEF PowersOf
    <3> HIDE DEF X
    <3>2. \A c \in C : v[c] * X[c] \in Int
      BY <3>1
    <3> QED BY <3>2 DEF IntOn
  <2>3. y[i] = SumQ(f)
    BY DEF evaluatePolynomial, PolyAt
  <2>4. Terms(y, S, ks)[i] = y[i] * l /\ l \in Int
    BY LambdaIs DEF Terms
  <2> HIDE DEF f, X, y, m, C, L
  <2>5. s \in Int /\ y[i] = s % Q
    BY <1>1, <2>2, <2>3, SumType, SumQDef
  <2>6. row[i] = l * s
    BY <1>1, <1>6, <2>1, <2>2, <2>4, SumScale
  <2> HIDE DEF s, l
  <2> DEFINE yi == y[i]
  <2>7. Cong(yi, s) /\ yi \in Int
    BY <2>5, CgMod
  <2>8. Terms(y, S, ks)[i] = yi * l
    BY <2>4
  <2> HIDE DEF yi
  <2>9. Cong(l * yi, l * s)
    BY <2>4, <2>5, <2>7, CgFactor
  <2>10. yi * l = l * yi /\ l * s \in Int
    BY <2>4, <2>5, <2>7
  <2> QED BY <2>6, <2>8, <2>9, <2>10 DEF Cong
<1>8. Cong(Weighted(y, S, ks), SumFunctionOnSet(row, S))
  <2>1. IntOn(y, S)
    <3>1. \A i \in S : evaluatePolynomial(t, v, ks[i]) \in Int
      BY EvalType DEF Distinct, IntOn
    <3> QED BY <3>1 DEF PolyAt, IntOn
  <2> HIDE DEF y
  <2>2. IntOn(Terms(y, S, ks), S) /\ IntOn(row, S)
    BY <1>7, <2>1, TermsInt DEF IntOn
  <2>3. SumFunctionOnSet(Terms(y, S, ks), S) % Q = SumFunctionOnSet(row, S) % Q
    BY <1>7, <2>2, SumCong
  <2> QED BY <2>3 DEF Cong, Weighted
<1>9. \A c \in C : col[c] \in Int /\ z[c] \in Int /\ col[c] % Q = z[c] % Q
  <2> TAKE c \in C
  <2> DEFINE f == Terms(pw(c), S, ks)
             a == v[c]
             q == Weighted(pw(c), S, ks)
  <2>1. IntOn(pw(c), S) /\ a \in Int
    BY PowersInt DEF Distinct, IntOn
  <2>2. IntOn(f, S) /\ q \in Int /\ \A i \in S : f[i] = pw(c)[i] * L(i)
    <3> HIDE DEF pw
    <3> QED BY <2>1, TermsInt
  <2>3. \A i \in S : n[c][i] = a * f[i]
    <3> TAKE i \in S
    <3> DEFINE l == L(i)
               p == pw(c)[i]
    <3>1. l \in Int /\ p \in Int /\ n[c][i] = l * (a * p) /\ f[i] = p * l
      BY <1>2, <1>3, <2>2
    <3> HIDE DEF l, p, a
    <3>2. l * (a * p) = a * (p * l)
      BY <2>1, <3>1
    <3> QED BY <3>1, <3>2
  <2>4. col[c] = a * q
    <3>1. q = SumFunctionOnSet(f, S)
      BY DEF Weighted
    <3> HIDE DEF f, q, n, a, C
    <3> QED BY <1>6, <2>1, <2>2, <2>3, <3>1, SumScale
  <2>5. CASE c = 0
    <3>1. \A i \in S : pw(c)[i] = 1
      <4>1. \A i \in S : Powers(t, ks[i])[0] = 1
        BY PowersEq DEF Distinct, IntOn
      <4> QED BY <2>5, <4>1 DEF PowersOf
    <3>2. S # {}
      BY FS_EmptySet
    <3>3. Cong(q, 1)
      <4> HIDE DEF pw
      <4> QED BY <3>1, <3>2, WeightsOne
    <3>4. z[c] = a
      BY <2>5
    <3> HIDE DEF a, q, z
    <3>5. Cong(a * q, a * 1) /\ a * 1 = a /\ a * q \in Int
      <4>0. 1 \in Int
        OBVIOUS
      <4>1. Cong(a * q, a * 1)
        BY <2>1, <2>2, <3>3, <4>0, CgFactor, Zenon
      <4> QED BY <2>1, <2>2, <4>1
    <3> QED BY <2>1, <2>4, <3>4, <3>5 DEF Cong
  <2>6. CASE c # 0
    <3>1. c \in 1 .. t /\ c < Cardinality(S)
      <4>1. Cardinality(S) \in Nat
        BY FS_CardinalityType
      <4> QED BY <2>6, <4>1
    <3>2. Cong(q, 0)
      BY <3>1, WeightsPowers
    <3>3. z[c] = 0
      BY <2>6
    <3> HIDE DEF a, q, z
    <3>4. Cong(a * q, a * 0) /\ a * 0 = 0 /\ a * q \in Int
      <4>0. 0 \in Int
        OBVIOUS
      <4>1. Cong(a * q, a * 0)
        BY <2>1, <2>2, <3>2, <4>0, CgFactor, Zenon
      <4> QED BY <2>1, <2>2, <4>1
    <3> QED BY <2>4, <3>3, <3>4 DEF Cong
  <2> QED BY <2>5, <2>6
<1>10. Cong(SumFunctionOnSet(col, C), SumFunctionOnSet(z, C))
  <2>1. IntOn(col, C) /\ IntOn(z, C)
    BY <1>9 DEF IntOn
  <2> HIDE DEF z, C
  <2>2. SumFunctionOnSet(col, C) % Q = SumFunctionOnSet(z, C) % Q
    BY <1>1, <1>9, <2>1, SumCong
  <2> QED BY <2>2 DEF Cong
<1>11. SumFunctionOnSet(z, C) = v[0]
  <2> DEFINE D == C \ {0}
             o == [c \in D |-> 0]
  <2>1. IntOn(z, C) /\ z[0] = v[0] /\ v[0] \in Int
    BY <1>1, <1>9 DEF IntOn
  <2>2. IntOn(o, D) /\ IsFiniteSet(D) /\ \A c \in D : z[c] = 0 * o[c]
    BY <1>1, FS_Subset DEF IntOn
  <2> HIDE DEF z, o, D
  <2>3. SumFunctionOnSet(z, C) = z[0] + SumFunctionOnSet(z, D)
    BY <1>1, <2>1, SumRemove DEF D
  <2>4. SumFunctionOnSet(z, D) = 0 * SumFunctionOnSet(o, D)
    BY <2>2, SumScale
  <2>5. SumFunctionOnSet(o, D) \in Int
    BY <2>2, SumType
  <2> QED BY <2>1, <2>3, <2>4, <2>5
<1> HIDE DEF y, z
<1>12. Cong(Weighted(y, S, ks), v[0])
  BY <1>5, <1>8, <1>10, <1>11 DEF Cong
<1> QED BY <1>12 DEF y

\* The signers' weights: if the shares are the values of a polynomial of degree t
\* and there are more than t of them, the weights w_i add up to the secret.
THEOREM WeightsRecover ==
    ASSUME NEW t \in Nat, NEW v, IntOn(v, 0 .. t), NEW S, IsFiniteSet(S), NEW ks, Distinct(ks, S),
           t < Cardinality(S), NEW x, \A i \in S : x[i] = evaluatePolynomial(t, v, ks[i])
    PROVE  SumQ([i \in S |-> SigningWeight(i, S, ks, x[i])]) = v[0] % Q
<1> DEFINE y == PolyAt(t, v, S, ks)
           f == [i \in S |-> SigningWeight(i, S, ks, x[i])]
           g == Terms(y, S, ks)
<1>1. IntOn(y, S)
  <2>1. \A i \in S : evaluatePolynomial(t, v, ks[i]) \in Int
    BY EvalType DEF Distinct, IntOn
  <2> QED BY <2>1 DEF PolyAt, IntOn
<1>2. \A i \in S : y[i] = x[i]
  BY DEF PolyAt
<1>3. Cong(Weighted(y, S, ks), v[0])
  BY Interpolation
<1> HIDE DEF y
<1>4. IntOn(g, S) /\ \A i \in S : g[i] = y[i] * Lambda(i, S, ks)
  BY <1>1, TermsInt
<1>5. DOMAIN f = S /\ \A i \in S : f[i] = g[i] % Q
  BY <1>2, <1>4 DEF SigningWeight
<1> HIDE DEF f, g
<1>6. IntOn(f, S) /\ \A i \in S : f[i] % Q = g[i] % Q
  BY <1>4, <1>5, ModMod, ModType DEF IntOn
<1>7. SumFunctionOnSet(f, S) % Q = SumFunctionOnSet(g, S) % Q
  BY <1>4, <1>6, SumCong
<1>8. SumQ(f) = SumFunctionOnSet(f, S) % Q
  BY <1>5, SumQDef
<1>9. SumQ(f) = v[0] % Q
  BY <1>3, <1>7, <1>8 DEF Cong, Weighted, g
<1> QED BY <1>9 DEF f

\* vss.Create and ReConstruct fit together: whatever ids Create accepts, any more
\* than t of the shares it made give the secret back.
THEOREM SharesRecover ==
    ASSUME NEW t \in Nat, NEW v \in [0 .. t -> Zq], NEW ids, IsFiniteSet(DOMAIN ids),
           IntOn(ids, DOMAIN ids), CreateOk(t, ids), NEW H \in SUBSET DOMAIN ids, t < Cardinality(H)
    PROVE  ReConstruct({CreateShares(t, v, ids)[i] : i \in H}) = v[0]
<1> DEFINE sh == CreateShares(t, v, ids)
           S == {sh[i] : i \in H}
           ks == [s \in S |-> s.id]
           y == PolyAt(t, v, S, ks)
           f == [s \in S |-> s.share * ProdQ([u \in S \ {s} |-> u.id * ModInverse(u.id - s.id)])]
<1>1. \A i \in H : sh[i].threshold = t /\ sh[i].id = ids[i]
                   /\ sh[i].share = evaluatePolynomial(t, v, ids[i])
  BY DEF CreateShares
<1> HIDE DEF sh
<1>2. \A i, j \in H : i # j => ids[i] % Q # ids[j] % Q
  BY DEF CreateOk, CheckIndexes
<1>3. IsFiniteSet(H) /\ Cardinality(H) \in Nat
  BY FS_Subset, FS_CardinalityType
<1>4. IsFiniteSet(S) /\ Cardinality(S) = Cardinality(H)
  <2> DEFINE g == [i \in H |-> sh[i]]
  <2>1. \A i, j \in H : sh[i] = sh[j] => i = j
    BY <1>1, <1>2
  <2>2. g \in Bijection(H, S)
    BY <2>1 DEF Bijection, Injection, Surjection, IsInjective
  <2> HIDE DEF g, S
  <2>3. ExistsBijection(H, S)
    BY <2>2 DEF ExistsBijection
  <2> QED BY <1>3, <2>3, FS_Bijection
<1>5. Distinct(ks, S)
  <2>1. \A s \in S : s.id \in Int
    BY <1>1 DEF IntOn
  <2>2. \A s, u \in S : s # u => s.id % Q # u.id % Q
    BY <1>1, <1>2
  <2> QED BY <2>1, <2>2 DEF Distinct, IntOn
<1>6. \A s \in S : s.threshold = t /\ s.share = y[s]
  <2>1. \A s \in S : s.threshold = t /\ s.share = evaluatePolynomial(t, v, s.id)
    BY <1>1
  <2>2. \A s \in S : y[s] = evaluatePolynomial(t, v, s.id)
    BY DEF PolyAt
  <2> HIDE DEF S, y
  <2> QED BY <2>1, <2>2
<1>7. IntOn(v, 0 .. t) /\ v[0] \in Zq
  <2>1. Zq \subseteq Int
    BY QAssumption DEF Zq
  <2>2. \A c \in 0 .. t : v[c] \in Zq
    OBVIOUS
  <2>3. 0 \in 0 .. t
    OBVIOUS
  <2> QED BY <2>1, <2>2, <2>3 DEF IntOn
<1>8. Cong(Weighted(y, S, ks), v[0])
  <2> HIDE DEF S, ks
  <2> QED BY <1>4, <1>5, <1>7, Interpolation
<1>9. f = Terms(y, S, ks)
  <2>1. \A s \in S : Lambda(s, S, ks) = ProdQ([u \in S \ {s} |-> u.id * ModInverse(u.id - s.id)])
    <3> TAKE s \in S
    <3>1. [u \in S \ {s} |-> ks[u] * ModInverse(ks[u] - ks[s])]
             = [u \in S \ {s} |-> u.id * ModInverse(u.id - s.id)]
      <4> HIDE DEF S
      <4> QED OBVIOUS
    <3> QED BY <3>1 DEF Lambda
  <2> HIDE DEF S, y
  <2>2. \A s \in S : f[s] = y[s] * Lambda(s, S, ks)
    BY <1>6, <2>1
  <2> HIDE DEF ks
  <2>3. f = [s \in S |-> f[s]]
    OBVIOUS
  <2> HIDE DEF f
  <2> QED BY <2>2, <2>3 DEF Terms
<1>10. SumQ(f) = SumFunctionOnSet(f, S) % Q
  <2>1. DOMAIN f = S
    OBVIOUS
  <2> HIDE DEF f
  <2> QED BY <2>1, SumQDef
<1>11. ReConstruct(S) = SumQ(f)
  <2>1. ~\E s \in S : s.threshold > Cardinality(S)
    <3> HIDE DEF S, y
    <3> QED BY <1>3, <1>4, <1>6
  <2> HIDE DEF S
  <2> QED BY <2>1 DEF ReConstruct
<1> HIDE DEF f, y, ks, S
<1>12. ReConstruct(S) = v[0] % Q
  BY <1>8, <1>9, <1>10, <1>11 DEF Cong, Weighted
<1>13. ReConstruct(S) = v[0]
  BY <1>7, <1>12, ModSmall
<1> QED BY <1>13 DEF S, sh

\* Sums of congruent values and of multiples, computed mod Q.
LEMMA SumQCong ==
    ASSUME NEW S, IsFiniteSet(S), NEW h, DOMAIN h = S, IntOn(h, S), NEW f, IntOn(f, S),
           \A i \in S : Cong(h[i], f[i])
    PROVE  Cong(SumQ(h), SumFunctionOnSet(f, S))
<1> DEFINE x == SumFunctionOnSet(h, S)
           y == SumFunctionOnSet(f, S)
<1>1. SumQ(h) = x % Q
  BY SumQDef
<1>2. \A i \in S : h[i] % Q = f[i] % Q
  BY DEF Cong
<1>3. x \in Int /\ x % Q = y % Q
  BY <1>2, SumType, SumCong
<1> HIDE DEF x, y
<1>4. (x % Q) % Q = y % Q
  BY <1>3, ModMod
<1> QED BY <1>1, <1>4 DEF Cong, y

LEMMA SumQScaled ==
    ASSUME NEW S, IsFiniteSet(S), NEW h, DOMAIN h = S, NEW f, IntOn(f, S), NEW c \in Int,
           \A i \in S : h[i] = (c * f[i]) % Q
    PROVE  Cong(SumQ(h), c * SumFunctionOnSet(f, S))
<1> DEFINE g == [i \in S |-> c * f[i]]
<1>1. IntOn(g, S) /\ \A i \in S : g[i] = c * f[i]
  BY DEF IntOn
<1> HIDE DEF g
<1>2. \A i \in S : g[i] \in Int /\ h[i] = g[i] % Q
  BY <1>1 DEF IntOn
<1>3. IntOn(h, S) /\ \A i \in S : Cong(h[i], g[i])
  BY <1>2, CgMod DEF IntOn
<1>4. Cong(SumQ(h), SumFunctionOnSet(g, S))
  BY <1>1, <1>3, SumQCong
<1>5. SumFunctionOnSet(g, S) = c * SumFunctionOnSet(f, S)
  BY <1>1, SumScale
<1> QED BY <1>4, <1>5
=============================================================================
