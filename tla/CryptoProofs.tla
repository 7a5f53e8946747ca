---------------------------- MODULE CryptoProofs ----------------------------
(***************************************************************************)
(* The safety properties of Crypto, proved for every order of the group,   *)
(* every key, every input and every random number that the assumptions of  *)
(* Crypto admit.                                                           *)
(*                                                                         *)
(* First the number theory: congruence modulo any n (Eqm), that the        *)
(* recursive functions of ModArith and TssHash exist (RecExists), powers,  *)
(* the extended Euclidean algorithm, units and Fermat's theorem.  Then     *)
(* each block: Paillier (DecryptIs), the invariant of the specification,   *)
(* the hash as a number, the equations of the responses (Response,         *)
(* CipherResponse), MtA, the proofs about points, what accepted ones show, *)
(* and the proofs about moduli.                                            *)
(***************************************************************************)
EXTENDS Crypto, FeldmanVssProofs

Ar == INSTANCE ModArith

-----------------------------------------------------------------------------
(* Arithmetic modulo any n.                                                *)

\* a and b differ by a multiple of n.
Eqm(a, b, n) == \E k \in Int : a = b + n * k

LEMMA EqmRefl == ASSUME NEW a \in Int, NEW n \in Int PROVE Eqm(a, a, n)
<1>1. a = a + n * 0
  OBVIOUS
<1> QED BY <1>1 DEF Eqm

LEMMA EqmSym == ASSUME NEW a \in Int, NEW b \in Int, NEW n \in Int, Eqm(a, b, n) PROVE Eqm(b, a, n)
<1>1. PICK k \in Int : a = b + n * k
  BY DEF Eqm
<1>2. b = a + n * (-k) /\ -k \in Int
  BY <1>1
<1> QED BY <1>2 DEF Eqm

LEMMA EqmTrans ==
    ASSUME NEW a \in Int, NEW b \in Int, NEW c \in Int, NEW n \in Int, Eqm(a, b, n), Eqm(b, c, n)
    PROVE  Eqm(a, c, n)
<1>1. PICK k \in Int : a = b + n * k
  BY DEF Eqm
<1>2. PICK l \in Int : b = c + n * l
  BY DEF Eqm
<1>3. a = c + n * (l + k) /\ l + k \in Int
  BY <1>1, <1>2
<1> QED BY <1>3 DEF Eqm

LEMMA EqmPlus ==
    ASSUME NEW a \in Int, NEW b \in Int, NEW c \in Int, NEW d \in Int, NEW n \in Int,
           Eqm(a, b, n), Eqm(c, d, n)
    PROVE  Eqm(a + c, b + d, n) /\ Eqm(a - c, b - d, n)
<1>1. PICK k \in Int : a = b + n * k
  BY DEF Eqm
<1>2. PICK l \in Int : c = d + n * l
  BY DEF Eqm
<1>3. a + c = (b + d) + n * (k + l) /\ a - c = (b - d) + n * (k - l) /\ k + l \in Int /\ k - l \in Int
  BY <1>1, <1>2
<1> QED BY <1>3 DEF Eqm

LEMMA EqmTimes ==
    ASSUME NEW a \in Int, NEW b \in Int, NEW c \in Int, NEW d \in Int, NEW n \in Int,
           Eqm(a, b, n), Eqm(c, d, n)
    PROVE  Eqm(a * c, b * d, n)
<1>1. PICK k \in Int : a = b + n * k
  BY DEF Eqm
<1>2. PICK l \in Int : c = d + n * l
  BY DEF Eqm
<1> DEFINE m == (b * l) + (k * d) + (n * k * l)
<1>3. m \in Int
  OBVIOUS
<1>4. a * c = (b * d) + (n * m)
  BY <1>1, <1>2, <1>3
<1> HIDE DEF m
<1> QED BY <1>3, <1>4 DEF Eqm

LEMMA EqmScale ==
    ASSUME NEW a \in Int, NEW b \in Int, NEW c \in Int, NEW n \in Int, Eqm(a, b, n)
    PROVE  Eqm(a * c, b * c, n)
<1>1. Eqm(c, c, n)
  BY EqmRefl
<1> QED BY <1>1, EqmTimes

\* The remainder.
LEMMA ModIs ==
    ASSUME NEW a \in Int, NEW n \in Nat, n > 0
    PROVE  a % n \in Nat /\ a % n \in 0 .. n - 1 /\ Eqm(a % n, a, n) /\ Eqm(a, a % n, n)
<1>1. a % n \in Nat /\ a % n \in 0 .. n - 1
  OBVIOUS
<1> DEFINE r == a % n
           d == a \div n
<1>2. a = n * d + r /\ d \in Int /\ r \in Int
  OBVIOUS
<1> HIDE DEF r, d
<1>3. r = a + n * (-d) /\ a = r + n * d /\ -d \in Int
  BY <1>2
<1>4. Eqm(r, a, n) /\ Eqm(a, r, n)
  BY <1>2, <1>3 DEF Eqm
<1> QED BY <1>1, <1>4 DEF r

LEMMA EqmSmall ==
    ASSUME NEW n \in Nat, NEW a \in 0 .. n - 1, NEW b \in 0 .. n - 1, Eqm(a, b, n)
    PROVE  a = b
<1>1. PICK k \in Int : a = b + n * k
  BY DEF Eqm
<1>2. k < 1 
  <2> SUFFICES ASSUME k >= 1 PROVE FALSE
    BY <1>1
  <2>1. n * k >= n
    OBVIOUS
  <2> QED BY <1>1, <2>1
<1>3. k > -1
  <2> SUFFICES ASSUME k <= -1 PROVE FALSE
    BY <1>1
  <2>1. n * k <= -n
    OBVIOUS
  <2> QED BY <1>1, <2>1
<1> QED BY <1>1, <1>2, <1>3

LEMMA EqmMod ==
    ASSUME NEW a \in Int, NEW b \in Int, NEW n \in Nat, n > 0
    PROVE  Eqm(a, b, n) <=> a % n = b % n
<1> DEFINE r == a % n
           s == b % n
<1>1. r \in 0 .. n - 1 /\ Eqm(r, a, n) /\ Eqm(a, r, n) /\ s \in 0 .. n - 1 /\ Eqm(s, b, n) /\ Eqm(b, s, n)
  BY ModIs
<1> HIDE DEF r, s
<1>2. r \in Int /\ s \in Int /\ n \in Int
  BY <1>1
<1>3. ASSUME Eqm(a, b, n) PROVE r = s
  <2>1. Eqm(r, b, n)
    BY <1>1, <1>2, <1>3, EqmTrans
  <2>2. Eqm(r, s, n)
    BY <1>1, <1>2, <2>1, EqmTrans
  <2> QED BY <1>1, <2>2, EqmSmall
<1>4. ASSUME r = s PROVE Eqm(a, b, n)
  BY <1>1, <1>2, <1>4, EqmTrans
<1> QED BY <1>3, <1>4 DEF r, s

LEMMA SmallMod == ASSUME NEW n \in Nat, NEW a \in 0 .. n - 1 PROVE a % n = a
OBVIOUS

\* The number below n that is congruent to a is a % n.
LEMMA ModIsUnique ==
    ASSUME NEW n \in Nat, NEW a \in Int, NEW r \in 0 .. n - 1, Eqm(r, a, n)
    PROVE  a % n = r
<1>1. n > 0 /\ r \in Int
  OBVIOUS
<1>2. r % n = a % n
  BY <1>1, EqmMod
<1> QED BY <1>2, SmallMod

\* A congruence mod n * m is one mod n.
LEMMA EqmDown ==
    ASSUME NEW a \in Int, NEW b \in Int, NEW n \in Int, NEW m \in Int, Eqm(a, b, n * m)
    PROVE  Eqm(a, b, n) /\ Eqm(a, b, m)
<1>1. PICK k \in Int : a = b + (n * m) * k
  BY DEF Eqm
<1>2. (n * m) * k = n * (m * k) /\ (n * m) * k = m * (n * k) /\ m * k \in Int /\ n * k \in Int
  OBVIOUS
<1> QED BY <1>1, <1>2 DEF Eqm

\* modInt.Mul multiplies.
LEMMA MulModIs ==
    ASSUME NEW x \in Int, NEW y \in Int, NEW n \in Nat, n > 0
    PROVE  Ar!MulMod(x, y, n) = (x * y) % n
<1> DEFINE a == x % n
           b == y % n
           h == b \div 512
           l == b % 512
           u == (a * h) % n
           v == u * 512 + a * l
<1>1. a \in Int /\ b \in Int /\ Eqm(a, x, n) /\ Eqm(b, y, n)
  BY ModIs
<1>2. Ar!MulMod(x, y, n) = v % n
  BY DEF Ar!MulMod
<1> HIDE DEF a, b
<1>3. h \in Int /\ l \in Int /\ b = 512 * h + l
  BY <1>1
<1> HIDE DEF h, l
<1>4. a * h \in Int /\ a * l \in Int
  BY <1>1, <1>3
<1>5. u \in Int /\ Eqm(u, a * h, n)
  BY <1>4, ModIs
<1> HIDE DEF u
<1>6. Eqm(u * 512, (a * h) * 512, n)
  BY <1>4, <1>5, EqmScale
<1>7. Eqm(a * l, a * l, n)
  BY <1>4, EqmRefl
<1>8. u * 512 \in Int /\ (a * h) * 512 \in Int /\ v \in Int
  BY <1>4, <1>5
<1>9. Eqm(v, (a * h) * 512 + a * l, n)
  BY <1>4, <1>6, <1>7, <1>8, EqmPlus
<1>10. (a * h) * 512 + a * l = a * b
  <2>1. a * (512 * h) = (a * h) * 512
    BY <1>1, <1>3
  <2>2. a * b = a * (512 * h) + a * l
    BY <1>1, <1>3
  <2> QED BY <2>1, <2>2
<1> HIDE DEF v
<1>11. Eqm(a * b, x * y, n)
  BY <1>1, EqmTimes
<1>12. Eqm(v, x * y, n)
  <2>1. a * b \in Int /\ x * y \in Int
    BY <1>1
  <2> QED BY <1>8, <1>9, <1>10, <1>11, <2>1, EqmTrans
<1>13. v % n = (x * y) % n
  <2>1. x * y \in Int
    OBVIOUS
  <2> HIDE DEF v
  <2> QED BY <1>8, <1>12, <2>1, EqmMod
<1> QED BY <1>2, <1>13

-----------------------------------------------------------------------------
(* Recursive functions: on a set D, with a measure m that the argument     *)
(* p[d] of the recursive call decreases.                                   *)

Decreases(D, m, p) ==
    m \in [D -> Nat] /\ p \in [D -> D] /\ \A d \in D : m[d] # 0 => m[p[d]] < m[d]

\* g follows the recursion with base b and step H on S.
Recurs(g, S, m, p, b, H) == \A d \in S : g[d] = IF m[d] = 0 THEN b[d] ELSE H[<<d, g[p[d]]>>]

\* The elements of measure below n, and the functions that follow the recursion there.
Lower(D, m, n) == {d \in D : m[d] < n}
Partial(D, m, p, V, b, H, n) ==
    {g \in [Lower(D, m, n) -> V] : Recurs(g, Lower(D, m, n), m, p, b, H)}

\* Two functions that follow the recursion agree.
LEMMA RecAgree ==
    ASSUME NEW D, NEW m, NEW p, NEW b, NEW H, Decreases(D, m, p), NEW n \in Nat,
           NEW g, Recurs(g, Lower(D, m, n), m, p, b, H),
           NEW h, Recurs(h, Lower(D, m, n), m, p, b, H)
    PROVE  \A d \in Lower(D, m, n) : g[d] = h[d]
<1> DEFINE P == {k \in Nat : \A d \in Lower(D, m, n) : m[d] < k => g[d] = h[d]}
<1>0. m \in [D -> Nat] /\ p \in [D -> D] /\ \A d \in D : m[d] # 0 => m[p[d]] < m[d]
  BY DEF Decreases
<1>1. 0 \in P
  BY <1>0 DEF Lower
<1>2. ASSUME NEW k \in Nat, k \in P PROVE k + 1 \in P
  <2> SUFFICES ASSUME NEW d \in Lower(D, m, n), m[d] < k + 1 PROVE g[d] = h[d]
    OBVIOUS
  <2>1. d \in D /\ m[d] \in Nat /\ m[d] < n
    BY <1>0 DEF Lower
  <2>2. CASE m[d] = 0
    BY <2>2 DEF Recurs
  <2>3. CASE m[d] # 0
    <3>1. p[d] \in D /\ m[p[d]] < m[d] /\ m[p[d]] \in Nat
      BY <1>0, <2>1, <2>3
    <3>2. m[p[d]] < n /\ m[p[d]] < k
      BY <2>1, <3>1
    <3>3. p[d] \in Lower(D, m, n)
      BY <3>1, <3>2 DEF Lower
    <3>4. g[p[d]] = h[p[d]]
      BY <1>2, <3>2, <3>3
    <3> QED BY <3>4 DEF Recurs
  <2> QED BY <2>2, <2>3
<1>3. \A k \in Nat : k \in P
  <2> HIDE DEF P
  <2> QED BY <1>1, <1>2, Induction
<1>4. n \in P
  BY <1>3
<1> QED BY <1>4 DEF Lower

LEMMA RecPartial ==
    ASSUME NEW D, NEW m, NEW p, NEW V, NEW b \in [D -> V], NEW H \in [D \X V -> V],
           Decreases(D, m, p)
    PROVE  \A n \in Nat : Partial(D, m, p, V, b, H, n) # {}
<1> DEFINE L(n) == Lower(D, m, n)
           S(n) == Partial(D, m, p, V, b, H, n)
           P == {n \in Nat : S(n) # {}}
<1>0. m \in [D -> Nat] /\ p \in [D -> D] /\ \A d \in D : m[d] # 0 => m[p[d]] < m[d]
  BY DEF Decreases
<1>1. 0 \in P
  <2>1. L(0) = {}
    BY <1>0 DEF Lower
  <2>2. [d \in L(0) |-> 0] \in S(0)
    BY <2>1 DEF Partial, Recurs
  <2> QED BY <2>2
<1>2. ASSUME NEW n \in Nat, n \in P PROVE n + 1 \in P
  <2>1. PICK g : g \in S(n)
    BY <1>2
  <2>a. g \in [L(n) -> V] /\ Recurs(g, L(n), m, p, b, H)
    BY <2>1 DEF Partial
  <2> DEFINE h == [d \in L(n + 1) |-> IF m[d] = 0 THEN b[d] ELSE H[<<d, g[p[d]]>>]]
  <2>2. \A d \in L(n + 1) : d \in D /\ (m[d] # 0 => p[d] \in L(n) /\ p[d] \in L(n + 1))
    <3> SUFFICES ASSUME NEW d \in L(n + 1), m[d] # 0 PROVE p[d] \in L(n) /\ p[d] \in L(n + 1)
      BY DEF Lower
    <3>1. d \in D /\ m[d] \in Nat /\ m[d] < n + 1
      BY <1>0 DEF Lower
    <3>2. p[d] \in D /\ m[p[d]] < m[d] /\ m[p[d]] \in Nat
      BY <1>0, <3>1
    <3>3. m[p[d]] < n /\ m[p[d]] < n + 1
      BY <3>1, <3>2
    <3> QED BY <3>2, <3>3 DEF Lower
  <2>3. h \in [L(n + 1) -> V]
    <3> SUFFICES ASSUME NEW d \in L(n + 1) PROVE (IF m[d] = 0 THEN b[d] ELSE H[<<d, g[p[d]]>>]) \in V
      OBVIOUS
    <3>1. CASE m[d] = 0
      BY <2>2, <3>1
    <3>2. CASE m[d] # 0
      <4>1. d \in D /\ g[p[d]] \in V
        BY <2>2, <2>a, <3>2
      <4> QED BY <3>2, <4>1
    <3> QED BY <3>1, <3>2
  <2>4. \A d \in L(n) : d \in L(n + 1) /\ h[d] = g[d]
    <3> SUFFICES ASSUME NEW d \in L(n) PROVE d \in L(n + 1) /\ h[d] = g[d]
      OBVIOUS
    <3>1. d \in L(n + 1)
      BY <1>0 DEF Lower
    <3>2. g[d] = IF m[d] = 0 THEN b[d] ELSE H[<<d, g[p[d]]>>]
      BY <2>a DEF Recurs
    <3> QED BY <3>1, <3>2
  <2>5. \A d \in L(n + 1) : h[d] = IF m[d] = 0 THEN b[d] ELSE H[<<d, g[p[d]]>>]
    OBVIOUS
  <2> HIDE DEF h
  <2>6. Recurs(h, L(n + 1), m, p, b, H)
    BY <2>2, <2>4, <2>5 DEF Recurs
  <2>7. h \in S(n + 1)
    BY <2>3, <2>6 DEF Partial
  <2> QED BY <2>7
<1>3. \A n \in Nat : n \in P
  <2> HIDE DEF P
  <2> QED BY <1>1, <1>2, Induction
<1> QED BY <1>3

\* The recursion has a solution.
LEMMA RecExists ==
    ASSUME NEW D, NEW m, NEW p, NEW V, NEW b \in [D -> V], NEW H \in [D \X V -> V],
           Decreases(D, m, p)
    PROVE  \E f \in [D -> V] : Recurs(f, D, m, p, b, H)
<1> DEFINE S(n) == Partial(D, m, p, V, b, H, n)
           L(n) == Lower(D, m, n)
           G(n) == CHOOSE g \in S(n) : TRUE
           f == [d \in D |-> G(m[d] + 1)[d]]
<1>0. m \in [D -> Nat] /\ p \in [D -> D] /\ \A d \in D : m[d] # 0 => m[p[d]] < m[d]
  BY DEF Decreases
<1>1. \A n \in Nat : G(n) \in S(n)
  <2>1. \A n \in Nat : S(n) # {}
    BY RecPartial, Zenon
  <2> HIDE DEF S
  <2> QED BY <2>1
<1>2. \A d \in D : m[d] + 1 \in Nat /\ d \in L(m[d] + 1)
  BY <1>0 DEF Lower
<1>3. \A d \in D : f[d] = G(m[d] + 1)[d]
  OBVIOUS
<1> HIDE DEF G
<1>4. \A n \in Nat : G(n) \in [L(n) -> V] /\ Recurs(G(n), L(n), m, p, b, H)
  BY <1>1 DEF Partial
<1>5. f \in [D -> V]
  BY <1>2, <1>4
<1> HIDE DEF f
<1>6. ASSUME NEW d \in D PROVE f[d] = IF m[d] = 0 THEN b[d] ELSE H[<<d, f[p[d]]>>]
  <2> DEFINE n == m[d] + 1
             k == m[p[d]] + 1
  <2>1. n \in Nat /\ d \in L(n) /\ f[d] = G(n)[d] /\ Recurs(G(n), L(n), m, p, b, H)
    BY <1>2, <1>3, <1>4
  <2>2. f[d] = IF m[d] = 0 THEN b[d] ELSE H[<<d, G(n)[p[d]]>>]
    BY <2>1 DEF Recurs
  <2>3. CASE m[d] = 0
    BY <2>2, <2>3
  <2>4. CASE m[d] # 0
    <3>1. p[d] \in D /\ m[p[d]] \in Nat /\ m[p[d]] < m[d] /\ m[d] \in Nat
      BY <1>0, <2>4
    <3>2. k \in Nat /\ p[d] \in L(k) /\ f[p[d]] = G(k)[p[d]]
      BY <1>2, <1>3, <3>1
    <3>3. \A c \in L(k) : c \in L(n)
      BY <1>0, <3>1 DEF Lower
    <3> HIDE DEF n, k
    <3>4. Recurs(G(n), L(k), m, p, b, H) /\ Recurs(G(k), L(k), m, p, b, H)
      BY <1>4, <2>1, <3>2, <3>3 DEF Recurs
    <3> DEFINE x == G(n)
               y == G(k)
    <3> HIDE DEF x, y
    <3>5. \A c \in L(k) : x[c] = y[c]
      <4>1. Recurs(x, L(k), m, p, b, H) /\ Recurs(y, L(k), m, p, b, H)
        BY <3>4 DEF x, y
      <4> QED BY <3>2, <4>1, RecAgree
    <3>6. G(n)[p[d]] = f[p[d]]
      BY <3>2, <3>5 DEF x, y
    <3> QED BY <2>2, <3>6
  <2> QED BY <2>3, <2>4
<1>7. Recurs(f, D, m, p, b, H)
  BY <1>6 DEF Recurs
<1> QED BY <1>5, <1>7

-----------------------------------------------------------------------------
(* Powers.                                                                 *)

\* x to the power k.
PwOf(x) == CHOOSE f \in [Nat -> Int] : f[0] = 1 /\ \A k \in Nat : f[k + 1] = f[k] * x
Pw(x, k) == PwOf(x)[k]

LEMMA PwDef ==
    ASSUME NEW x \in Int
    PROVE  /\ \A k \in Nat : Pw(x, k) \in Int
           /\ Pw(x, 0) = 1
           /\ \A k \in Nat : Pw(x, k + 1) = Pw(x, k) * x
<1> DEFINE m == [k \in Nat |-> k]
           p == [k \in Nat |-> IF k = 0 THEN 0 ELSE k - 1]
           b == [k \in Nat |-> 1]
           H == [z \in Nat \X Int |-> z[2] * x]
           Good(f) == f[0] = 1 /\ \A k \in Nat : f[k + 1] = f[k] * x
<1>1. Decreases(Nat, m, p) /\ b \in [Nat -> Int] /\ H \in [Nat \X Int -> Int]
  BY DEF Decreases
<1>2. PICK f \in [Nat -> Int] : Recurs(f, Nat, m, p, b, H)
  <2> HIDE DEF m, p, b, H
  <2> QED BY <1>1, RecExists
<1>3. \A k \in Nat : f[k] = IF k = 0 THEN 1 ELSE f[k - 1] * x
  <2>1. \A k \in Nat : f[k] = IF m[k] = 0 THEN b[k] ELSE H[<<k, f[p[k]]>>]
    BY <1>2 DEF Recurs
  <2>2. ASSUME NEW k \in Nat PROVE f[k] = IF k = 0 THEN 1 ELSE f[k - 1] * x
    <3>1. CASE k = 0
      BY <2>1, <3>1
    <3>2. CASE k # 0
      <4>1. p[k] = k - 1 /\ k - 1 \in Nat /\ m[k] = k
        BY <3>2
      <4>2. f[k - 1] \in Int
        BY <4>1
      <4>3. <<k, f[k - 1]>> \in Nat \X Int
        BY <4>2
      <4>4. H[<<k, f[k - 1]>>] = f[k - 1] * x
        BY <4>3
      <4> HIDE DEF H, p, m, b
      <4> QED BY <2>1, <3>2, <4>1, <4>4
    <3> QED BY <3>1, <3>2
  <2> QED BY <2>2
<1>4. Good(f)
  <2>1. f[0] = 1
    BY <1>3
  <2>2. ASSUME NEW k \in Nat PROVE f[k + 1] = f[k] * x
    <3>1. k + 1 \in Nat /\ k + 1 # 0 /\ (k + 1) - 1 = k
      OBVIOUS
    <3> QED BY <1>3, <3>1
  <2> QED BY <2>1, <2>2
<1> HIDE DEF Good
<1>5. PwOf(x) \in [Nat -> Int] /\ Good(PwOf(x))
  BY <1>4 DEF PwOf, Good
<1> QED BY <1>5 DEF Good, Pw

LEMMA PwOne == ASSUME NEW x \in Int PROVE Pw(x, 1) = x
<1>1. Pw(x, 0 + 1) = Pw(x, 0) * x /\ Pw(x, 0) = 1
  BY PwDef
<1> QED BY <1>1

LEMMA PwPlus ==
    ASSUME NEW x \in Int, NEW a \in Nat, NEW b \in Nat PROVE Pw(x, a + b) = Pw(x, a) * Pw(x, b)
<1> DEFINE P == {k \in Nat : Pw(x, a + k) = Pw(x, a) * Pw(x, k)}
<1>0. \A k \in Nat : Pw(x, k) \in Int
  BY PwDef
<1>1. 0 \in P
  <2>1. Pw(x, 0) = 1 /\ a + 0 = a /\ Pw(x, a) \in Int
    BY PwDef
  <2> QED BY <2>1
<1>2. ASSUME NEW k \in Nat, k \in P PROVE k + 1 \in P
  <2> DEFINE u == Pw(x, a)
             v == Pw(x, k)
             w == Pw(x, a + k)
  <2>1. Pw(x, k + 1) = v * x
    BY PwDef
  <2>2. a + k \in Nat /\ a + (k + 1) = (a + k) + 1
    OBVIOUS
  <2>3. Pw(x, a + (k + 1)) = w * x
    BY <2>2, PwDef
  <2>4. w = u * v /\ u \in Int /\ v \in Int
    BY <1>0, <1>2
  <2> HIDE DEF u, v, w
  <2>5. w * x = u * (v * x)
    BY <2>4
  <2>6. Pw(x, a + (k + 1)) = u * Pw(x, k + 1)
    BY <2>1, <2>3, <2>5
  <2> QED BY <2>6 DEF u
<1>3. \A k \in Nat : k \in P
  <2> HIDE DEF P
  <2> QED BY <1>1, <1>2, Induction
<1> QED BY <1>3

LEMMA PwProd ==
    ASSUME NEW x \in Int, NEW y \in Int, NEW a \in Nat PROVE Pw(x * y, a) = Pw(x, a) * Pw(y, a)
<1> DEFINE P == {k \in Nat : Pw(x * y, k) = Pw(x, k) * Pw(y, k)}
<1>z. x * y \in Int
  OBVIOUS
<1>0. \A k \in Nat : Pw(x, k) \in Int /\ Pw(y, k) \in Int /\ Pw(x * y, k) \in Int
  BY <1>z, PwDef
<1>1. 0 \in P
  <2>1. Pw(x, 0) = 1 /\ Pw(y, 0) = 1 /\ Pw(x * y, 0) = 1
    BY PwDef, <1>z
  <2> QED BY <2>1
<1>2. ASSUME NEW k \in Nat, k \in P PROVE k + 1 \in P
  <2> DEFINE u == Pw(x, k)
             v == Pw(y, k)
             w == Pw(x * y, k)
  <2>1. Pw(x, k + 1) = u * x /\ Pw(y, k + 1) = v * y /\ Pw(x * y, k + 1) = w * (x * y)
    BY PwDef, <1>z
  <2>4. w = u * v /\ u \in Int /\ v \in Int
    BY <1>0, <1>2
  <2> HIDE DEF u, v, w
  <2>5. w * (x * y) = (u * x) * (v * y)
    BY <2>4
  <2>6. Pw(x * y, k + 1) = Pw(x, k + 1) * Pw(y, k + 1)
    BY <2>1, <2>5
  <2> QED BY <2>6
<1>3. \A k \in Nat : k \in P
  <2> HIDE DEF P
  <2> QED BY <1>1, <1>2, Induction
<1> QED BY <1>3

LEMMA PwTimes ==
    ASSUME NEW x \in Int, NEW a \in Nat, NEW b \in Nat
    PROVE  Pw(x, a * b) = Pw(Pw(x, a), b)
<1> DEFINE y == Pw(x, a)
           P == {k \in Nat : Pw(x, a * k) = Pw(y, k)}
<1>0. y \in Int
  BY PwDef
<1> HIDE DEF y
<1>1. 0 \in P
  <2>1. Pw(x, 0) = 1 /\ Pw(y, 0) = 1 /\ a * 0 = 0
    BY PwDef, <1>0
  <2> QED BY <2>1
<1>2. ASSUME NEW k \in Nat, k \in P PROVE k + 1 \in P
  <2>1. a * (k + 1) = a * k + a /\ a * k \in Nat
    OBVIOUS
  <2>2. Pw(x, a * k + a) = Pw(x, a * k) * y
    BY <2>1, PwPlus DEF y
  <2>3. Pw(y, k + 1) = Pw(y, k) * y
    BY <1>0, PwDef
  <2> QED BY <1>2, <2>1, <2>2, <2>3
<1>3. \A k \in Nat : k \in P
  <2> HIDE DEF P
  <2> QED BY <1>1, <1>2, Induction
<1> QED BY <1>3 DEF y

LEMMA PwOfOne == ASSUME NEW a \in Nat PROVE Pw(1, a) = 1
<1> DEFINE P == {k \in Nat : Pw(1, k) = 1}
<1>1. 0 \in P
  BY PwDef
<1>2. ASSUME NEW k \in Nat, k \in P PROVE k + 1 \in P
  BY <1>2, PwDef
<1>3. \A k \in Nat : k \in P
  <2> HIDE DEF P
  <2> QED BY <1>1, <1>2, Induction
<1> QED BY <1>3

LEMMA PwEqm ==
    ASSUME NEW x \in Int, NEW y \in Int, NEW n \in Int, Eqm(x, y, n), NEW a \in Nat
    PROVE  Eqm(Pw(x, a), Pw(y, a), n)
<1> DEFINE P == {k \in Nat : Eqm(Pw(x, k), Pw(y, k), n)}
<1>0. \A k \in Nat : Pw(x, k) \in Int /\ Pw(y, k) \in Int
  BY PwDef
<1>1. 0 \in P
  <2>1. Pw(x, 0) = 1 /\ Pw(y, 0) = 1
    BY PwDef
  <2> QED BY <2>1, EqmRefl
<1>2. ASSUME NEW k \in Nat, k \in P PROVE k + 1 \in P
  <2>1. Pw(x, k + 1) = Pw(x, k) * x /\ Pw(y, k + 1) = Pw(y, k) * y
    BY PwDef
  <2>2. Eqm(Pw(x, k) * x, Pw(y, k) * y, n)
    BY <1>0, <1>2, EqmTimes
  <2> QED BY <2>1, <2>2
<1>3. \A k \in Nat : k \in P
  <2> HIDE DEF P
  <2> QED BY <1>1, <1>2, Induction
<1> QED BY <1>3

\* One step of square and multiply.
LEMMA PwHalf ==
    ASSUME NEW x \in Int, NEW i \in Nat
    PROVE  /\ i \div 2 \in Nat
           /\ Pw(x, i) = (Pw(x, i \div 2) * Pw(x, i \div 2)) * (IF i % 2 = 1 THEN x ELSE 1)
<1> DEFINE h == i \div 2
           u == Pw(x, h)
<1>1. h \in Nat /\ i = 2 * h + (i % 2) /\ i % 2 \in {0, 1}
  OBVIOUS
<1> HIDE DEF h
<1>2. u \in Int
  BY <1>1, PwDef
<1>3. Pw(x, h + h) = u * u
  BY <1>1, PwPlus
<1> HIDE DEF u
<1>4. CASE i % 2 = 1
  <2>1. i = (h + h) + 1 /\ h + h \in Nat
    BY <1>1, <1>4
  <2>2. Pw(x, i) = (u * u) * x
    BY <1>3, <2>1, PwDef
  <2> QED BY <1>1, <1>4, <2>2 DEF h, u
<1>5. CASE i % 2 = 0
  <2>1. i = h + h
    BY <1>1, <1>5
  <2>2. Pw(x, i) = (u * u) * 1
    BY <1>2, <1>3, <2>1
  <2> QED BY <1>1, <1>5, <2>2 DEF h, u
<1> QED BY <1>1, <1>4, <1>5

\* The recursion of modInt.Exp computes the power mod n.
LEMMA PowerIs ==
    ASSUME NEW x \in Int, NEW k \in Nat, NEW n \in Nat, n > 0
    PROVE  Ar!Power(x, k, n) = Pw(x, k) % n
<1> DEFINE Sq(h, i) == Ar!MulMod(Ar!MulMod(h, h, n), IF i % 2 = 1 THEN x ELSE 1, n)
           Eq(g) == g = [i \in Nat |-> IF i = 0 THEN 1 % n ELSE Sq(g[i \div 2], i)]
           f == [i \in Nat |-> Pw(x, i) % n]
           pow == CHOOSE g : Eq(g)
<1>1. Ar!Power(x, k, n) = pow[k]
  BY Zenon DEF Ar!Power
<1>2. ASSUME NEW h \in Int, NEW i \in Nat
      PROVE  Sq(h, i) = ((h * h) * (IF i % 2 = 1 THEN x ELSE 1)) % n
  <2> DEFINE c == IF i % 2 = 1 THEN x ELSE 1
             s == h * h
             r == s % n
  <2>1. c \in Int /\ s \in Int
    OBVIOUS
  <2>2. Ar!MulMod(h, h, n) = r
    BY MulModIs
  <2> HIDE DEF c, s
  <2>3. r \in Int /\ Eqm(r, s, n)
    BY <2>1, ModIs
  <2> HIDE DEF r
  <2>4. Ar!MulMod(r, c, n) = (r * c) % n
    BY <2>1, <2>3, MulModIs
  <2>5. Eqm(r * c, s * c, n)
    <3>1. n \in Int
      OBVIOUS
    <3> QED BY <2>1, <2>3, <3>1, EqmScale, Zenon
  <2>7. r * c \in Int /\ s * c \in Int
    BY <2>1, <2>3
  <2>6. (r * c) % n = (s * c) % n
    BY <2>5, <2>7, EqmMod
  <2> QED BY <2>2, <2>4, <2>6 DEF c, s
<1>3. \A i \in Nat : i # 0 => i \div 2 \in Nat
  BY PwHalf
<1>4. ASSUME NEW i \in Nat, NEW h \in Int, Eqm(h, Pw(x, i \div 2), n)
      PROVE  Sq(h, i) = Pw(x, i) % n
  <2> DEFINE c == IF i % 2 = 1 THEN x ELSE 1
             u == Pw(x, i \div 2)
  <2>1. c \in Int /\ u \in Int
    BY PwHalf, PwDef
  <2>2. Eqm(h * h, u * u, n)
    BY <1>4, <2>1, EqmTimes
  <2>3. Pw(x, i) = (u * u) * c
    BY PwHalf
  <2>4. Sq(h, i) = ((h * h) * c) % n
    BY <1>2
  <2> HIDE DEF c, u, Sq
  <2>5. h * h \in Int /\ u * u \in Int
    BY <2>1
  <2>6. Eqm((h * h) * c, (u * u) * c, n)
    <3>1. n \in Int
      OBVIOUS
    <3> QED BY <2>1, <2>2, <2>5, <3>1, EqmScale, Zenon
  <2>7. (h * h) * c \in Int /\ (u * u) * c \in Int
    BY <2>1, <2>5
  <2> QED BY <2>3, <2>4, <2>6, <2>7, EqmMod
<1>5. \A i \in Nat : f[i] \in Int /\ Eqm(f[i], Pw(x, i), n)
  <2> SUFFICES ASSUME NEW i \in Nat PROVE f[i] \in Int /\ Eqm(f[i], Pw(x, i), n)
    OBVIOUS
  <2>1. Pw(x, i) \in Int /\ f[i] = Pw(x, i) % n
    BY PwDef
  <2> QED BY <2>1, ModIs
<1>6. \A i \in Nat : f[i] = IF i = 0 THEN 1 % n ELSE Sq(f[i \div 2], i)
  <2> SUFFICES ASSUME NEW i \in Nat PROVE f[i] = IF i = 0 THEN 1 % n ELSE Sq(f[i \div 2], i)
    OBVIOUS
  <2>1. f[i] = Pw(x, i) % n
    OBVIOUS
  <2>2. CASE i = 0
    BY <2>1, <2>2, PwDef
  <2>3. CASE i # 0
    <3>1. i \div 2 \in Nat
      BY <1>3, <2>3
    <3> HIDE DEF f, Sq
    <3>2. f[i \div 2] \in Int /\ Eqm(f[i \div 2], Pw(x, i \div 2), n)
      BY <1>5, <3>1
    <3> QED BY <1>4, <2>1, <2>3, <3>2
  <2> QED BY <2>2, <2>3
<1>7. Eq(f)
  <2>1. f = [i \in Nat |-> f[i]]
    OBVIOUS
  <2> HIDE DEF f, Sq
  <2> QED BY <1>6, <2>1, Zenon
<1> HIDE DEF Sq
<1>8. Eq(pow)
  BY <1>7, Zenon
<1> HIDE DEF pow
<1>9. \A i \in Nat : pow[i] = IF i = 0 THEN 1 % n ELSE Sq(pow[i \div 2], i)
  BY <1>8
<1> DEFINE P == {j \in Nat : \A i \in Nat : i < j => pow[i] = Pw(x, i) % n}
<1>10. 0 \in P
  OBVIOUS
<1>11. ASSUME NEW j \in Nat, j \in P PROVE j + 1 \in P
  <2> SUFFICES ASSUME NEW i \in Nat, i < j + 1 PROVE pow[i] = Pw(x, i) % n
    OBVIOUS
  <2>1. CASE i = 0
    BY <1>9, <2>1, PwDef
  <2>2. CASE i # 0
    <3>1. i \div 2 \in Nat /\ i \div 2 < i
      BY <2>2
    <3>2. pow[i \div 2] = Pw(x, i \div 2) % n
      <4>1. i \div 2 < j
        BY <3>1
      <4> QED BY <1>11, <3>1, <4>1
    <3>3. pow[i \div 2] \in Int /\ Eqm(pow[i \div 2], Pw(x, i \div 2), n)
      <4>1. Pw(x, i \div 2) \in Int
        BY <3>1, PwDef
      <4> DEFINE z == Pw(x, i \div 2)
      <4> HIDE DEF z
      <4>2. z \in Int /\ pow[i \div 2] = z % n
        BY <3>2, <4>1 DEF z
      <4>3. z % n \in Int /\ Eqm(z % n, z, n)
        BY <4>2, ModIs
      <4> QED BY <4>2, <4>3 DEF z
    <3> QED BY <1>4, <1>9, <2>2, <3>3
  <2> QED BY <2>1, <2>2
<1>12. \A j \in Nat : j \in P
  <2> HIDE DEF P
  <2> QED BY <1>10, <1>11, Induction
<1>13. k + 1 \in P /\ k < k + 1
  BY <1>12
<1>14. pow[k] = Pw(x, k) % n
  BY <1>13
<1> QED BY <1>1, <1>14

\* modInt.Exp for an exponent that is not negative.
LEMMA ExpIs ==
    ASSUME NEW x \in Int, NEW k \in Nat, NEW n \in Nat, n > 0
    PROVE  Ar!Exp(x, k, n) = Pw(x, k) % n
<1> DEFINE r == x % n
<1>1. Ar!Exp(x, k, n) = Ar!Power(r, k, n)
  BY DEF Ar!Exp
<1>2. r \in Int /\ Eqm(r, x, n)
  BY ModIs
<1> HIDE DEF r
<1>3. Ar!Power(r, k, n) = Pw(r, k) % n
  BY <1>2, PowerIs
<1>4. Eqm(Pw(r, k), Pw(x, k), n) /\ Pw(r, k) \in Int /\ Pw(x, k) \in Int
  <2>1. Pw(r, k) \in Int /\ Pw(x, k) \in Int
    BY <1>2, PwDef
  <2> QED BY <1>2, <2>1, PwEqm
<1>5. Pw(r, k) % n = Pw(x, k) % n
  BY <1>4, EqmMod
<1> QED BY <1>1, <1>3, <1>5

(* The extended Euclidean algorithm.                                       *)

Pairs == Nat \X Nat
Triple == Int \X Int \X Int

\* The pair of the recursive call, and one unfolding of the recursion.
Smaller(p) == <<p[2], p[1] % p[2]>>
GcdStep(p, r) ==
    IF p[2] = 0 THEN <<p[1], 1, 0>> ELSE <<r[1], r[3], r[2] - (p[1] \div p[2]) * r[3]>>

\* The functions that follow the recursion on the pairs whose second number is
\* below n.
Below(n) == {p \in Pairs : p[2] < n}
Solves(n) == {g \in [Below(n) -> Triple] : \A p \in Below(n) : g[p] = GcdStep(p, g[Smaller(p)])}

LEMMA SmallerIs ==
    ASSUME NEW p \in Pairs, p[2] # 0
    PROVE  /\ Smaller(p) \in Pairs /\ Smaller(p)[2] < p[2] /\ Smaller(p)[2] \in Nat
           /\ p[1] \div p[2] \in Int /\ p[1] = p[2] * (p[1] \div p[2]) + Smaller(p)[2]
           /\ Smaller(p)[1] = p[2]
<1> DEFINE a == p[1]
           b == p[2]
<1>1. a \in Nat /\ b \in Nat /\ b > 0
  BY DEF Pairs
<1> HIDE DEF a, b
<1>2. a % b \in Nat /\ a % b < b /\ a \div b \in Int /\ a = b * (a \div b) + (a % b)
  BY <1>1
<1>3. Smaller(p) = <<b, a % b>>
  BY DEF Smaller, a, b
<1>4. Smaller(p)[1] = b /\ Smaller(p)[2] = a % b
  BY <1>3
<1>5. Smaller(p) \in Pairs
  BY <1>1, <1>2, <1>3 DEF Pairs
<1> QED BY <1>2, <1>4, <1>5 DEF a, b

LEMMA GcdStepType ==
    ASSUME NEW p \in Pairs, NEW r, p[2] # 0 => r \in Triple PROVE GcdStep(p, r) \in Triple
<1>1. CASE p[2] = 0
  BY <1>1 DEF GcdStep, Pairs, Triple
<1>2. CASE p[2] # 0
  <2> DEFINE k == p[1] \div p[2]
  <2>1. k \in Int
    BY <1>2, SmallerIs
  <2>2. GcdStep(p, r) = <<r[1], r[3], r[2] - (k * r[3])>>
    BY <1>2 DEF GcdStep
  <2>3. r[1] \in Int /\ r[2] \in Int /\ r[3] \in Int
    BY <1>2 DEF Triple
  <2> HIDE DEF k
  <2>4. r[2] - (k * r[3]) \in Int
    BY <2>1, <2>3
  <2> QED BY <2>2, <2>3, <2>4 DEF Triple
<1> QED BY <1>1, <1>2

\* Two such functions agree where both are defined.
LEMMA SolvesAgree ==
    ASSUME NEW n \in Nat, NEW m \in Nat, NEW g \in Solves(n), NEW h \in Solves(m),
           NEW x \in Below(n) \cap Below(m)
    PROVE  g[x] = h[x]
<1> DEFINE P == {k \in Nat : \A p \in Below(n) \cap Below(m) : p[2] < k => g[p] = h[p]}
<1>1. 0 \in P
  BY DEF Below, Pairs
<1>2. ASSUME NEW k \in Nat, k \in P PROVE k + 1 \in P
  <2> SUFFICES ASSUME NEW p \in Below(n) \cap Below(m), p[2] < k + 1 PROVE g[p] = h[p]
    OBVIOUS
  <2>1. p \in Pairs /\ g[p] = GcdStep(p, g[Smaller(p)]) /\ h[p] = GcdStep(p, h[Smaller(p)])
    BY DEF Solves, Below
  <2>2. CASE p[2] = 0
    BY <2>1, <2>2 DEF GcdStep
  <2>3. CASE p[2] # 0
    <3>1. Smaller(p) \in Pairs /\ Smaller(p)[2] < p[2] /\ Smaller(p)[2] \in Nat /\ p[2] \in Nat
      BY <2>1, <2>3, SmallerIs DEF Pairs
    <3>2. p[2] < n /\ p[2] < m
      BY DEF Below
    <3>3. Smaller(p)[2] < n /\ Smaller(p)[2] < m /\ Smaller(p)[2] < k
      BY <3>1, <3>2
    <3>4. Smaller(p) \in Below(n) \cap Below(m)
      BY <3>1, <3>3 DEF Below
    <3>5. g[Smaller(p)] = h[Smaller(p)]
      BY <1>2, <3>3, <3>4
    <3> QED BY <2>1, <3>5
  <2> QED BY <2>2, <2>3
<1>3. \A k \in Nat : k \in P
  <2> HIDE DEF P
  <2> QED BY <1>1, <1>2, Induction
<1>4. n \in P /\ x[2] < n
  BY <1>3 DEF Below
<1> QED BY <1>4

LEMMA SolvesExist == \A n \in Nat : Solves(n) # {}
<1> DEFINE P == {n \in Nat : Solves(n) # {}}
<1>1. 0 \in P
  <2>1. Below(0) = {}
    BY DEF Below, Pairs
  <2>2. [p \in Below(0) |-> <<0, 0, 0>>] \in Solves(0)
    BY <2>1 DEF Solves
  <2> QED BY <2>2
<1>2. ASSUME NEW n \in Nat, n \in P PROVE n + 1 \in P
  <2>1. PICK g : g \in Solves(n)
    BY <1>2
  <2> DEFINE h == [p \in Below(n + 1) |-> GcdStep(p, g[Smaller(p)])]
  <2>2. \A p \in Below(n + 1) : p \in Pairs /\ (p[2] # 0 => Smaller(p) \in Below(n) \cap Below(n + 1))
    <3> SUFFICES ASSUME NEW p \in Below(n + 1), p[2] # 0
                 PROVE  Smaller(p) \in Below(n) \cap Below(n + 1)
      BY DEF Below
    <3>1. p \in Pairs /\ p[2] < n + 1 /\ p[2] \in Nat
      BY DEF Below, Pairs
    <3>2. Smaller(p) \in Pairs /\ Smaller(p)[2] < p[2] /\ Smaller(p)[2] \in Nat
      BY <3>1, SmallerIs
    <3>3. Smaller(p)[2] < n /\ Smaller(p)[2] < n + 1
      BY <3>1, <3>2
    <3> QED BY <3>2, <3>3 DEF Below
  <2>3. \A p \in Below(n + 1) : GcdStep(p, g[Smaller(p)]) \in Triple
    <3>1. \A p \in Below(n) : g[p] \in Triple
      BY <2>1 DEF Solves
    <3> QED BY <2>2, <3>1, GcdStepType
  <2>4. h \in [Below(n + 1) -> Triple]
    BY <2>3
  <2>5. \A p \in Below(n) : p \in Below(n + 1) /\ h[p] = g[p]
    <3>1. \A p \in Below(n) : p \in Below(n + 1)
      BY DEF Below, Pairs
    <3>2. \A p \in Below(n) : g[p] = GcdStep(p, g[Smaller(p)])
      BY <2>1 DEF Solves
    <3> QED BY <3>1, <3>2
  <2>6. \A p \in Below(n + 1) : h[p] = GcdStep(p, h[Smaller(p)])
    <3> SUFFICES ASSUME NEW p \in Below(n + 1) PROVE h[p] = GcdStep(p, h[Smaller(p)])
      OBVIOUS
    <3>1. h[p] = GcdStep(p, g[Smaller(p)])
      OBVIOUS
    <3> HIDE DEF h
    <3>2. CASE p[2] = 0
      BY <3>1, <3>2 DEF GcdStep
    <3>3. CASE p[2] # 0
      BY <2>2, <2>5, <3>1, <3>3
    <3> QED BY <3>2, <3>3
  <2> HIDE DEF h
  <2>7. h \in Solves(n + 1)
    BY <2>4, <2>6 DEF Solves
  <2> QED BY <2>7
<1> HIDE DEF P
<1>3. \A n \in Nat : n \in P
  BY <1>1, <1>2, Induction
<1> QED BY <1>3 DEF P

\* The recursion has a solution, and xgcd is one.
LEMMA XgcdIs ==
    /\ \A p \in Pairs : Ar!xgcd[p] \in Triple
    /\ \A p \in Pairs : Ar!xgcd[p] = GcdStep(p, Ar!xgcd[Smaller(p)])
<1> DEFINE G(n) == CHOOSE g \in Solves(n) : TRUE
           f == [p \in Pairs |-> G(p[2] + 1)[p]]
<1>1. \A n \in Nat : G(n) \in Solves(n)
  BY SolvesExist
<1>2. \A p \in Pairs : p[2] \in Nat /\ p[2] + 1 \in Nat /\ p \in Below(p[2] + 1)
  BY DEF Pairs, Below
<1>3. \A p \in Pairs : f[p] = G(p[2] + 1)[p]
  OBVIOUS
<1> HIDE DEF G
<1>4. \A p \in Pairs : f[p] \in Triple
  BY <1>1, <1>2, <1>3 DEF Solves
<1> HIDE DEF f
<1>5. \A p \in Pairs : f[p] = GcdStep(p, f[Smaller(p)])
  <2> SUFFICES ASSUME NEW p \in Pairs PROVE f[p] = GcdStep(p, f[Smaller(p)])
    OBVIOUS
  <2> DEFINE n == p[2] + 1
             s == Smaller(p)
             m == s[2] + 1
  <2>1. n \in Nat /\ G(n) \in Solves(n) /\ p \in Below(n)
    BY <1>1, <1>2
  <2>2. f[p] = GcdStep(p, G(n)[s])
    BY <1>3, <2>1 DEF Solves
  <2>3. CASE p[2] = 0
    BY <2>2, <2>3 DEF GcdStep
  <2>4. CASE p[2] # 0
    <3>1. s \in Pairs /\ s[2] < p[2] /\ s[2] \in Nat /\ p[2] \in Nat
      BY <2>4, SmallerIs DEF Pairs
    <3> HIDE DEF s
    <3>2. m \in Nat /\ G(m) \in Solves(m) /\ s \in Below(m) /\ f[s] = G(m)[s]
      BY <1>1, <1>2, <1>3, <3>1
    <3>3. s \in Below(n)
      BY <3>1 DEF Below
    <3> HIDE DEF n, m
    <3>4. G(n)[s] = G(m)[s]
      BY <2>1, <3>2, <3>3, SolvesAgree
    <3> QED BY <2>2, <3>2, <3>4 DEF s
  <2> QED BY <2>3, <2>4
<1>6. f = [p \in Nat \X Nat |->
              IF p[2] = 0 THEN <<p[1], 1, 0>>
              ELSE LET r == f[<<p[2], p[1] % p[2]>>]
                   IN  <<r[1], r[3], r[2] - (p[1] \div p[2]) * r[3]>>]
  <2>1. f = [p \in Pairs |-> f[p]]
    BY DEF f
  <2>2. \A p \in Pairs : f[p] =
              IF p[2] = 0 THEN <<p[1], 1, 0>>
              ELSE LET r == f[<<p[2], p[1] % p[2]>>]
                   IN  <<r[1], r[3], r[2] - (p[1] \div p[2]) * r[3]>>
    BY <1>5 DEF GcdStep, Smaller
  <2> QED BY <2>1, <2>2, Zenon DEF Pairs
<1>7. Ar!xgcd = [p \in Nat \X Nat |->
              IF p[2] = 0 THEN <<p[1], 1, 0>>
              ELSE LET r == Ar!xgcd[<<p[2], p[1] % p[2]>>]
                   IN  <<r[1], r[3], r[2] - (p[1] \div p[2]) * r[3]>>]
  BY <1>6, Zenon DEF Ar!xgcd
<1> DEFINE x == Ar!xgcd
<1> HIDE DEF x
<1>8. x = [p \in Pairs |-> GcdStep(p, x[Smaller(p)])]
  BY <1>7, Zenon DEF x, GcdStep, Smaller, Pairs
<1>9. \A p \in Pairs : x[p] = GcdStep(p, x[Smaller(p)])
  <2> DEFINE e(p) == GcdStep(p, x[Smaller(p)])
  <2>1. x = [p \in Pairs |-> e(p)]
    BY <1>8
  <2> HIDE DEF e
  <2>2. \A p \in Pairs : x[p] = e(p)
    BY <2>1
  <2> QED BY <2>2 DEF e
<1> DEFINE P == {k \in Nat : \A p \in Pairs : p[2] < k => x[p] \in Triple}
<1>10. 0 \in P
  BY DEF Pairs
<1>11. ASSUME NEW k \in Nat, k \in P PROVE k + 1 \in P
  <2> SUFFICES ASSUME NEW p \in Pairs, p[2] < k + 1 PROVE x[p] \in Triple
    OBVIOUS
  <2>1. ASSUME p[2] # 0 PROVE x[Smaller(p)] \in Triple
    <3>1. Smaller(p) \in Pairs /\ Smaller(p)[2] < p[2] /\ Smaller(p)[2] \in Nat /\ p[2] \in Nat
      BY <2>1, SmallerIs DEF Pairs
    <3>2. Smaller(p)[2] < k
      BY <3>1
    <3> QED BY <1>11, <3>1, <3>2
  <2> QED BY <1>9, <2>1, GcdStepType
<1>12. \A k \in Nat : k \in P
  <2> HIDE DEF P
  <2> QED BY <1>10, <1>11, Induction
<1>13. \A p \in Pairs : x[p] \in Triple
  <2> TAKE p \in Pairs
  <2>1. p[2] + 1 \in P /\ p[2] < p[2] + 1
    BY <1>2, <1>12
  <2> QED BY <2>1
<1> QED BY <1>9, <1>13 DEF x

\* What the algorithm returns: a common divisor and its Bezout coefficients.
Bezout(p, r) ==
    /\ r[1] >= 0
    /\ r[1] = r[2] * p[1] + r[3] * p[2]
    /\ \E u, v \in Int : p[1] = r[1] * u /\ p[2] = r[1] * v

LEMMA BezoutStep ==
    ASSUME NEW a \in Int, NEW b \in Int, NEW c \in Int, NEW k \in Int,
           NEW s \in Int, NEW t \in Int, a = b * k + c
    PROVE  s * b + t * c = t * a + (s - k * t) * b
<1> DEFINE A == t * a
           B == (s - k * t) * b
           C == t * (b * k)
           D == t * c
           E == s * b
<1>1. A = C + D
  OBVIOUS
<1>2. B = E - C
  <2>1. B = E - (k * t) * b /\ (k * t) * b = C
    OBVIOUS
  <2> QED BY <2>1
<1>3. A \in Int /\ B \in Int /\ C \in Int /\ D \in Int /\ E \in Int
  OBVIOUS
<1> HIDE DEF A, B, C, D, E
<1>4. E + D = A + B
  BY <1>1, <1>2, <1>3
<1> QED BY <1>4 DEF A, B, D, E

LEMMA DividesStep ==
    ASSUME NEW g \in Int, NEW u \in Int, NEW v \in Int, NEW k \in Int
    PROVE  (g * u) * k + g * v = g * (u * k + v) /\ u * k + v \in Int
<1>1. (g * u) * k = g * (u * k) /\ u * k \in Int
  OBVIOUS
<1>2. g * (u * k + v) = g * (u * k) + g * v
  OBVIOUS
<1> QED BY <1>1, <1>2

LEMMA XgcdBezout == \A p \in Pairs : Bezout(p, Ar!xgcd[p])
<1> DEFINE x == Ar!xgcd
           P == {k \in Nat : \A p \in Pairs : p[2] < k => Bezout(p, x[p])}
<1>0. \A p \in Pairs : x[p] \in Triple /\ x[p] = GcdStep(p, x[Smaller(p)])
  BY XgcdIs
<1> HIDE DEF x
<1>1. 0 \in P
  BY DEF Pairs
<1>2. ASSUME NEW k \in Nat, k \in P PROVE k + 1 \in P
  <2> SUFFICES ASSUME NEW p \in Pairs, p[2] < k + 1 PROVE Bezout(p, x[p])
    OBVIOUS
  <2>0. p[1] \in Nat /\ p[2] \in Nat
    BY DEF Pairs
  <2>1. CASE p[2] = 0
    <3>1. x[p] = <<p[1], 1, 0>>
      BY <1>0, <2>1 DEF GcdStep
    <3>2. x[p][1] = p[1] /\ x[p][2] = 1 /\ x[p][3] = 0
      BY <3>1
    <3>3. p[1] = p[1] * 1 /\ p[2] = p[1] * 0 /\ p[1] = 1 * p[1] + 0 * p[2]
      BY <2>0, <2>1
    <3> QED BY <2>0, <3>2, <3>3 DEF Bezout
  <2>2. CASE p[2] # 0
    <3> DEFINE s == Smaller(p)
               r == x[s]
               d == p[1] \div p[2]
    <3>1. s \in Pairs /\ s[2] < p[2] /\ s[2] \in Nat /\ d \in Int /\ p[1] = p[2] * d + s[2]
          /\ s[1] = p[2]
      BY <2>2, SmallerIs
    <3>2. x[p] = <<r[1], r[3], r[2] - d * r[3]>>
      BY <1>0, <2>2 DEF GcdStep
    <3>3. r[1] \in Int /\ r[2] \in Int /\ r[3] \in Int
      BY <1>0, <3>1 DEF Triple
    <3>4. Bezout(s, r)
      <4>1. s[2] < k
        BY <2>0, <3>1
      <4> QED BY <1>2, <3>1, <4>1
    <3> HIDE DEF s, r, d
    <3>5. r[1] = r[2] * p[2] + r[3] * s[2]
      BY <3>1, <3>4 DEF Bezout
    <3>6. PICK u \in Int, v \in Int : p[2] = r[1] * u /\ s[2] = r[1] * v
      BY <3>1, <3>4 DEF Bezout
    <3>7. p[1] \in Int /\ p[2] \in Int /\ s[2] \in Int
      BY <2>0, <3>1
    <3>8. /\ r[1] = r[3] * p[1] + (r[2] - d * r[3]) * p[2]
          /\ \E y, z \in Int : p[1] = r[1] * y /\ p[2] = r[1] * z
      <4> DEFINE a == p[1]
                 b == p[2]
                 c == s[2]
                 g == r[1]
                 l == r[2]
                 m == r[3]
      <4>1. a \in Int /\ b \in Int /\ c \in Int /\ g \in Int /\ l \in Int /\ m \in Int
        BY <3>3, <3>7
      <4>2. a = b * d + c /\ g = l * b + m * c /\ b = g * u /\ c = g * v
        BY <3>1, <3>5, <3>6
      <4> HIDE DEF a, b, c, g, l, m
      <4>3. l * b + m * c = m * a + (l - d * m) * b
        BY <3>1, <4>1, <4>2, BezoutStep
      <4>4. a = g * (u * d + v) /\ u * d + v \in Int
        BY <3>1, <4>1, <4>2, DividesStep
      <4>5. g = m * a + (l - d * m) * b /\ \E y, z \in Int : a = g * y /\ b = g * z
        BY <4>2, <4>3, <4>4
      <4> QED BY <4>5 DEF a, b, c, g, l, m
    <3>9. r[1] >= 0
      BY <3>4 DEF Bezout
    <3>10. x[p][1] = r[1] /\ x[p][2] = r[3] /\ x[p][3] = r[2] - d * r[3]
      BY <3>2
    <3> QED BY <3>8, <3>9, <3>10 DEF Bezout
  <2> QED BY <2>1, <2>2
<1>3. \A k \in Nat : k \in P
  <2> HIDE DEF P
  <2> QED BY <1>1, <1>2, Induction
<1>4. ASSUME NEW p \in Pairs PROVE Bezout(p, x[p])
  <2>1. p[2] \in Nat /\ p[2] + 1 \in P /\ p[2] < p[2] + 1
    BY <1>3 DEF Pairs
  <2> QED BY <2>1
<1> QED BY <1>4 DEF x

-----------------------------------------------------------------------------
(* Units.                                                                  *)

\* a has an inverse mod n.
Unit(a, n) == \E y \in Int : Eqm(a * y, 1, n)

LEMMA UnitOne == ASSUME NEW n \in Int PROVE Unit(1, n)
<1>1. 1 * 1 = 1 /\ Eqm(1, 1, n)
  BY EqmRefl
<1> QED BY <1>1 DEF Unit

LEMMA UnitProd ==
    ASSUME NEW a \in Int, NEW b \in Int, NEW n \in Int, Unit(a, n), Unit(b, n)
    PROVE  Unit(a * b, n)
<1>1. PICK y \in Int : Eqm(a * y, 1, n)
  BY DEF Unit
<1>2. PICK z \in Int : Eqm(b * z, 1, n)
  BY DEF Unit
<1>3. a * y \in Int /\ b * z \in Int /\ y * z \in Int /\ 1 \in Int
  OBVIOUS
<1>4. Eqm((a * y) * (b * z), 1 * 1, n)
  BY <1>1, <1>2, <1>3, EqmTimes, Zenon
<1>5. (a * y) * (b * z) = (a * b) * (y * z) /\ 1 * 1 = 1
  OBVIOUS
<1>6. Eqm((a * b) * (y * z), 1, n)
  BY <1>4, <1>5, Zenon
<1> QED BY <1>3, <1>6, Zenon DEF Unit

LEMMA UnitFactor ==
    ASSUME NEW a \in Int, NEW b \in Int, NEW n \in Int, Unit(a * b, n) PROVE Unit(a, n) /\ Unit(b, n)
<1>1. PICK y \in Int : Eqm((a * b) * y, 1, n)
  BY DEF Unit
<1>2. (a * b) * y = a * (b * y) /\ (a * b) * y = b * (a * y) /\ b * y \in Int /\ a * y \in Int
  OBVIOUS
<1>3. Eqm(a * (b * y), 1, n) /\ Eqm(b * (a * y), 1, n)
  BY <1>1, <1>2, Zenon
<1> QED BY <1>2, <1>3, Zenon DEF Unit

LEMMA UnitEqm ==
    ASSUME NEW a \in Int, NEW b \in Int, NEW n \in Int, Unit(a, n), Eqm(b, a, n) PROVE Unit(b, n)
<1>1. PICK y \in Int : Eqm(a * y, 1, n)
  BY DEF Unit
<1>2. Eqm(b * y, a * y, n)
  BY EqmScale, Zenon
<1>3. a * y \in Int /\ b * y \in Int /\ 1 \in Int
  OBVIOUS
<1>4. Eqm(b * y, 1, n)
  BY <1>1, <1>2, <1>3, EqmTrans, Zenon
<1> QED BY <1>4, Zenon DEF Unit

LEMMA UnitPw == ASSUME NEW a \in Int, NEW n \in Int, Unit(a, n), NEW k \in Nat PROVE Unit(Pw(a, k), n)
<1> DEFINE P == {i \in Nat : Unit(Pw(a, i), n)}
<1>1. 0 \in P
  BY PwDef, UnitOne
<1>2. ASSUME NEW i \in Nat, i \in P PROVE i + 1 \in P
  <2>1. Pw(a, i + 1) = Pw(a, i) * a /\ Pw(a, i) \in Int
    BY PwDef
  <2>2. Unit(Pw(a, i) * a, n)
    BY <1>2, <2>1, UnitProd
  <2> QED BY <2>1, <2>2
<1>3. \A i \in Nat : i \in P
  <2> HIDE DEF P
  <2> QED BY <1>1, <1>2, Induction
<1> QED BY <1>3

\* A unit may be cancelled.
LEMMA UnitCancel ==
    ASSUME NEW a \in Int, NEW b \in Int, NEW c \in Int, NEW n \in Int, Unit(a, n),
           Eqm(a * b, a * c, n)
    PROVE  Eqm(b, c, n)
<1>1. PICK y \in Int : Eqm(a * y, 1, n)
  BY DEF Unit
<1>2. PICK k \in Int : a * y = 1 + n * k
  BY <1>1 DEF Eqm
<1>3. PICK l \in Int : a * b = a * c + n * l
  BY DEF Eqm
<1>4. a * (b - c) = n * l
  BY <1>3
<1>5. y * (a * (b - c)) = (b - c) * (a * y)
  OBVIOUS
<1>6. y * (n * l) = (b - c) * (1 + n * k)
  BY <1>2, <1>4, <1>5
<1> DEFINE d == b - c
<1>7. d \in Int /\ y * (n * l) = d * (1 + n * k)
  BY <1>6
<1>8. b = c + d
  OBVIOUS
<1> HIDE DEF d
<1>9. d * (1 + n * k) = d + n * (d * k) /\ y * (n * l) = n * (y * l)
  BY <1>7
<1>10. d = n * (y * l) - n * (d * k)
  BY <1>7, <1>9
<1>11. d = n * ((y * l) - (d * k)) /\ (y * l) - (d * k) \in Int
  BY <1>7, <1>10
<1>12. b = c + n * ((y * l) - (d * k))
  BY <1>8, <1>11
<1> QED BY <1>11, <1>12, Zenon DEF Eqm

\* A unit mod n is one mod n^2, and a unit mod both of two numbers is one mod
\* their product.
LEMMA UnitBoth ==
    ASSUME NEW a \in Int, NEW n \in Int, NEW m \in Int, Unit(a, n), Unit(a, m)
    PROVE  Unit(a, n * m)
<1>1. PICK y \in Int : Eqm(a * y, 1, n)
  BY DEF Unit
<1>2. PICK k \in Int : a * y = 1 + n * k
  BY <1>1 DEF Eqm
<1>3. PICK z \in Int : Eqm(a * z, 1, m)
  BY DEF Unit
<1>4. PICK l \in Int : a * z = 1 + m * l
  BY <1>3 DEF Eqm
<1> DEFINE w == (y + z) - (a * y) * z
<1>5. w \in Int
  OBVIOUS
<1>6. a * w = (a * y) + (a * z) - (a * y) * (a * z)
  OBVIOUS
<1> HIDE DEF w
<1> DEFINE nk == n * k
           ml == m * l
<1>7. nk \in Int /\ ml \in Int /\ a * y = 1 + nk /\ a * z = 1 + ml
  BY <1>2, <1>4
<1>8. nk * ml = (n * m) * (k * l) /\ k * l \in Int
  OBVIOUS
<1> HIDE DEF nk, ml
<1>9. a * w = (1 + nk) + (1 + ml) - (1 + nk) * (1 + ml)
  BY <1>6, <1>7
<1>10. a * w = 1 - nk * ml
  BY <1>7, <1>9
<1>11. a * w = 1 - (n * m) * (k * l)
  BY <1>8, <1>10
<1>12. a * w = 1 + (n * m) * (-(k * l)) /\ -(k * l) \in Int
  <2> DEFINE x == k * l
             nm == n * m
  <2>1. x \in Int /\ nm \in Int /\ a * w = 1 - nm * x
    BY <1>11
  <2> HIDE DEF x, nm
  <2>2. a * w = 1 + nm * (-x) /\ -x \in Int
    BY <2>1
  <2> QED BY <2>2 DEF x, nm
<1> QED BY <1>5, <1>12, Zenon DEF Unit, Eqm

LEMMA UnitDown ==
    ASSUME NEW a \in Int, NEW n \in Int, NEW m \in Int, Unit(a, n * m) PROVE Unit(a, n) /\ Unit(a, m)
<1>1. PICK y \in Int : Eqm(a * y, 1, n * m)
  BY DEF Unit
<1>2. a * y \in Int /\ 1 \in Int
  OBVIOUS
<1>3. Eqm(a * y, 1, n) /\ Eqm(a * y, 1, m)
  BY <1>1, <1>2, EqmDown, Zenon
<1> QED BY <1>3, Zenon DEF Unit

\* Unit is symmetric: being relatively prime.
LEMMA UnitSwap == ASSUME NEW a \in Int, NEW n \in Int, Unit(a, n) PROVE Unit(n, a)
<1>1. PICK y \in Int : Eqm(a * y, 1, n)
  BY DEF Unit
<1>2. PICK k \in Int : a * y = 1 + n * k
  BY <1>1 DEF Eqm
<1>3. n * (-k) = 1 + a * (-y)
  <2> DEFINE u == n * k
             v == a * y
  <2>1. n * (-k) = -u /\ a * (-y) = -v /\ u \in Int /\ v \in Int /\ v = 1 + u
    BY <1>2
  <2> HIDE DEF u, v
  <2> QED BY <2>1
<1>4. -k \in Int /\ -y \in Int
  OBVIOUS
<1> QED BY <1>3, <1>4, Zenon DEF Unit, Eqm

\* Congruences mod two numbers that are relatively prime.
LEMMA EqmBoth ==
    ASSUME NEW a \in Int, NEW b \in Int, NEW n \in Int, NEW m \in Int, Unit(n, m),
           Eqm(a, b, n), Eqm(a, b, m)
    PROVE  Eqm(a, b, n * m)
<1>1. PICK k \in Int : a = b + n * k
  BY DEF Eqm
<1>2. PICK l \in Int : a = b + m * l
  BY DEF Eqm
<1>3. n * k = n * 0 + m * l
  <2>1. n * k \in Int /\ m * l \in Int /\ n * 0 = 0
    OBVIOUS
  <2> QED BY <1>1, <1>2, <2>1
<1>4. Eqm(n * k, n * 0, m)
  BY <1>3 DEF Eqm
<1>5. Eqm(k, 0, m)
  BY <1>4, UnitCancel
<1>6. PICK j \in Int : k = 0 + m * j
  BY <1>5 DEF Eqm
<1>7. n * k = (n * m) * j
  BY <1>6
<1> QED BY <1>1, <1>7 DEF Eqm

\* What modInt.Exp and IsNumberInMultiplicativeGroup ask of a number: a gcd of 1.
LEMMA GcdUnit ==
    ASSUME NEW a \in Nat, NEW n \in Nat PROVE Ar!GCD(a, n) = 1 <=> Unit(a, n)
<1> DEFINE r == Ar!xgcd[<<a, n>>]
           g == r[1]
           s == r[2]
           t == r[3]
<1>1. <<a, n>> \in Pairs /\ <<a, n>>[1] = a /\ <<a, n>>[2] = n
  BY DEF Pairs
<1>2. Bezout(<<a, n>>, r) /\ r \in Triple
  BY <1>1, XgcdBezout, XgcdIs
<1>3. g \in Int /\ s \in Int /\ t \in Int
  <2> HIDE DEF r
  <2> QED BY <1>2 DEF Triple
<1>4. g >= 0 /\ g = s * a + t * n /\ \E u, v \in Int : a = g * u /\ n = g * v
  <2> HIDE DEF r
  <2> QED BY <1>1, <1>2 DEF Bezout
<1>5. Ar!GCD(a, n) = g
  BY DEF Ar!GCD
<1> HIDE DEF r, g, s, t
<1>6. ASSUME g = 1 PROVE Unit(a, n)
  <2>1. a * s = 1 + n * (-t)
    <3> DEFINE x == a * s
               y == n * t
    <3>1. s * a = x /\ t * n = y /\ x \in Int /\ y \in Int /\ n * (-t) = -y
      BY <1>3
    <3> HIDE DEF x, y
    <3>2. 1 = x + y
      BY <1>4, <1>6, <3>1
    <3>3. x = 1 + (-y)
      BY <3>1, <3>2
    <3> QED BY <3>1, <3>3 DEF x
  <2>2. -t \in Int
    BY <1>3
  <2> QED BY <1>3, <2>1, <2>2, Zenon DEF Unit, Eqm
<1>7. ASSUME Unit(a, n) PROVE g = 1
  <2>1. PICK y \in Int : Eqm(a * y, 1, n)
    BY <1>7 DEF Unit
  <2>2. PICK k \in Int : a * y = 1 + n * k
    BY <2>1 DEF Eqm
  <2>3. PICK u \in Int, v \in Int : a = g * u /\ n = g * v
    BY <1>4
  <2>4. (g * u) * y = 1 + (g * v) * k
    BY <2>2, <2>3
  <2> DEFINE w == u * y - v * k
  <2>5. w \in Int /\ (g * u) * y - (g * v) * k = g * w
    BY <1>3
  <2> HIDE DEF w
  <2>6. g * w = 1
    <3> DEFINE c == (g * u) * y
               d == (g * v) * k
    <3>1. c \in Int /\ d \in Int /\ c = 1 + d /\ c - d = g * w
      BY <1>3, <2>4, <2>5
    <3> HIDE DEF c, d
    <3> QED BY <3>1
  <2> QED BY <1>3, <1>4, <2>5, <2>6
<1> QED BY <1>5, <1>6, <1>7

\* modInt.Inverse.
LEMMA InverseOf ==
    ASSUME NEW a \in Int, NEW n \in Nat, n > 0, Unit(a, n)
    PROVE  Ar!Inverse(a, n) \in 0 .. n - 1 /\ Eqm(a * Ar!Inverse(a, n), 1, n)
<1> DEFINE b == a % n
           r == Ar!xgcd[<<b, n>>]
           s == r[2]
           t == r[3]
<1>0. b \in Nat /\ Eqm(b, a, n) /\ Eqm(a, b, n)
  BY ModIs
<1>1. <<b, n>> \in Pairs /\ <<b, n>>[1] = b /\ <<b, n>>[2] = n
  <2> HIDE DEF b
  <2> QED BY <1>0 DEF Pairs
<1>2. Bezout(<<b, n>>, r) /\ r \in Triple
  BY <1>1, XgcdBezout, XgcdIs
<1>3. s \in Int /\ t \in Int /\ r[1] \in Int
  <2> HIDE DEF r
  <2> QED BY <1>2 DEF Triple
<1>4. r[1] = s * b + t * n
  <2> HIDE DEF r, b
  <2> QED BY <1>1, <1>2 DEF Bezout
<1>5. r[1] = 1
  <2>1. Unit(b, n)
    <3> HIDE DEF b
    <3> QED BY <1>0, UnitEqm
  <2>2. Ar!GCD(b, n) = 1
    <3> HIDE DEF b
    <3> QED BY <1>0, <2>1, GcdUnit
  <2> QED BY <2>2 DEF Ar!GCD
<1>6. Ar!Inverse(a, n) = s % n
  BY <1>5 DEF Ar!Inverse
<1> HIDE DEF b, r, s, t
<1> DEFINE i == s % n
<1>7. i \in 0 .. n - 1 /\ Eqm(i, s, n) /\ i \in Int
  BY <1>3, ModIs
<1> HIDE DEF i
<1>8. b * s = 1 + n * (-t)
  <2> DEFINE x == b * s
             y == n * t
  <2>1. s * b = x /\ t * n = y /\ x \in Int /\ y \in Int /\ n * (-t) = -y
    BY <1>0, <1>3
  <2> HIDE DEF x, y
  <2>2. 1 = x + y
    BY <1>4, <1>5, <2>1
  <2>3. x = 1 + (-y)
    BY <2>1, <2>2
  <2> QED BY <2>1, <2>3 DEF x
<1>9. Eqm(b * s, 1, n)
  <2>1. -t \in Int
    BY <1>3
  <2> QED BY <1>8, <2>1, Zenon DEF Eqm
<1>10. Eqm(a * i, b * s, n)
  BY <1>0, <1>3, <1>7, EqmTimes
<1>11. a * i \in Int /\ b * s \in Int /\ 1 \in Int /\ n \in Int
  BY <1>0, <1>3, <1>7
<1>12. Eqm(a * i, 1, n)
  BY <1>9, <1>10, <1>11, EqmTrans, Zenon
<1> QED BY <1>6, <1>7, <1>12 DEF i

LEMMA NoInverse ==
    ASSUME NEW a \in Int, NEW n \in Nat, n > 0, ~Unit(a, n) PROVE Ar!Inverse(a, n) = -1
<1> DEFINE b == a % n
<1>1. b \in Nat /\ Eqm(a, b, n) /\ b \in Int /\ n \in Int
  BY ModIs
<1>2. Ar!GCD(b, n) # 1
  <2> HIDE DEF b
  <2> QED BY <1>1, GcdUnit, UnitEqm
<1> QED BY <1>2 DEF Ar!Inverse, Ar!GCD, Ar!Nil

\* modInt.Exp for a negative exponent: the inverse of the power.
LEMMA ExpNeg ==
    ASSUME NEW x \in Int, NEW k \in Nat, NEW n \in Nat, n > 0, Unit(x, n)
    PROVE  Ar!Exp(x, -k, n) \in 0 .. n - 1 /\ Eqm(Pw(x, k) * Ar!Exp(x, -k, n), 1, n)
<1> DEFINE r == Ar!Exp(x, -k, n)
<1>0. Pw(x, k) \in Int /\ n \in Int
  BY PwDef
<1>1. CASE k = 0
  <2>1. r = Pw(x, 0) % n /\ Pw(x, 0) = 1
    <3> DEFINE j == -k
    <3>2. j + k = 0 /\ j \in Int
      OBVIOUS
    <3> HIDE DEF j
    <3>3. j = 0
      BY <1>1, <3>2
    <3>1. -k = 0
      BY <3>3, Zenon DEF j
    <3> QED BY <3>1, ExpIs, PwDef
  <2> DEFINE o == 1 % n
  <2>2. o \in 0 .. n - 1 /\ Eqm(o, 1, n) /\ o \in Int
    BY ModIs
  <2>3. r = o
    BY <2>1
  <2> HIDE DEF r, o
  <2>4. 1 * o = o
    BY <2>2
  <2>5. Eqm(Pw(x, k) * r, 1, n)
    BY <1>1, <2>1, <2>2, <2>3, <2>4
  <2> QED BY <2>2, <2>3, <2>5 DEF r
<1>2. CASE k # 0
  <2> DEFINE i == Ar!Inverse(x, n)
             b == x % n
  <2>1. i \in 0 .. n - 1 /\ Eqm(x * i, 1, n)
    BY InverseOf
  <2>2. b \in Nat /\ Eqm(b, x, n)
    BY ModIs
  <2>3. Ar!GCD(b, n) = 1
    <3> HIDE DEF b
    <3>1. Unit(b, n)
      BY <1>0, <2>2, UnitEqm
    <3> QED BY <2>2, <3>1, GcdUnit
  <2>4. ~(-k >= 0) /\ -(-k) = k
    BY <1>2
  <2>5. r = Ar!Power(i, k, n)
    BY <2>3, <2>4 DEF Ar!Exp
  <2> HIDE DEF i, b
  <2>6. i \in Int
    BY <2>1
  <2>7. r = Pw(i, k) % n
    BY <2>5, <2>6, PowerIs
  <2>8. Pw(i, k) \in Int
    BY <2>6, PwDef
  <2>9. r \in 0 .. n - 1 /\ Eqm(r, Pw(i, k), n) /\ r \in Int
    <3> DEFINE v == Pw(i, k)
    <3>1. v \in Int /\ r = v % n
      BY <2>7, <2>8
    <3> HIDE DEF v, r
    <3>2. v % n \in 0 .. n - 1 /\ Eqm(v % n, v, n) /\ v % n \in Int
      BY <3>1, ModIs
    <3> QED BY <3>1, <3>2 DEF v
  <2> HIDE DEF r
  <2>10. Pw(x * i, k) = Pw(x, k) * Pw(i, k)
    BY <2>6, PwProd
  <2>11. Eqm(Pw(x * i, k), Pw(1, k), n) /\ Pw(1, k) = 1
    <3>1. x * i \in Int /\ 1 \in Int
      BY <2>6
    <3> QED BY <1>0, <2>1, <3>1, PwEqm, PwOfOne, Zenon
  <2> DEFINE u == Pw(x, k)
             v == Pw(i, k)
  <2>12. u \in Int /\ v \in Int /\ Eqm(u * v, 1, n) /\ Eqm(r, v, n)
    BY <1>0, <2>8, <2>9, <2>10, <2>11
  <2> HIDE DEF u, v
  <2>13. Eqm(u * r, u * v, n)
    <3>1. Eqm(u, u, n)
      BY <1>0, <2>12, EqmRefl
    <3> QED BY <1>0, <2>9, <2>12, <3>1, EqmTimes
  <2>14. Eqm(u * r, 1, n)
    <3>1. u * r \in Int /\ u * v \in Int /\ 1 \in Int
      BY <2>9, <2>12
    <3> QED BY <1>0, <2>12, <2>13, <3>1, EqmTrans, Zenon
  <2> QED BY <2>9, <2>14 DEF r, u
<1> QED BY <1>1, <1>2

-----------------------------------------------------------------------------
(* Fermat's theorem.                                                       *)

LEMMA ProdReindex ==
    ASSUME NEW S, IsFiniteSet(S), NEW h, \A i, j \in S : h[i] = h[j] => i = j,
           NEW g, NEW f, \A i \in S : f[i] = g[h[i]] /\ g[h[i]] \in Int
    PROVE  Product(f, S) = Product(g, {h[i] : i \in S})
<1> DEFINE Im(U) == {h[i] : i \in U}
           P == {U \in SUBSET S : IsFiniteSet(Im(U)) /\ Product(f, U) = Product(g, Im(U))}
<1>1. {} \in P
  <2>1. Im({}) = {} /\ IsFiniteSet({})
    BY FS_EmptySet
  <2> QED BY <2>1, ProdEmpty
<1>2. ASSUME NEW U \in SUBSET S, NEW x \in U, U \ {x} \in P PROVE U \in P
  <2>1. IsFiniteSet(U) /\ IntOn(f, U) /\ IntOn(g, Im(U))
    BY FS_Subset DEF IntOn
  <2>2. Im(U) = Im(U \ {x}) \cup {h[x]} /\ h[x] \in Im(U) /\ Im(U) \ {h[x]} = Im(U \ {x})
    OBVIOUS
  <2>3. IsFiniteSet(Im(U \ {x})) /\ Product(f, U \ {x}) = Product(g, Im(U \ {x}))
    BY <1>2
  <2> HIDE DEF Im
  <2>4. IsFiniteSet(Im(U))
    <3>1. IsFiniteSet(Im(U \ {x}) \cup {h[x]})
      BY <2>3, FS_AddElement
    <3> QED BY <2>2, <3>1
  <2>5. Product(f, U) = f[x] * Product(f, U \ {x})
    BY <2>1, ProdRemove
  <2>6. Product(g, Im(U)) = g[h[x]] * Product(g, Im(U) \ {h[x]})
    BY <2>1, <2>2, <2>4, ProdRemove
  <2>7. f[x] = g[h[x]]
    OBVIOUS
  <2>8. Product(f, U) = Product(g, Im(U))
    BY <2>2, <2>3, <2>5, <2>6, <2>7
  <2> QED BY <2>4, <2>8
<1>3. \A U \in SUBSET S : U \in P
  <2> HIDE DEF P
  <2> QED BY <1>1, <1>2, SetInduction
<1> QED BY <1>3

LEMMA ProdEqm ==
    ASSUME NEW S, IsFiniteSet(S), NEW n \in Int, NEW f, NEW g, IntOn(f, S), IntOn(g, S),
           \A i \in S : Eqm(f[i], g[i], n)
    PROVE  Eqm(Product(f, S), Product(g, S), n)
<1> DEFINE P == {U \in SUBSET S : Eqm(Product(f, U), Product(g, U), n)}
<1>1. {} \in P
  BY ProdEmpty, EqmRefl
<1>2. ASSUME NEW U \in SUBSET S, NEW x \in U, U \ {x} \in P PROVE U \in P
  <2> DEFINE u == Product(f, U \ {x})
             v == Product(g, U \ {x})
  <2>1. IsFiniteSet(U) /\ IntOn(f, U) /\ IntOn(g, U)
    BY FS_Subset DEF IntOn
  <2>2. IsFiniteSet(U \ {x}) /\ IntOn(f, U \ {x}) /\ IntOn(g, U \ {x})
    BY FS_Subset DEF IntOn
  <2>3. u \in Int /\ v \in Int /\ Eqm(u, v, n)
    BY <1>2, <2>2, ProdType
  <2>4. Product(f, U) = f[x] * u /\ Product(g, U) = g[x] * v
    BY <2>1, ProdRemove
  <2>5. f[x] \in Int /\ g[x] \in Int /\ Eqm(f[x], g[x], n)
    BY DEF IntOn
  <2> HIDE DEF u, v
  <2>6. Eqm(f[x] * u, g[x] * v, n)
    BY <2>3, <2>5, EqmTimes, Zenon
  <2> QED BY <2>4, <2>6
<1>3. \A U \in SUBSET S : U \in P
  <2> HIDE DEF P
  <2> QED BY <1>1, <1>2, SetInduction
<1> QED BY <1>3

LEMMA ProdScale ==
    ASSUME NEW S, IsFiniteSet(S), NEW c \in Int, NEW f, NEW g, IntOn(f, S),
           \A i \in S : g[i] = c * f[i]
    PROVE  Product(g, S) = Pw(c, Cardinality(S)) * Product(f, S)
<1> DEFINE P == {U \in SUBSET S : Product(g, U) = Pw(c, Cardinality(U)) * Product(f, U)}
<1>1. {} \in P
  BY ProdEmpty, FS_EmptySet, PwDef
<1>2. ASSUME NEW U \in SUBSET S, NEW x \in U, U \ {x} \in P PROVE U \in P
  <2> DEFINE u == Product(f, U \ {x})
             v == Product(g, U \ {x})
             k == Cardinality(U \ {x})
             w == Pw(c, k)
  <2>1. IsFiniteSet(U) /\ IntOn(f, U) /\ IntOn(g, U)
    BY FS_Subset DEF IntOn
  <2>2. IsFiniteSet(U \ {x}) /\ IntOn(f, U \ {x}) /\ IntOn(g, U \ {x})
    BY <2>1, FS_Subset DEF IntOn
  <2>3. u \in Int /\ v = w * u
    BY <1>2, <2>2, ProdType
  <2>4. Product(f, U) = f[x] * u /\ Product(g, U) = g[x] * v
    BY <2>1, ProdRemove
  <2>5. k \in Nat /\ Cardinality(U) = k + 1
    <3>1. k \in Nat /\ Cardinality(U) \in Nat
      BY <2>1, <2>2, FS_CardinalityType
    <3>2. k = Cardinality(U) - 1
      BY <2>1, FS_RemoveElement
    <3> QED BY <3>1, <3>2
  <2>6. w \in Int /\ Pw(c, Cardinality(U)) = w * c
    BY <2>5, PwDef
  <2>7. f[x] \in Int /\ g[x] = c * f[x]
    BY DEF IntOn
  <2> HIDE DEF u, v, w
  <2>8. (c * f[x]) * (w * u) = (w * c) * (f[x] * u)
    <3> DEFINE z == f[x]
    <3>1. z \in Int
      BY <2>7
    <3> HIDE DEF z
    <3>2. (c * z) * (w * u) = (w * c) * (z * u)
      BY <2>3, <2>6, <3>1
    <3> QED BY <3>2 DEF z
  <2>9. Product(g, U) = Pw(c, Cardinality(U)) * Product(f, U)
    BY <2>3, <2>4, <2>6, <2>7, <2>8, Zenon
  <2> QED BY <2>9
<1>3. \A U \in SUBSET S : U \in P
  <2> HIDE DEF P
  <2> QED BY <1>1, <1>2, SetInduction
<1> QED BY <1>3

LEMMA ProdUnit ==
    ASSUME NEW S, IsFiniteSet(S), NEW n \in Int, NEW f, IntOn(f, S), \A i \in S : Unit(f[i], n)
    PROVE  Unit(Product(f, S), n)
<1> DEFINE P == {U \in SUBSET S : Unit(Product(f, U), n)}
<1>1. {} \in P
  BY ProdEmpty, UnitOne
<1>2. ASSUME NEW U \in SUBSET S, NEW x \in U, U \ {x} \in P PROVE U \in P
  <2> DEFINE u == Product(f, U \ {x})
  <2>1. IsFiniteSet(U) /\ IntOn(f, U)
    BY FS_Subset DEF IntOn
  <2>2. IsFiniteSet(U \ {x}) /\ IntOn(f, U \ {x})
    BY FS_Subset DEF IntOn
  <2>3. u \in Int /\ Unit(u, n)
    BY <1>2, <2>2, ProdType
  <2>4. Product(f, U) = f[x] * u
    BY <2>1, ProdRemove
  <2>5. f[x] \in Int /\ Unit(f[x], n)
    BY DEF IntOn
  <2> HIDE DEF u
  <2>6. Unit(f[x] * u, n)
    BY <2>3, <2>5, UnitProd, Zenon
  <2> QED BY <2>4, <2>6
<1>3. \A U \in SUBSET S : U \in P
  <2> HIDE DEF P
  <2> QED BY <1>1, <1>2, SetInduction
<1> QED BY <1>3

\* A number that is not 0 mod a prime is a unit.
LEMMA PrimeUnit ==
    ASSUME NEW p, IsPrime(p), NEW a \in Int, a % p # 0 PROVE Unit(a, p)
<1>0. p \in Nat /\ p > 1 /\ p \in Int /\ \A d \in 2 .. p - 1 : p % d # 0
  BY DEF IsPrime
<1> DEFINE b == a % p
           r == Ar!xgcd[<<b, p>>]
           g == r[1]
<1>1. b \in Nat /\ b \in 1 .. p - 1 /\ Eqm(a, b, p)
  <2>1. p > 0
    BY <1>0
  <2>2. b \in Nat /\ b \in 0 .. p - 1 /\ Eqm(a, b, p)
    BY <1>0, <2>1, ModIs
  <2> QED BY <1>0, <2>2
<1> HIDE DEF b
<1>2. <<b, p>> \in Pairs /\ <<b, p>>[1] = b /\ <<b, p>>[2] = p
  BY <1>0, <1>1 DEF Pairs
<1>3. Bezout(<<b, p>>, r) /\ r \in Triple
  BY <1>2, XgcdBezout, XgcdIs
<1> HIDE DEF r
<1>4. g \in Int /\ g >= 0 /\ \E u, v \in Int : b = g * u /\ p = g * v
  BY <1>2, <1>3 DEF Bezout, Triple
<1>5. PICK u \in Int, v \in Int : b = g * u /\ p = g * v
  BY <1>4
<1> HIDE DEF g
<1>6. g = 1
  <2>1. g # 0
    BY <1>0, <1>4, <1>5
  <2>2. g <= b
    <3>1. u > 0
      BY <1>1, <1>4, <1>5
    <3> QED BY <1>1, <1>4, <1>5, <3>1
  <2>3. p % g = 0
    <3>1. g \in Nat /\ g > 0 /\ 0 \in 0 .. g - 1
      BY <1>4, <2>1
    <3>2. 0 = p + g * (-v) /\ -v \in Int
      BY <1>0, <1>4, <1>5
    <3>3. Eqm(0, p, g)
      BY <3>2 DEF Eqm
    <3> QED BY <1>0, <3>1, <3>3, ModIsUnique
  <2>4. g \in 2 .. p - 1 \/ g = 1
    BY <1>0, <1>1, <1>4, <2>1, <2>2
  <2> QED BY <1>0, <2>3, <2>4
<1>7. Ar!GCD(b, p) = 1
  BY <1>6 DEF Ar!GCD, g, r
<1>8. Unit(b, p)
  BY <1>0, <1>1, <1>7, GcdUnit
<1> QED BY <1>0, <1>1, <1>8, UnitEqm

LEMMA Fermat ==
    ASSUME NEW p, IsPrime(p), NEW a \in Int, Unit(a, p) PROVE Eqm(Pw(a, p - 1), 1, p)
<1>0. p \in Nat /\ p > 1 /\ p \in Int /\ p - 1 \in Nat
  BY DEF IsPrime
<1> DEFINE S == 1 .. p - 1
           h == [i \in S |-> (a * i) % p]
           id == [i \in S |-> i]
           f == [i \in S |-> a * i]
<1>1. IsFiniteSet(S) /\ Cardinality(S) = p - 1
  BY <1>0, FS_Interval
<1>2. \A i \in S : i \in Int /\ i % p = i /\ Unit(i, p)
  <2> TAKE i \in S
  <2>1. i \in Int /\ i \in 0 .. p - 1 /\ i # 0
    BY <1>0
  <2>2. i % p = i
    BY <1>0, <2>1, SmallMod
  <2> QED BY <2>1, <2>2, PrimeUnit
<1>3. \A i \in S : a * i \in Int /\ h[i] \in 0 .. p - 1 /\ h[i] \in Int /\ Eqm(h[i], a * i, p)
  <2> TAKE i \in S
  <2> DEFINE z == a * i
  <2>1. z \in Int /\ h[i] = z % p
    OBVIOUS
  <2> HIDE DEF z, h
  <2>2. z % p \in 0 .. p - 1 /\ Eqm(z % p, z, p) /\ z % p \in Int
    <3>1. p > 0
      BY <1>0
    <3>2. z % p \in 0 .. p - 1 /\ z % p \in Nat /\ Eqm(z % p, z, p)
      BY <1>0, <2>1, <3>1, ModIs
    <3> QED BY <3>2
  <2> QED BY <2>1, <2>2 DEF z
<1>4. \A i \in S : id[i] = i /\ f[i] = a * i
  OBVIOUS
<1> HIDE DEF h, id, f
<1>5. \A i \in S : h[i] \in S
  <2> SUFFICES ASSUME NEW i \in S, h[i] = 0 PROVE FALSE
    BY <1>0, <1>3
  <2>1. i \in Int /\ Unit(a * i, p) /\ a * i \in Int
    <3>1. i \in Int /\ Unit(i, p)
      BY <1>2
    <3>2. Unit(a * i, p)
      BY <1>0, <3>1, UnitProd
    <3> QED BY <3>1, <3>2
  <2>2. Unit(0, p)
    BY <1>0, <1>3, <2>1, UnitEqm
  <2>3. PICK y \in Int : Eqm(0 * y, 1, p)
    BY <2>2 DEF Unit
  <2>4. 0 * y = 0 /\ 0 \in 0 .. p - 1 /\ 1 \in 0 .. p - 1
    BY <1>0
  <2> QED BY <1>0, <2>3, <2>4, EqmSmall
<1>6. ASSUME NEW i \in S, NEW j \in S, h[i] = h[j] PROVE i = j
  <2>1. i \in Int /\ j \in Int /\ a * i \in Int /\ a * j \in Int /\ h[j] \in Int
        /\ Eqm(h[j], a * i, p) /\ Eqm(h[j], a * j, p)
    BY <1>3, <1>6
  <2>2. Eqm(a * i, h[j], p)
    BY <1>0, <2>1, EqmSym, Zenon
  <2>3. Eqm(a * i, a * j, p)
    BY <1>0, <2>1, <2>2, EqmTrans, Zenon
  <2>4. Eqm(i, j, p)
    BY <1>0, <2>1, <2>3, UnitCancel, Zenon
  <2> QED BY <1>0, <2>4, EqmSmall
<1>7. {h[i] : i \in S} = S
  <2> DEFINE e == [i \in S |-> h[i]]
  <2> HIDE DEF S
  <2>1. e \in Injection(S, S)
    BY <1>5, <1>6 DEF Injection, IsInjective
  <2>2. e \in Surjection(S, S)
    BY <1>1, <2>1, FS_Injection
  <2>3. \A t \in S : \E s \in S : e[s] = t
    BY <2>2 DEF Surjection
  <2> QED BY <1>5, <2>3
<1> HIDE DEF S
<1> DEFINE A == Product(id, S)
           B == Product(h, S)
           C == Product(f, S)
<1>8. A = B
  <2>1. \A i \in S : h[i] = id[h[i]] /\ id[h[i]] \in Int
    BY <1>3, <1>4, <1>5
  <2>2. B = Product(id, {h[i] : i \in S})
    BY <1>1, <1>6, <2>1, ProdReindex
  <2> QED BY <1>7, <2>2
<1>9. IntOn(id, S) /\ IntOn(h, S) /\ IntOn(f, S) /\ \A i \in S : Eqm(h[i], f[i], p) /\ Unit(id[i], p)
  BY <1>2, <1>3, <1>4 DEF IntOn
<1>10. Eqm(B, C, p)
  BY <1>0, <1>1, <1>9, ProdEqm
<1>11. C = Pw(a, p - 1) * A
  <2>1. \A i \in S : f[i] = a * id[i]
    BY <1>4
  <2> QED BY <1>1, <1>9, <2>1, ProdScale
<1>12. A \in Int /\ Unit(A, p) /\ Pw(a, p - 1) \in Int
  <2>1. A \in Int
    BY <1>1, <1>9, ProdType
  <2>2. Unit(A, p)
    BY <1>0, <1>1, <1>9, ProdUnit
  <2> QED BY <1>0, <2>1, <2>2, PwDef
<1> DEFINE w == Pw(a, p - 1)
<1> HIDE DEF A, B, C, w
<1>13. Eqm(A * 1, A * w, p)
  <2>1. A * 1 = A /\ A * w = w * A /\ C = w * A
    BY <1>11, <1>12 DEF w
  <2> QED BY <1>8, <1>10, <2>1
<1>14. Eqm(1, w, p)
  BY <1>0, <1>12, <1>13, UnitCancel DEF w
<1>15. Eqm(w, 1, p)
  BY <1>0, <1>12, <1>14, EqmSym DEF w
<1> QED BY <1>15 DEF w

\* The power of 1 + x to first order.
LEMMA PwFirstOrder ==
    ASSUME NEW x \in Int, NEW k \in Nat PROVE Eqm(Pw(1 + x, k), 1 + k * x, x * x)
<1> DEFINE y == 1 + x
           P == {i \in Nat : Eqm(Pw(y, i), 1 + i * x, x * x)}
<1>0. y \in Int
  OBVIOUS
<1>1. 0 \in P
  <2>1. Pw(y, 0) = 1 /\ 1 + 0 * x = 1 /\ x * x \in Int
    BY PwDef
  <2> HIDE DEF y
  <2> QED BY <2>1, EqmRefl
<1>2. ASSUME NEW i \in Nat, i \in P PROVE i + 1 \in P
  <2> DEFINE w == Pw(y, i)
  <2>1. w \in Int /\ Pw(y, i + 1) = w * y
    BY <1>0, PwDef
  <2>2. PICK j \in Int : w = (1 + i * x) + (x * x) * j
    BY <1>2 DEF Eqm
  <2> HIDE DEF w
  <2> DEFINE l == i + j + j * x
  <2>3. l \in Int
    OBVIOUS
  <2>4. w * (1 + x) = (1 + (i + 1) * x) + (x * x) * l
    BY <2>2
  <2> HIDE DEF l
  <2>5. Pw(y, i + 1) = (1 + (i + 1) * x) + (x * x) * l
    BY <2>1, <2>4
  <2> QED BY <2>3, <2>5 DEF Eqm
<1>3. \A i \in Nat : i \in P
  <2> HIDE DEF P
  <2> QED BY <1>1, <1>2, Induction
<1> QED BY <1>3

-----------------------------------------------------------------------------
(* Paillier.                                                               *)

LEMMA PaiMul == ASSUME NEW x, NEW y, NEW n PROVE Pai!MulMod(x, y, n) = Ar!MulMod(x, y, n)
BY DEF Pai!MulMod, Ar!MulMod
LEMMA PaiXgcd == Pai!xgcd = Ar!xgcd
BY DEF Pai!xgcd, Ar!xgcd
LEMMA PaiGcd == ASSUME NEW a, NEW b PROVE Pai!GCD(a, b) = Ar!GCD(a, b)
BY PaiXgcd DEF Pai!GCD, Ar!GCD
LEMMA PaiInverse == ASSUME NEW a, NEW b PROVE Pai!Inverse(a, b) = Ar!Inverse(a, b)
BY PaiXgcd, Zenon DEF Pai!Inverse, Ar!Inverse, Pai!Nil, Ar!Nil
LEMMA PaiPower == ASSUME NEW x, NEW k, NEW n PROVE Pai!Power(x, k, n) = Ar!Power(x, k, n)
BY DEF Pai!Power, Ar!Power, Pai!MulMod, Ar!MulMod
LEMMA PaiExp == ASSUME NEW x, NEW k, NEW n PROVE Pai!Exp(x, k, n) = Ar!Exp(x, k, n)
BY PaiPower, PaiInverse, PaiGcd, Zenon DEF Pai!Exp, Ar!Exp, Pai!Nil, Ar!Nil

\* N and lambda of a key.
LEMMA KeyIs ==
    ASSUME NEW P, NEW R, KeyOk(P, R)
    PROVE  LET sk == Pai!KeyPair(P, R)
           IN  /\ sk.N = P * R /\ sk.PhiN = (P - 1) * (R - 1)
               /\ P \in Nat /\ P > 1 /\ R \in Nat /\ R > 1 /\ sk.N \in Nat /\ sk.N > 1
               /\ sk.PhiN \in Nat /\ sk.PhiN > 0 /\ Unit(sk.N, sk.PhiN)
               /\ sk.LambdaN \in Nat /\ Unit(sk.LambdaN, sk.N)
               /\ \E u \in Nat : sk.LambdaN = (P - 1) * u
               /\ \E u \in Nat : sk.LambdaN = (R - 1) * u
<1> DEFINE sk == Pai!KeyPair(P, R)
           a == P - 1
           b == R - 1
           r == Ar!xgcd[<<a, b>>]
           g == r[1]
           N == P * R
           phi == a * b
<1>0. P \in Nat /\ P > 1 /\ R \in Nat /\ R > 1 /\ a \in Nat /\ a > 0 /\ b \in Nat /\ b > 0
  BY DEF KeyOk, IsPrime
<1>1. sk.N = N /\ sk.PhiN = phi /\ sk.LambdaN = phi \div g
  BY PaiGcd DEF Pai!KeyPair, Ar!GCD
<1>2. N \in Nat /\ N > 1
  <2>1. N >= P
    BY <1>0
  <2> QED BY <1>0, <2>1
<1>3. phi \in Nat /\ phi > 0
  <2> HIDE DEF a, b
  <2> QED BY <1>0
<1>4. Unit(N, phi)
  <2>1. Ar!GCD(N, phi) = 1
    BY PaiGcd DEF KeyOk
  <2> HIDE DEF N, phi
  <2> QED BY <1>2, <1>3, <2>1, GcdUnit
<1> HIDE DEF a, b
<1>5. <<a, b>> \in Pairs /\ <<a, b>>[1] = a /\ <<a, b>>[2] = b
  BY <1>0 DEF Pairs
<1>6. Bezout(<<a, b>>, r) /\ r \in Triple
  BY <1>5, XgcdBezout, XgcdIs
<1> HIDE DEF r
<1>7. g \in Int /\ g >= 0 /\ \E u, v \in Int : a = g * u /\ b = g * v
  BY <1>5, <1>6 DEF Bezout, Triple
<1>8. PICK u \in Int, v \in Int : a = g * u /\ b = g * v
  BY <1>7
<1> HIDE DEF g
<1>9. g > 0 /\ u > 0 /\ v > 0
  <2>1. g # 0
    BY <1>0, <1>7, <1>8
  <2> QED BY <1>0, <1>7, <1>8, <2>1
<1> DEFINE l == a * v
<1>10. l \in Nat /\ phi = l * g /\ l = b * u
  BY <1>0, <1>7, <1>8, <1>9
<1> HIDE DEF phi, l
<1>11. phi \div g = l
  <2>1. phi = g * l + 0 /\ 0 \in 0 .. g - 1
    BY <1>7, <1>9, <1>10
  <2> QED BY <1>7, <1>9, <1>10, <2>1
<1>12. Unit(phi, N)
  BY <1>2, <1>3, <1>4, UnitSwap
<1>13. Unit(l, N)
  <2>1. g \in Int /\ l \in Int /\ N \in Int /\ Unit(l * g, N)
    BY <1>2, <1>7, <1>10, <1>12
  <2> HIDE DEF N
  <2> QED BY <2>1, UnitFactor
<1>14. \E w \in Nat : l = a * w
  <2>1. v \in Nat
    BY <1>9
  <2> QED BY <2>1 DEF l
<1>15. \E w \in Nat : l = b * w
  <2>1. u \in Nat
    BY <1>9
  <2> QED BY <1>10, <2>1
<1>16. phi = (P - 1) * (R - 1)
  BY DEF phi, a, b
<1>17. sk.LambdaN = l
  BY <1>1, <1>11
<1>18. /\ sk.N = N /\ sk.PhiN = phi /\ sk.LambdaN = l
       /\ (\E w \in Nat : l = (P - 1) * w) /\ (\E w \in Nat : l = (R - 1) * w)
  BY <1>1, <1>14, <1>15, <1>17 DEF a, b
<1> HIDE DEF sk
<1>19. /\ sk.N = P * R /\ sk.PhiN = (P - 1) * (R - 1) /\ sk.N \in Nat /\ sk.N > 1
       /\ sk.PhiN \in Nat /\ sk.PhiN > 0 /\ Unit(sk.N, sk.PhiN)
       /\ sk.LambdaN \in Nat /\ Unit(sk.LambdaN, sk.N)
  BY <1>2, <1>3, <1>4, <1>10, <1>13, <1>16, <1>18
<1> QED BY <1>0, <1>18, <1>19 DEF sk

\* Two different primes are relatively prime.
LEMMA PrimesCoprime ==
    ASSUME NEW P, NEW R, IsPrime(P), IsPrime(R), P # R PROVE Unit(P, R)
<1>0. P \in Nat /\ P > 1 /\ R \in Nat /\ R > 1 /\ P \in Int /\ R \in Int
  BY DEF IsPrime
<1>1. CASE P < R
  <2>1. P % R = P /\ P # 0
    BY <1>0, <1>1, SmallMod
  <2> QED BY <1>0, <2>1, PrimeUnit
<1>2. CASE R < P
  <2>1. R % P = R /\ R # 0
    BY <1>0, <1>2, SmallMod
  <2>2. Unit(R, P)
    BY <1>0, <2>1, PrimeUnit
  <2> QED BY <1>0, <2>2, UnitSwap
<1> QED BY <1>0, <1>1, <1>2

\* A power whose exponent is a multiple of P - 1 and of R - 1.
LEMMA PowerIsOne ==
    ASSUME NEW P, NEW R, IsPrime(P), IsPrime(R), P # R, NEW k \in Nat,
           \E u \in Nat : k = (P - 1) * u, \E u \in Nat : k = (R - 1) * u,
           NEW x \in Int, Unit(x, P * R)
    PROVE  Eqm(Pw(x, k), 1, P * R)
<1>0. P \in Int /\ R \in Int /\ P - 1 \in Nat /\ R - 1 \in Nat
  BY DEF IsPrime
<1>1. Unit(x, P) /\ Unit(x, R)
  BY <1>0, UnitDown
<1>2. ASSUME NEW p, p \in {P, R}, NEW u \in Nat, k = (p - 1) * u PROVE Eqm(Pw(x, k), 1, p)
  <2>1. IsPrime(p) /\ p \in Int /\ p - 1 \in Nat /\ Unit(x, p)
    BY <1>0, <1>1, <1>2
  <2> DEFINE y == Pw(x, p - 1)
  <2>2. y \in Int /\ Eqm(y, 1, p)
    BY <2>1, Fermat, PwDef
  <2>3. Pw(x, k) = Pw(y, u)
    BY <1>2, <2>1, PwTimes
  <2> HIDE DEF y
  <2>4. Eqm(Pw(y, u), Pw(1, u), p)
    BY <2>1, <2>2, PwEqm
  <2> QED BY <2>3, <2>4, PwOfOne
<1>3. Eqm(Pw(x, k), 1, P)
  BY <1>2
<1>4. Eqm(Pw(x, k), 1, R)
  BY <1>2
<1>5. Unit(P, R) /\ Pw(x, k) \in Int
  BY PrimesCoprime, PwDef
<1> QED BY <1>0, <1>3, <1>4, <1>5, EqmBoth

\* What is 1 mod N has N-th power 1 mod N^2.
LEMMA LiftOne ==
    ASSUME NEW N \in Nat, NEW y \in Int, Eqm(y, 1, N) PROVE Eqm(Pw(y, N), 1, N * N)
<1>1. PICK k \in Int : y = 1 + N * k
  BY DEF Eqm
<1> DEFINE x == N * k
<1>2. x \in Int /\ y = 1 + x
  BY <1>1
<1>3. x * x = (N * N) * (k * k) /\ N * x = (N * N) * k /\ k * k \in Int
  OBVIOUS
<1> HIDE DEF x
<1>4. Eqm(Pw(y, N), 1 + N * x, x * x)
  BY <1>2, PwFirstOrder
<1>5. PICK j \in Int : Pw(y, N) = (1 + N * x) + (x * x) * j
  BY <1>4 DEF Eqm
<1> DEFINE M == N * N
           kk == k * k
           l == k + kk * j
<1>6. M \in Int /\ kk \in Int /\ l \in Int
  OBVIOUS
<1>7. Pw(y, N) = (1 + M * k) + (M * kk) * j
  BY <1>3, <1>5
<1> HIDE DEF M, kk
<1>8. Pw(y, N) = 1 + M * l
  BY <1>6, <1>7
<1> QED BY <1>6, <1>8 DEF Eqm, M

\* L of a number that is 1 + k * N mod N^2.
LEMMA LIs ==
    ASSUME NEW N \in Nat, N > 1, NEW k \in Int, NEW w \in Int, Eqm(w, 1 + k * N, N * N)
    PROVE  Pai!L(w % (N * N), N) = k % N
<1> DEFINE r == k % N
           d == k \div N
           v == 1 + r * N
<1>1. r \in 0 .. N - 1 /\ d \in Int /\ k = N * d + r
  OBVIOUS
<1> HIDE DEF r, d
<1>2. N * N \in Nat /\ r \in Int
  BY <1>1
<1>3. v \in 0 .. N * N - 1
  <2>1. r * N <= (N - 1) * N
    BY <1>1
  <2>2. (N - 1) * N = N * N - N /\ r * N >= 0 /\ r * N \in Int
    BY <1>1
  <2> DEFINE z == r * N
             y == N * N
  <2>3. z <= y - N /\ z >= 0 /\ z \in Int /\ y \in Int
    BY <2>1, <2>2
  <2> HIDE DEF z, y
  <2>4. 1 + z \in 0 .. y - 1
    BY <2>3
  <2> QED BY <2>4 DEF z, y
<1>4. Eqm(v, w, N * N)
  <2>1. PICK j \in Int : w = (1 + k * N) + (N * N) * j
    BY DEF Eqm
  <2> DEFINE M == N * N
             rN == r * N
  <2>2. M \in Int /\ rN \in Int /\ k * N = M * d + rN
    BY <1>1, <1>2
  <2>3. w = (1 + k * N) + M * j
    BY <2>1
  <2> HIDE DEF M, rN
  <2>4. w = (1 + (M * d + rN)) + M * j
    BY <2>2, <2>3
  <2>5. 1 + rN = w + M * (-(d + j)) /\ -(d + j) \in Int
    BY <1>1, <2>2, <2>4
  <2>6. Eqm(1 + rN, w, M)
    BY <2>5 DEF Eqm
  <2> QED BY <2>6 DEF M, rN
<1>5. w % (N * N) = v
  <2> DEFINE M == N * N
  <2> HIDE DEF v, M
  <2>1. M \in Nat /\ v \in 0 .. M - 1 /\ Eqm(v, w, M)
    BY <1>2, <1>3, <1>4 DEF M
  <2>2. w % M = v
    BY <2>1, ModIsUnique
  <2> QED BY <2>2 DEF M
<1>6. (v - 1) \div N = r
  <2>1. v - 1 = N * r + 0
    BY <1>2
  <2>2. (N * r) \div N = r
    BY <1>2
  <2> QED BY <2>1, <2>2, <1>2
<1> QED BY <1>5, <1>6 DEF Pai!L, r

\* c is a ciphertext of m.
Cipher(c, m, N) == \E x \in Int : Unit(x, N) /\ Eqm(c, Pw(N + 1, m) * Pw(x, N), N * N)

LEMMA CipherPower ==
    ASSUME NEW P, NEW R, KeyOk(P, R), NEW m \in Nat, NEW c \in Int, Cipher(c, m, P * R)
    PROVE  LET l == Pai!KeyPair(P, R).LambdaN
               N == P * R
           IN  Eqm(Pw(c, l), 1 + (m * l) * N, N * N)
<1> DEFINE l == Pai!KeyPair(P, R).LambdaN
           N == P * R
           M == N * N
           g == N + 1
<1>1. /\ N \in Nat /\ N > 1 /\ l \in Nat
      /\ (\E u \in Nat : l = (P - 1) * u) /\ (\E u \in Nat : l = (R - 1) * u)
  BY KeyIs
<1>2. IsPrime(P) /\ IsPrime(R) /\ P # R
  BY DEF KeyOk
<1> HIDE DEF l
<1>3. PICK x \in Int : Unit(x, N) /\ Eqm(c, Pw(g, m) * Pw(x, N), M)
  BY DEF Cipher
<1>4. Eqm(Pw(x, l), 1, N)
  BY <1>1, <1>2, <1>3, PowerIsOne
<1> HIDE DEF N
<1>5. M \in Int /\ g \in Int
  BY <1>1
<1> DEFINE a == Pw(g, m)
           y == Pw(x, N)
           z == Pw(x, l)
<1>6. a \in Int /\ y \in Int /\ z \in Int
  BY <1>1, <1>5, PwDef
<1>7. Pw(y, l) = Pw(z, N)
  <2>1. Pw(x, N * l) = Pw(y, l) /\ Pw(x, l * N) = Pw(z, N)
    BY <1>1, PwTimes
  <2>2. N * l = l * N
    BY <1>1
  <2> QED BY <2>1, <2>2
<1>8. Pw(a, l) = Pw(g, m * l)
  BY <1>1, <1>5, PwTimes
<1>9. Eqm(Pw(g, m * l), 1 + (m * l) * N, M)
  <2>1. m * l \in Nat /\ g = 1 + N /\ N \in Int
    BY <1>1
  <2> DEFINE k == m * l
  <2>2. k \in Nat
    BY <2>1
  <2> HIDE DEF k
  <2>3. Eqm(Pw(1 + N, k), 1 + k * N, N * N)
    BY <2>1, <2>2, PwFirstOrder
  <2> QED BY <2>1, <2>3 DEF k
<1> HIDE DEF a, y, z, g
<1>10. Eqm(Pw(z, N), 1, M)
  BY <1>1, <1>4, <1>6, LiftOne DEF z
<1>11. Eqm(c, a * y, M)
  BY <1>3 DEF a, y
<1> HIDE DEF M
<1>12. Eqm(Pw(c, l), Pw(a * y, l), M)
  <2>1. a * y \in Int
    BY <1>6
  <2> QED BY <1>1, <1>5, <1>11, <2>1, PwEqm, Zenon
<1>13. Pw(a * y, l) = Pw(a, l) * Pw(y, l)
  BY <1>1, <1>6, PwProd
<1> DEFINE A == Pw(a, l)
           Y == Pw(y, l)
           k == 1 + (m * l) * N
<1>14. A \in Int /\ Y \in Int /\ k \in Int /\ Pw(c, l) \in Int
  <2>1. A \in Int /\ Y \in Int /\ Pw(c, l) \in Int
    BY <1>1, <1>6, PwDef
  <2>2. k \in Int
    BY <1>1
  <2> QED BY <2>1, <2>2
<1>15. Eqm(A, k, M) /\ Eqm(Y, 1, M) /\ Eqm(Pw(c, l), A * Y, M)
  BY <1>7, <1>8, <1>9, <1>10, <1>12, <1>13
<1> HIDE DEF A, Y, k
<1>16. Eqm(A * Y, k * 1, M)
  BY <1>5, <1>14, <1>15, EqmTimes
<1>17. k * 1 = k /\ A * Y \in Int
  BY <1>14
<1>18. Eqm(Pw(c, l), k, M)
  BY <1>5, <1>14, <1>15, <1>16, <1>17, EqmTrans
<1> QED BY <1>18 DEF k, M, N, l

\* The generator N + 1 is a ciphertext of 1.
LEMMA GammaCipher == ASSUME NEW N \in Nat PROVE Cipher(N + 1, 1, N)
<1>1. Pw(N + 1, 1) = N + 1 /\ Pw(1, N) = 1 /\ Unit(1, N)
  BY PwOne, PwOfOne, UnitOne
<1>2. (N + 1) * 1 = N + 1 /\ N * N \in Int /\ N + 1 \in Int
  OBVIOUS
<1>3. Eqm(N + 1, N + 1, N * N)
  BY <1>2, EqmRefl
<1>4. Eqm(N + 1, Pw(N + 1, 1) * Pw(1, N), N * N)
  BY <1>1, <1>2, <1>3
<1> QED BY <1>1, <1>4 DEF Cipher

\* Decrypt returns the plaintext mod N.
LEMMA DecryptIs ==
    ASSUME NEW P, NEW R, KeyOk(P, R), NEW m \in Nat, NEW c \in Int, Cipher(c, m, P * R),
           c \in 0 .. (P * R) * (P * R) - 1
    PROVE  Pai!Decrypt(Pai!KeyPair(P, R), c) = m % (P * R)
<1> DEFINE sk == Pai!KeyPair(P, R)
           l == sk.LambdaN
           N == P * R
           M == N * N
           Lc == Pai!L(Pai!Exp(c, l, M), N)
           Lg == Pai!L(Pai!Exp(N + 1, l, M), N)
<1>1. sk.N = N /\ N \in Nat /\ N > 1 /\ l \in Nat /\ Unit(l, N)
  BY KeyIs
<1>2. Pai!Decrypt(sk, c) = Pai!MulMod(Lc, Pai!Inverse(Lg, N), N)
  <2>0. c \in 0 .. M - 1
    OBVIOUS
  <2> HIDE DEF sk, N
  <2>2. M \in Int
    BY <1>1
  <2>1. Pai!IsInInterval(c, M)
    <3> HIDE DEF M
    <3> QED BY <2>0, <2>2 DEF Pai!IsInInterval
  <2> QED BY <1>1, <2>1 DEF Pai!Decrypt, Pai!NSquare, Pai!Gamma
<1>3. Eqm(Pw(c, l), 1 + (m * l) * N, M)
  BY CipherPower
<1>4. Eqm(Pw(N + 1, l), 1 + (1 * l) * N, M)
  <2>1. N + 1 \in Int /\ Cipher(N + 1, 1, N)
    BY <1>1, GammaCipher
  <2>2. 1 \in Nat
    OBVIOUS
  <2> QED BY <2>1, <2>2, CipherPower
<1> HIDE DEF l, N
<1>5. M \in Nat /\ M > 0 /\ N + 1 \in Int
  <2>1. M >= N /\ M \in Nat
    BY <1>1
  <2> QED BY <1>1, <2>1
<1>6. Lc = (m * l) % N
  <2>1. Pai!Exp(c, l, M) = Pw(c, l) % M
    <3> HIDE DEF M
    <3> QED BY <1>1, <1>5, PaiExp, ExpIs
  <2>2. m * l \in Int /\ Pw(c, l) \in Int
    BY <1>1, PwDef
  <2>3. Pai!L(Pw(c, l) % (N * N), N) = (m * l) % N
    BY <1>1, <1>3, <2>2, LIs, Zenon
  <2> QED BY <2>1, <2>3
<1>7. Lg = l % N
  <2>1. Pai!Exp(N + 1, l, M) = Pw(N + 1, l) % M
    <3> HIDE DEF M
    <3> QED BY <1>1, <1>5, PaiExp, ExpIs
  <2>2. 1 * l = l /\ l \in Int /\ Pw(N + 1, l) \in Int
    BY <1>1, <1>5, PwDef
  <2>3. Eqm(Pw(N + 1, l), 1 + l * N, N * N)
    BY <1>4, <2>2
  <2>4. Pai!L(Pw(N + 1, l) % (N * N), N) = l % N
    BY <1>1, <2>2, <2>3, LIs, Zenon
  <2> QED BY <2>1, <2>4
<1> HIDE DEF Lc, Lg
<1> DEFINE i == Pai!Inverse(Lg, N)
<1>8. N > 0 /\ N \in Int /\ l \in Int /\ m * l \in Int
  BY <1>1
<1>9. Lc \in Int /\ Eqm(Lc, m * l, N)
  <2> DEFINE z == m * l
  <2>1. z \in Int /\ Lc = z % N
    BY <1>6, <1>8
  <2> HIDE DEF z
  <2>2. z % N \in Nat /\ Eqm(z % N, z, N)
    BY <1>1, <1>8, <2>1, ModIs
  <2> QED BY <2>1, <2>2 DEF z
<1>10. Lg \in Int /\ Eqm(Lg, l, N)
  BY <1>1, <1>7, <1>8, ModIs
<1>11. Unit(Lg, N)
  BY <1>1, <1>8, <1>10, UnitEqm
<1>12. i \in Int /\ Eqm(Lg * i, 1, N)
  <2>1. Ar!Inverse(Lg, N) \in 0 .. N - 1 /\ Eqm(Lg * Ar!Inverse(Lg, N), 1, N)
    BY <1>1, <1>8, <1>10, <1>11, InverseOf
  <2> QED BY <2>1, PaiInverse
<1> HIDE DEF i
<1>13. Pai!MulMod(Lc, i, N) = (Lc * i) % N
  BY <1>1, <1>8, <1>9, <1>12, PaiMul, MulModIs
<1>14. Eqm(Lc * i, m, N)
  <2>1. Eqm(l * i, Lg * i, N)
    <3>1. Eqm(l, Lg, N)
      BY <1>8, <1>10, EqmSym
    <3> QED BY <1>8, <1>10, <1>12, <3>1, EqmScale
  <2>2. l * i \in Int /\ Lg * i \in Int /\ 1 \in Int
    BY <1>8, <1>10, <1>12
  <2>3. Eqm(l * i, 1, N)
    BY <1>8, <1>12, <2>1, <2>2, EqmTrans, Zenon
  <2>4. Eqm(m * (l * i), m * 1, N)
    <3>1. Eqm(m, m, N) /\ m \in Int
      BY <1>8, EqmRefl
    <3> QED BY <1>8, <2>2, <2>3, <3>1, EqmTimes, Zenon
  <2>5. Eqm(Lc * i, (m * l) * i, N)
    BY <1>8, <1>9, <1>12, EqmScale, Zenon
  <2>6. (m * l) * i = m * (l * i) /\ m * 1 = m /\ m \in Int /\ Lc * i \in Int /\ m * (l * i) \in Int
    BY <1>8, <1>9, <1>12
  <2>7. Eqm(Lc * i, m * (l * i), N) /\ Eqm(m * (l * i), m, N)
    BY <2>4, <2>5, <2>6, Zenon
  <2> QED BY <1>8, <2>6, <2>7, EqmTrans, Zenon
<1>15. (Lc * i) % N = m % N
  <2>1. Lc * i \in Int /\ m \in Int
    BY <1>9, <1>12
  <2> QED BY <1>1, <1>8, <1>14, <2>1, EqmMod, Zenon
<1> QED BY <1>2, <1>13, <1>15 DEF i, N

\* A product computed mod n.
LEMMA PaiMulIs ==
    ASSUME NEW x \in Int, NEW y \in Int, NEW n \in Nat, n > 0
    PROVE  Pai!MulMod(x, y, n) \in 0 .. n - 1 /\ Pai!MulMod(x, y, n) \in Int /\ Eqm(Pai!MulMod(x, y, n), x * y, n)
<1> DEFINE z == x * y
<1>1. z \in Int
  OBVIOUS
<1>2. Pai!MulMod(x, y, n) = z % n
  BY PaiMul, MulModIs
<1> HIDE DEF z
<1>3. z % n \in 0 .. n - 1 /\ z % n \in Nat /\ Eqm(z % n, z, n)
  BY <1>1, ModIs
<1> QED BY <1>2, <1>3 DEF z

LEMMA PaiExpIs ==
    ASSUME NEW x \in Int, NEW k \in Nat, NEW n \in Nat, n > 0
    PROVE  /\ Pai!Exp(x, k, n) \in 0 .. n - 1 /\ Pai!Exp(x, k, n) \in Int
           /\ Eqm(Pai!Exp(x, k, n), Pw(x, k), n) /\ Pw(x, k) \in Int
<1> DEFINE z == Pw(x, k)
<1>1. z \in Int
  BY PwDef
<1>2. Pai!Exp(x, k, n) = z % n
  BY PaiExp, ExpIs
<1> HIDE DEF z
<1>3. z % n \in 0 .. n - 1 /\ z % n \in Nat /\ Eqm(z % n, z, n)
  BY <1>1, ModIs
<1> QED BY <1>1, <1>2, <1>3 DEF z

LEMMA SquarePos == ASSUME NEW N \in Nat, N > 1 PROVE N * N \in Nat /\ N * N > 0 /\ N * N > 1
<1>1. N * N >= N
  OBVIOUS
<1> QED BY <1>1

\* (N+1)^m * x^N mod N^2, as the encryption and the proofs compute it.
LEMMA GammaTimes ==
    ASSUME NEW N \in Nat, N > 1, NEW m \in Nat, NEW x \in Int
    PROVE  LET c == Pai!MulMod(Pai!Exp(N + 1, m, N * N), Pai!Exp(x, N, N * N), N * N)
           IN  c \in 0 .. N * N - 1 /\ c \in Int /\ Eqm(c, Pw(N + 1, m) * Pw(x, N), N * N)
<1> DEFINE M == N * N
           u == Pai!Exp(N + 1, m, M)
           v == Pai!Exp(x, N, M)
           a == Pw(N + 1, m)
           b == Pw(x, N)
           c == Pai!MulMod(u, v, M)
<1>1. M \in Nat /\ M > 0 /\ M \in Int /\ N + 1 \in Int
  BY SquarePos
<1> HIDE DEF M
<1>2. u \in Int /\ v \in Int /\ a \in Int /\ b \in Int /\ Eqm(u, a, M) /\ Eqm(v, b, M)
  BY <1>1, PaiExpIs
<1> HIDE DEF u, v, a, b
<1>3. c \in 0 .. M - 1 /\ c \in Int /\ Eqm(c, u * v, M)
  BY <1>1, <1>2, PaiMulIs
<1>4. Eqm(u * v, a * b, M)
  BY <1>1, <1>2, EqmTimes
<1>5. u * v \in Int /\ a * b \in Int
  BY <1>2
<1> HIDE DEF c
<1>6. Eqm(c, a * b, M)
  BY <1>1, <1>3, <1>4, <1>5, EqmTrans, Zenon
<1> QED BY <1>3, <1>6 DEF M, u, v, a, b, c

LEMMA EncryptIs ==
    ASSUME NEW N \in Nat, N > 1, NEW m \in 0 .. N - 1, NEW x \in Int, x # 0
    PROVE  LET c == Pai!EncryptWithChosenRandomness(N, m, x)
           IN  c \in 0 .. N * N - 1 /\ c \in Int /\ Eqm(c, Pw(N + 1, m) * Pw(x, N), N * N)
<1>1. Pai!EncryptWithChosenRandomness(N, m, x)
        = Pai!MulMod(Pai!Exp(N + 1, m, N * N), Pai!Exp(x, N, N * N), N * N)
  BY DEF Pai!EncryptWithChosenRandomness, Pai!IsInInterval, Pai!Gamma, Pai!NSquare
<1>2. m \in Nat
  OBVIOUS
<1> QED BY <1>1, <1>2, GammaTimes

LEMMA EncryptCipher ==
    ASSUME NEW N \in Nat, N > 1, NEW m \in 0 .. N - 1, NEW x \in Int, x # 0, Unit(x, N)
    PROVE  LET c == Pai!EncryptWithChosenRandomness(N, m, x)
           IN  c \in 0 .. N * N - 1 /\ c \in Int /\ Cipher(c, m, N)
BY EncryptIs DEF Cipher

\* A ciphertext is a unit.
LEMMA CipherUnit ==
    ASSUME NEW N \in Nat, N > 1, NEW m \in Nat, NEW c \in Int, Cipher(c, m, N)
    PROVE  Unit(c, N) /\ Unit(c, N * N)
<1>1. PICK x \in Int : Unit(x, N) /\ Eqm(c, Pw(N + 1, m) * Pw(x, N), N * N)
  BY DEF Cipher
<1> DEFINE a == Pw(N + 1, m)
           b == Pw(x, N)
<1>2. N + 1 \in Int /\ N \in Int /\ N * N \in Int
  OBVIOUS
<1>3. a \in Int /\ b \in Int
  BY <1>2, PwDef
<1>4. Unit(N + 1, N)
  <2>1. (N + 1) * 1 = 1 + N * 1
    OBVIOUS
  <2> QED BY <2>1 DEF Unit, Eqm
<1>5. Unit(a, N) /\ Unit(b, N)
  BY <1>1, <1>2, <1>4, UnitPw
<1>6. Eqm(c, a * b, N * N)
  BY <1>1
<1> HIDE DEF a, b
<1>7. a * b \in Int /\ Unit(a * b, N)
  BY <1>2, <1>3, <1>5, UnitProd
<1>8. Unit(a * b, N * N)
  BY <1>2, <1>7, UnitBoth, Zenon
<1>9. Unit(c, N * N)
  BY <1>2, <1>6, <1>7, <1>8, UnitEqm, Zenon
<1> QED BY <1>2, <1>9, UnitDown

LEMMA HomoAddCipher ==
    ASSUME NEW N \in Nat, N > 1, NEW m1 \in Nat, NEW m2 \in Nat,
           NEW c1 \in 0 .. N * N - 1, NEW c2 \in 0 .. N * N - 1, Cipher(c1, m1, N), Cipher(c2, m2, N)
    PROVE  LET c == Pai!HomoAdd(N, c1, c2)
           IN  c \in 0 .. N * N - 1 /\ c \in Int /\ Cipher(c, m1 + m2, N)
<1> DEFINE M == N * N
           c == Pai!HomoAdd(N, c1, c2)
           g == N + 1
<1>1. M \in Nat /\ M > 0 /\ M \in Int /\ g \in Int /\ N \in Int
  BY SquarePos
<1>2. c1 \in 0 .. M - 1 /\ c2 \in 0 .. M - 1
  OBVIOUS
<1>3. PICK x1 \in Int : Unit(x1, N) /\ Eqm(c1, Pw(g, m1) * Pw(x1, N), M)
  BY DEF Cipher
<1>4. PICK x2 \in Int : Unit(x2, N) /\ Eqm(c2, Pw(g, m2) * Pw(x2, N), M)
  BY DEF Cipher
<1>5. c = Pai!MulMod(c1, c2, M)
  <2>1. Pai!IsInInterval(c1, M) /\ Pai!IsInInterval(c2, M)
    <3> HIDE DEF M
    <3> QED BY <1>1, <1>2 DEF Pai!IsInInterval
  <2> QED BY <2>1 DEF Pai!HomoAdd, Pai!NSquare
<1> HIDE DEF M, g
<1>6. c1 \in Int /\ c2 \in Int
  BY <1>1, <1>2
<1>7. c \in 0 .. M - 1 /\ c \in Int /\ Eqm(c, c1 * c2, M)
  BY <1>1, <1>5, <1>6, PaiMulIs
<1> HIDE DEF c
<1> DEFINE a1 == Pw(g, m1)
           a2 == Pw(g, m2)
           b1 == Pw(x1, N)
           b2 == Pw(x2, N)
           x == x1 * x2
<1>8. a1 \in Int /\ a2 \in Int /\ b1 \in Int /\ b2 \in Int
  BY <1>1, PwDef
<1>9. x \in Int /\ Unit(x, N) /\ Pw(x, N) = b1 * b2
  <2>1. Unit(x, N)
    BY <1>1, <1>3, <1>4, UnitProd
  <2> QED BY <2>1, PwProd
<1>10. Pw(g, m1 + m2) = a1 * a2
  BY <1>1, PwPlus
<1>11. Eqm(c1, a1 * b1, M) /\ Eqm(c2, a2 * b2, M)
  BY <1>3, <1>4
<1> HIDE DEF a1, a2, b1, b2, x
<1>12. a1 * b1 \in Int /\ a2 * b2 \in Int /\ c1 * c2 \in Int /\ (a1 * b1) * (a2 * b2) \in Int
  BY <1>6, <1>8
<1>13. Eqm(c1 * c2, (a1 * b1) * (a2 * b2), M)
  BY <1>1, <1>6, <1>11, <1>12, EqmTimes, Zenon
<1>14. (a1 * b1) * (a2 * b2) = (a1 * a2) * (b1 * b2)
  BY <1>8
<1>15. Eqm(c, (a1 * b1) * (a2 * b2), M)
  BY <1>1, <1>7, <1>12, <1>13, EqmTrans, Zenon
<1>16. Eqm(c, Pw(g, m1 + m2) * Pw(x, N), M)
  BY <1>9, <1>10, <1>14, <1>15, Zenon
<1>17. Cipher(c, m1 + m2, N)
  BY <1>9, <1>16 DEF Cipher, M, g
<1> QED BY <1>7, <1>17 DEF c, M

LEMMA HomoMultCipher ==
    ASSUME NEW N \in Nat, N > 1, NEW m1 \in Nat, NEW m2 \in 0 .. N - 1,
           NEW c1 \in 0 .. N * N - 1, Cipher(c1, m1, N)
    PROVE  LET c == Pai!HomoMult(N, m2, c1)
           IN  c \in 0 .. N * N - 1 /\ c \in Int /\ Cipher(c, m1 * m2, N)
<1> DEFINE M == N * N
           c == Pai!HomoMult(N, m2, c1)
           g == N + 1
<1>1. M \in Nat /\ M > 0 /\ M \in Int /\ g \in Int /\ N \in Int /\ m2 \in Nat
  BY SquarePos
<1>2. c1 \in 0 .. M - 1
  OBVIOUS
<1>3. PICK x1 \in Int : Unit(x1, N) /\ Eqm(c1, Pw(g, m1) * Pw(x1, N), M)
  BY DEF Cipher
<1>5. c = Pai!Exp(c1, m2, M)
  <2>1. Pai!IsInInterval(c1, M) /\ Pai!IsInInterval(m2, N)
    <3> HIDE DEF M
    <3> QED BY <1>1, <1>2 DEF Pai!IsInInterval
  <2> QED BY <2>1 DEF Pai!HomoMult, Pai!NSquare
<1> HIDE DEF M, g
<1>6. c1 \in Int
  BY <1>1, <1>2
<1>7. c \in 0 .. M - 1 /\ c \in Int /\ Eqm(c, Pw(c1, m2), M) /\ Pw(c1, m2) \in Int
  BY <1>1, <1>5, <1>6, PaiExpIs
<1> HIDE DEF c
<1> DEFINE a == Pw(g, m1)
           b == Pw(x1, N)
           x == Pw(x1, m2)
<1>8. a \in Int /\ b \in Int /\ x \in Int
  BY <1>1, PwDef
<1>9. Unit(x, N)
  BY <1>1, <1>3, UnitPw
<1>10. Pw(x, N) = Pw(b, m2)
  <2>1. Pw(x1, m2 * N) = Pw(x, N) /\ Pw(x1, N * m2) = Pw(b, m2)
    BY <1>1, PwTimes
  <2>2. m2 * N = N * m2
    BY <1>1
  <2> QED BY <2>1, <2>2
<1>11. Pw(g, m1 * m2) = Pw(a, m2)
  BY <1>1, PwTimes
<1>12. Eqm(c1, a * b, M)
  BY <1>3
<1> HIDE DEF a, b, x
<1>13. a * b \in Int /\ Pw(a * b, m2) = Pw(a, m2) * Pw(b, m2)
  BY <1>1, <1>8, PwProd
<1>14. Eqm(Pw(c1, m2), Pw(a * b, m2), M)
  BY <1>1, <1>6, <1>12, <1>13, PwEqm, Zenon
<1>15. Pw(a * b, m2) \in Int
  BY <1>1, <1>13, PwDef
<1>16. Eqm(c, Pw(a * b, m2), M)
  BY <1>1, <1>7, <1>14, <1>15, EqmTrans, Zenon
<1>17. Eqm(c, Pw(g, m1 * m2) * Pw(x, N), M)
  BY <1>10, <1>11, <1>13, <1>16, Zenon
<1>18. Cipher(c, m1 * m2, N)
  BY <1>8, <1>9, <1>17 DEF Cipher, M, g
<1> QED BY <1>7, <1>18 DEF c, M

\* DecryptAndRecoverRandomness returns what was encrypted.
LEMMA RecoverIs ==
    ASSUME NEW P, NEW R, KeyOk(P, R), NEW m \in 0 .. P * R - 1, NEW x \in 1 .. P * R - 1,
           Unit(x, P * R)
    PROVE  Pai!DecryptAndRecoverRandomness(Pai!KeyPair(P, R),
               Pai!EncryptWithChosenRandomness(P * R, m, x)) = [m |-> m, x |-> x]
<1> DEFINE sk == Pai!KeyPair(P, R)
           N == P * R
           M == N * N
           phi == sk.PhiN
           c == Pai!EncryptWithChosenRandomness(N, m, x)
           t == Pai!MulMod(m, N, M)
           cD == Pai!MulMod(c, 1 - t, M)
           i == Pai!Inverse(N, phi)
<1>1. sk.N = N /\ N \in Nat /\ N > 1 /\ phi \in Nat /\ phi > 0 /\ Unit(N, phi) /\ phi = (P - 1) * (R - 1)
      /\ P \in Nat /\ R \in Nat /\ P > 1 /\ R > 1
  BY KeyIs
<1>2. IsPrime(P) /\ IsPrime(R) /\ P # R
  BY DEF KeyOk
<1>a. m \in 0 .. N - 1 /\ x \in 1 .. N - 1 /\ Unit(x, N)
  OBVIOUS
<1>3. Eqm(Pw(x, phi), 1, N)
  <2>1. P - 1 \in Nat /\ R - 1 \in Nat /\ (P - 1) * (R - 1) = (R - 1) * (P - 1)
    BY <1>1
  <2>2. (\E u \in Nat : phi = (P - 1) * u) /\ (\E u \in Nat : phi = (R - 1) * u)
    <3> HIDE DEF phi
    <3> QED BY <1>1, <2>1
  <2>3. x \in Int
    <3> HIDE DEF N
    <3> QED BY <1>1, <1>a
  <2> HIDE DEF phi
  <2> QED BY <1>1, <1>2, <2>2, <2>3, PowerIsOne
<1>4. c \in 0 .. M - 1 /\ c \in Int /\ Cipher(c, m, N) /\ Eqm(c, Pw(N + 1, m) * Pw(x, N), M)
  <2> HIDE DEF N
  <2>1. x \in Int /\ x # 0
    BY <1>1, <1>a
  <2> QED BY <1>1, <1>a, <2>1, EncryptIs, EncryptCipher
<1>5. Pai!Decrypt(sk, c) = m
  <2>1. m \in Nat
    <3> HIDE DEF N
    <3> QED BY <1>1, <1>a
  <2>2. Pai!Decrypt(sk, c) = m % N
    <3> HIDE DEF c
    <3> QED BY <1>4, <2>1, DecryptIs
  <2>3. m % N = m
    <3> HIDE DEF N
    <3> QED BY <1>1, <1>a, SmallMod
  <2> QED BY <2>2, <2>3
<1>6. Pai!DecryptAndRecoverRandomness(sk, c) = [m |-> m, x |-> Pai!Exp(cD, i, N)]
  BY <1>1, <1>5 DEF Pai!DecryptAndRecoverRandomness, Pai!NSquare
<1> HIDE DEF sk, N, c
<1>7. M \in Nat /\ M > 0 /\ M \in Int /\ N \in Int /\ N + 1 \in Int /\ m \in Nat /\ x \in Int
  BY <1>1, <1>a, SquarePos
<1> DEFINE g == Pw(N + 1, m)
           y == Pw(x, N)
<1>8. g \in Int /\ y \in Int
  BY <1>1, <1>7, PwDef
<1>9. Eqm(c, g * y, M)
  BY <1>4
<1>10. Eqm(g, 1 + m * N, M)
  <2>1. N + 1 = 1 + N
    BY <1>7
  <2> QED BY <1>7, <2>1, PwFirstOrder
<1>11. t \in Int /\ Eqm(t, m * N, M)
  <2> HIDE DEF M
  <2>1. m \in Int
    BY <1>7
  <2> QED BY <1>7, <2>1, PaiMulIs, Zenon
<1> HIDE DEF g, y, t
<1>12. 1 - t \in Int /\ 1 + m * N \in Int /\ g * (1 - t) \in Int
  BY <1>7, <1>8, <1>11
<1>13. Eqm(g * (1 - t), 1, M)
  <2>1. PICK j \in Int : g = (1 + m * N) + M * j
    BY <1>10 DEF Eqm
  <2>2. PICK k \in Int : t = m * N + M * k
    BY <1>11 DEF Eqm
  <2> DEFINE n == m * N
             w == (-(m * m)) - k - n * k + j - j * n - (M * j) * k
  <2>3. n \in Int /\ n * n = M * (m * m)
    BY <1>7
  <2>4. g = (1 + n) + M * j /\ t = n + M * k
    BY <2>1, <2>2
  <2> HIDE DEF n, M
  <2>5. w \in Int
    BY <1>7, <2>3
  <2>6. g * (1 - t) = (1 + n + M * j) * (1 - n - M * k)
    BY <1>7, <2>3, <2>4
  <2>7. (1 + n + M * j) * (1 - n - M * k) = 1 - n * n + M * (-k - n * k + j - j * n - (M * j) * k)
    BY <1>7, <2>3
  <2>8. g * (1 - t) = 1 + M * w
    <3> DEFINE e == -k - n * k + j - j * n - (M * j) * k
               mm == m * m
    <3>1. e \in Int /\ mm \in Int /\ w = -mm + e
      BY <1>7, <2>3
    <3>2. g * (1 - t) = 1 - M * mm + M * e
      BY <2>3, <2>6, <2>7
    <3> HIDE DEF e, mm, w
    <3> QED BY <1>7, <3>1, <3>2
  <2> HIDE DEF w
  <2> QED BY <2>5, <2>8 DEF Eqm
<1> HIDE DEF M
<1>14. cD \in Int /\ Eqm(cD, c * (1 - t), M)
  BY <1>4, <1>7, <1>12, PaiMulIs
<1>15. Eqm(cD, y, M)
  <2>1. c * (1 - t) \in Int /\ g * y \in Int /\ (g * y) * (1 - t) \in Int /\ y * (g * (1 - t)) \in Int
    BY <1>4, <1>8, <1>12
  <2>2. Eqm(c * (1 - t), (g * y) * (1 - t), M)
    BY <1>4, <1>7, <1>9, <1>12, <2>1, EqmScale, Zenon
  <2>3. (g * y) * (1 - t) = (g * (1 - t)) * y /\ 1 * y = y
    BY <1>8, <1>12
  <2>4. Eqm((g * (1 - t)) * y, 1 * y, M)
    <3>1. 1 \in Int
      OBVIOUS
    <3> QED BY <1>7, <1>8, <1>12, <1>13, <3>1, EqmScale, Zenon
  <2>5. Eqm(cD, (g * y) * (1 - t), M)
    BY <1>7, <1>14, <2>1, <2>2, EqmTrans, Zenon
  <2>6. Eqm((g * y) * (1 - t), y, M)
    BY <2>3, <2>4
  <2> QED BY <1>7, <1>8, <1>14, <2>1, <2>5, <2>6, EqmTrans, Zenon
<1> HIDE DEF cD
<1>16. Eqm(cD, y, N)
  BY <1>7, <1>8, <1>14, <1>15, EqmDown DEF M
<1>17. i \in Nat /\ Eqm(N * i, 1, phi)
  <2>1. Ar!Inverse(N, phi) \in 0 .. phi - 1 /\ Eqm(N * Ar!Inverse(N, phi), 1, phi)
    BY <1>1, <1>7, InverseOf
  <2> QED BY <1>1, <2>1, PaiInverse
<1> HIDE DEF i, phi
<1>18. N > 0
  BY <1>1
<1>19. Pai!Exp(cD, i, N) \in 0 .. N - 1 /\ Pai!Exp(cD, i, N) \in Int
       /\ Eqm(Pai!Exp(cD, i, N), Pw(cD, i), N) /\ Pw(cD, i) \in Int
  BY <1>1, <1>14, <1>17, <1>18, PaiExpIs
<1>20. Eqm(Pw(cD, i), Pw(y, i), N)
  BY <1>7, <1>8, <1>14, <1>16, <1>17, PwEqm
<1>21. Pw(y, i) = Pw(x, N * i)
  BY <1>1, <1>7, <1>17, PwTimes DEF y
<1>22. Eqm(Pw(x, N * i), x, N)
  <2>1. PICK k \in Int : N * i = 1 + phi * k
    BY <1>17 DEF Eqm
  <2>2. CASE k >= 0
    <3>1. k \in Nat /\ phi * k \in Nat
      BY <1>1, <2>2
    <3> DEFINE z == Pw(x, phi)
    <3>2. z \in Int /\ Eqm(z, 1, N)
      BY <1>1, <1>3, <1>7, PwDef
    <3>3. Pw(x, 1 + phi * k) = x * Pw(x, phi * k)
      BY <1>7, <3>1, PwPlus, PwOne
    <3>4. Pw(x, phi * k) = Pw(z, k)
      BY <1>1, <1>7, <3>1, PwTimes
    <3> HIDE DEF z
    <3>5. Eqm(Pw(z, k), Pw(1, k), N) /\ Pw(1, k) = 1 /\ Pw(z, k) \in Int
      <4>1. Pw(z, k) \in Int
        BY <3>1, <3>2, PwDef
      <4>2. Eqm(Pw(z, k), Pw(1, k), N)
        BY <1>7, <3>1, <3>2, PwEqm
      <4> QED BY <3>1, <4>1, <4>2, PwOfOne
    <3>6. Eqm(Pw(z, k) * x, 1 * x, N)
      <4>1. Eqm(Pw(z, k), 1, N) /\ 1 \in Int
        BY <3>5
      <4> QED BY <1>7, <3>5, <4>1, EqmScale, Zenon
    <3>7. 1 * x = x /\ Pw(z, k) * x = x * Pw(z, k)
      BY <1>7, <3>5
    <3> QED BY <2>1, <3>3, <3>4, <3>6, <3>7
  <2>3. CASE k < 0
    <3>1. N * i >= 0
      BY <1>1, <1>17
    <3>2. phi * k <= -phi
      BY <1>1, <2>3
    <3>3. phi = 1 /\ N * i = 0
      BY <1>1, <1>7, <1>17, <2>1, <3>1, <3>2
    <3>4. FALSE
      <4>1. P - 1 \in Nat /\ R - 1 \in Nat /\ P - 1 > 0 /\ R - 1 > 0 /\ (P - 1) * (R - 1) = 1
        BY <1>1, <3>3
      <4>2. P = 2 /\ R = 2
        BY <1>1, <4>1
      <4> QED BY <1>2, <4>2
    <3> QED BY <3>4
  <2> QED BY <2>2, <2>3
<1>23. Eqm(Pai!Exp(cD, i, N), x, N)
  <2>1. Pw(y, i) \in Int
    BY <1>8, <1>17, PwDef
  <2>2. Eqm(Pai!Exp(cD, i, N), Pw(y, i), N)
    BY <1>7, <1>19, <1>20, <2>1, EqmTrans, Zenon
  <2> QED BY <1>7, <1>19, <1>21, <1>22, <2>1, <2>2, EqmTrans, Zenon
<1>24. Pai!Exp(cD, i, N) = x
  <2>1. x \in 0 .. N - 1
    BY <1>1, <1>a
  <2> QED BY <1>1, <1>19, <1>23, <2>1, EqmSmall
<1> QED BY <1>6, <1>24 DEF sk, c, N, i, cD, phi, M, t

-----------------------------------------------------------------------------
(* The inductive invariant: a job is one of its kind, and what `out` holds *)
(* is what the step of that kind computes.                                 *)

JobInv ==
    /\ job.kind = "vss" => job \in VssJobs
    /\ job.kind = "paillier" => job \in PaillierJobs
    /\ job.kind = "mta" => job \in MtaJobs
    /\ job.kind = "dlog" => job \in DLogJobs
    /\ job.kind = "ddh" => job \in DDHJobs
    /\ job.kind = "st" => job \in STJobs
    /\ job.kind = "pdl" => job \in PDLJobs
    /\ job.kind = "dln" => job \in DlnJobs
    /\ job.kind = "paiproof" => job \in PaiProofJobs
    /\ job.kind = "forge" => job \in ForgeJobs
    /\ job.kind = "ddhforge" => job \in ForgeDDHJobs

\* Shares exist only for ids that Create accepted.
VssInv ==
    /\ job.kind = "vss" /\ pc = "shared" => CreateOk(job.t, job.ids)
    /\ Done("vss") => /\ CreateOk(job.t, job.ids)
                      /\ out.holders \in SUBSET DOMAIN job.ids
                      /\ out.secret = ReConstruct({Shares[i] : i \in out.holders})

\* The conversion: what Alice sent, what Bob answered, how it ended.
MtaInv ==
    job.kind = "mta" =>
        LET alice == AliceOut(job)
            bob == BobOut(job, alice)
        IN  /\ pc = "bob" => out = alice
            /\ pc = "alice" => out = bob /\ bob.stop = "no"
            /\ pc = "done" => \/ out = bob /\ bob.stop # "no"
                              \/ out = AliceEndOut(job, bob) /\ bob.stop = "no"

PaillierInv == Done("paillier") => out = PaillierOut(job)
DLogInv == Done("dlog") => out = DLogOut(job) /\ DLogX(job) # Nil
DDHInv == Done("ddh") => out = DDHOut(job)
STInv == Done("st") => out = STOut(job) /\ ~(STOut(job).T < 0)
PDLInv == Done("pdl") => out = PDLOut(job)
DlnInv == Done("dln") => out = DlnOut(job) /\ DlnParams(job).Beta # Nil
PaiProofInv ==
    Done("paiproof") =>
        out = [ok |-> Pai!VerifyProof(job.P * job.R, job.xs,
                                      Pai!Proof(Pai!KeyPair(job.P, job.R), job.xs), job.prms)]
ForgeInv == Done("forge") => out = AnswerDLog(job, job.t, job.salt)
DDHForgeInv == Done("ddhforge") => out = [answered |-> DDHAnswered(job)]

Inv ==
    /\ JobInv /\ VssInv /\ MtaInv /\ PaillierInv /\ DLogInv /\ DDHInv /\ STInv /\ PDLInv
    /\ DlnInv /\ PaiProofInv /\ ForgeInv /\ DDHForgeInv

\* The kind of a job tells its set.
LEMMA JobInit == ASSUME Init PROVE JobInv
<1>1. CASE job \in VssJobs
  BY <1>1, VssJobsAssumption DEF JobInv
<1>2. CASE job \in PaillierJobs
  BY <1>2, PaillierJobsAssumption DEF JobInv
<1>3. CASE job \in MtaJobs
  BY <1>3, MtaJobsAssumption DEF JobInv
<1>4. CASE job \in DLogJobs
  <2>1. job.kind = "dlog"
    BY <1>4, PointJobsAssumption
  <2> QED BY <1>4, <2>1 DEF JobInv
<1>5. CASE job \in DDHJobs
  <2>1. job.kind = "ddh"
    BY <1>5, PointJobsAssumption
  <2> QED BY <1>5, <2>1 DEF JobInv
<1>6. CASE job \in STJobs
  <2>1. job.kind = "st"
    BY <1>6, PointJobsAssumption
  <2> QED BY <1>6, <2>1 DEF JobInv
<1>7. CASE job \in PDLJobs
  BY <1>7, PDLJobsAssumption DEF JobInv
<1>8. CASE job \in DlnJobs
  <2>1. job.kind = "dln"
    BY <1>8, DlnJobsAssumption, Zenon
  <2> QED BY <1>8, <2>1 DEF JobInv
<1>9. CASE job \in PaiProofJobs
  BY <1>9, PaiProofJobsAssumption DEF JobInv
<1>10. CASE job \in ForgeJobs
  <2>1. job.kind = "forge"
    BY <1>10, ForgeJobsAssumption
  <2> QED BY <1>10, <2>1 DEF JobInv
<1>11. CASE job \in ForgeDDHJobs
  <2>1. job.kind = "ddhforge"
    BY <1>11, ForgeJobsAssumption
  <2> QED BY <1>11, <2>1 DEF JobInv
<1>12. CASE job \in ModulusJobs
  <2>1. job.kind = "modulus"
    BY <1>12, ForgeJobsAssumption
  <2> QED BY <2>1 DEF JobInv
<1> QED BY <1>1, <1>2, <1>3, <1>4, <1>5, <1>6, <1>7, <1>8, <1>9, <1>10, <1>11, <1>12 DEF Init

LEMMA InvInit == ASSUME Init PROVE Inv
<1>1. pc = "ready"
  BY DEF Init
<1> QED BY <1>1, JobInit DEF Inv, Done, VssInv, MtaInv, PaillierInv, DLogInv, DDHInv, STInv, PDLInv,
                              DlnInv, PaiProofInv, ForgeInv, DDHForgeInv

\* What a step of another kind leaves true.
LEMMA OtherKind ==
    ASSUME Inv, UNCHANGED job
    PROVE  /\ JobInv'
           /\ job.kind # "vss" => VssInv'
           /\ job.kind # "mta" => MtaInv'
           /\ job.kind # "paillier" => PaillierInv'
           /\ job.kind # "dlog" => DLogInv'
           /\ job.kind # "ddh" => DDHInv'
           /\ job.kind # "st" => STInv'
           /\ job.kind # "pdl" => PDLInv'
           /\ job.kind # "dln" => DlnInv'
           /\ job.kind # "paiproof" => PaiProofInv'
           /\ job.kind # "forge" => ForgeInv'
           /\ job.kind # "ddhforge" => DDHForgeInv'
BY DEF Inv, JobInv, Done, VssInv, MtaInv, PaillierInv, DLogInv, DDHInv, STInv, PDLInv, DlnInv, PaiProofInv,
       ForgeInv, DDHForgeInv

LEMMA InvStep == ASSUME Inv, [Next]_vars PROVE Inv'
<1>1. CASE UNCHANGED vars
  BY <1>1 DEF vars, Inv, JobInv, Done, VssInv, Shares, MtaInv, PaillierInv, DLogInv, DDHInv, STInv, PDLInv, DlnInv,
              PaiProofInv, ForgeInv, DDHForgeInv
<1>2. CASE Create
  <2>1. UNCHANGED job /\ job.kind = "vss" /\ pc' \in {"shared", "refused"} /\ (pc' = "shared" => CreateOk(job.t, job.ids))
    BY <1>2 DEF Create, Step
  <2>2. VssInv'
    BY <2>1 DEF VssInv, Done
  <2> QED BY <2>1, <2>2, OtherKind DEF Inv
<1>3. CASE Combine
  <2>1. PICK S \in SUBSET (DOMAIN job.ids) \ {{}} :
           Step("vss", "shared", "done", [holders |-> S, secret |-> ReConstruct({Shares[i] : i \in S})])
    BY <1>3 DEF Combine
  <2>2. UNCHANGED job /\ job.kind = "vss" /\ pc = "shared" /\ pc' = "done"
    BY <2>1 DEF Step
  <2>3. VssInv'
    <3>1. CreateOk(job.t, job.ids)
      BY <2>2 DEF Inv, VssInv
    <3>2. Shares' = Shares
      BY <2>2 DEF Shares
    <3>3. out'.holders = S /\ out'.secret = ReConstruct({Shares[i] : i \in S})
      BY <2>1 DEF Step
    <3> QED BY <2>2, <3>1, <3>2, <3>3 DEF VssInv, Done
  <2> QED BY <2>2, <2>3, OtherKind DEF Inv
<1>4. CASE UsePaillier
  <2>1. UNCHANGED job /\ job.kind = "paillier" /\ PaillierInv'
    BY <1>4 DEF UsePaillier, Step, PaillierInv
  <2> QED BY <2>1, OtherKind DEF Inv
<1>5. CASE AliceInit
  <2>1. UNCHANGED job /\ job.kind = "mta" /\ MtaInv'
    BY <1>5 DEF AliceInit, Step, MtaInv
  <2> QED BY <2>1, OtherKind DEF Inv
<1>6. CASE BobMid
  <2> DEFINE r == BobOut(job, out)
  <2>1. Step("mta", "bob", IF r.stop = "no" THEN "alice" ELSE "done", r)
    BY <1>6 DEF BobMid
  <2>2. UNCHANGED job /\ job.kind = "mta" /\ pc = "bob" /\ out' = r /\ pc' = IF r.stop = "no" THEN "alice" ELSE "done"
    BY <2>1 DEF Step
  <2>3. out = AliceOut(job)
    BY <2>2 DEF Inv, MtaInv
  <2>4. MtaInv'
    BY <2>2, <2>3 DEF MtaInv
  <2> QED BY <2>2, <2>4, OtherKind DEF Inv
<1>7. CASE AliceEnd
  <2>1. UNCHANGED job /\ job.kind = "mta" /\ pc = "alice" /\ pc' = "done" /\ out' = AliceEndOut(job, out)
    BY <1>7 DEF AliceEnd, Step
  <2>2. out = BobOut(job, AliceOut(job)) /\ BobOut(job, AliceOut(job)).stop = "no"
    BY <2>1 DEF Inv, MtaInv
  <2>3. MtaInv'
    BY <2>1, <2>2 DEF MtaInv
  <2> QED BY <2>1, <2>3, OtherKind DEF Inv
<1>8. CASE ProveDLog
  <2>1. UNCHANGED job /\ job.kind = "dlog" /\ DLogInv'
    BY <1>8 DEF ProveDLog, Step, DLogInv, Done
  <2> QED BY <2>1, OtherKind DEF Inv
<1>9. CASE ProveDDH
  <2>1. UNCHANGED job /\ job.kind = "ddh" /\ DDHInv'
    BY <1>9 DEF ProveDDH, Step, DDHInv
  <2> QED BY <2>1, OtherKind DEF Inv
<1>10. CASE ProveST
  <2>1. UNCHANGED job /\ job.kind = "st" /\ STInv'
    BY <1>10 DEF ProveST, Step, STInv, Done
  <2> QED BY <2>1, OtherKind DEF Inv
<1>11. CASE ProvePDL
  <2>1. UNCHANGED job /\ job.kind = "pdl" /\ PDLInv'
    BY <1>11 DEF ProvePDL, Step, PDLInv
  <2> QED BY <2>1, OtherKind DEF Inv
<1>12. CASE ProveDln
  <2>1. UNCHANGED job /\ job.kind = "dln" /\ DlnInv'
    BY <1>12 DEF ProveDln, Step, DlnInv, Done
  <2> QED BY <2>1, OtherKind DEF Inv
<1>13. CASE ProvePaillier
  <2>1. UNCHANGED job /\ job.kind = "paiproof" /\ PaiProofInv'
    BY <1>13 DEF ProvePaillier, Step, PaiProofInv
  <2> QED BY <2>1, OtherKind DEF Inv
<1>14. CASE ForgeDLog
  <2>1. UNCHANGED job /\ job.kind = "forge" /\ ForgeInv'
    BY <1>14 DEF ForgeDLog, Step, ForgeInv
  <2> QED BY <2>1, OtherKind DEF Inv
<1>15. CASE ForgeDDH
  <2>1. UNCHANGED job /\ job.kind = "ddhforge" /\ DDHForgeInv'
    BY <1>15 DEF ForgeDDH, Step, DDHForgeInv
  <2> QED BY <2>1, OtherKind DEF Inv
<1>16. CASE ForgePaillier
  <2>1. UNCHANGED job /\ job.kind = "modulus"
    BY <1>16 DEF ForgePaillier, Step
  <2> QED BY <2>1, OtherKind DEF Inv
<1> QED BY <1>1, <1>2, <1>3, <1>4, <1>5, <1>6, <1>7, <1>8, <1>9, <1>10, <1>11, <1>12, <1>13, <1>14, <1>15, <1>16 DEF Next

LEMMA Invariance == Spec => []Inv
<1>1. Inv /\ [Next]_vars => Inv'
  BY InvStep
<1> QED BY <1>1, InvInit, PTL DEF Spec

-----------------------------------------------------------------------------
(* Secret sharing.                                                         *)

\* Whatever ids a dealer is given and whatever polynomial it draws, any more than
\* t holders of the shares that Create made recover the secret.
THEOREM EnoughSharesRecoverHolds == Spec => []EnoughSharesRecover
<1>1. ASSUME Inv PROVE EnoughSharesRecover
  <2> SUFFICES ASSUME Done("vss"), Cardinality(out.holders) > job.t PROVE out.secret = job.poly[0]
    BY DEF EnoughSharesRecover
  <2>1. job \in VssJobs
    BY <1>1 DEF Inv, JobInv, Done
  <2>2. CreateOk(job.t, job.ids) /\ out.holders \in SUBSET DOMAIN job.ids
        /\ out.secret = ReConstruct({Shares[i] : i \in out.holders})
    BY <1>1 DEF Inv, VssInv
  <2>3. job.t \in Nat /\ IsFiniteSet(DOMAIN job.ids) /\ IntOn(job.ids, DOMAIN job.ids) /\ job.poly \in [0 .. job.t -> Zq]
    BY <2>1, VssJobsAssumption DEF IntOn
  <2>4. job.t < Cardinality(out.holders)
    <3>1. IsFiniteSet(out.holders)
      BY <2>2, <2>3, FS_Subset
    <3> QED BY <2>3, <3>1, FS_CardinalityType
  <2> QED BY <2>2, <2>3, <2>4, SharesRecover DEF Shares
<1> QED BY <1>1, Invariance, PTL

\* The weights PrepareForSigning makes of any more than t of the shares add up to
\* the secret, and each is the logarithm of the W_i that the others compute.
THEOREM WeightsAddUpHolds == Spec => []WeightsAddUp
<1>1. ASSUME Inv PROVE WeightsAddUp
  <2> DEFINE H == out.holders
             w(i) == SigningWeight(i, H, job.ids, Shares[i].share)
             bigXs == [i \in H |-> evaluatePolynomial(job.t, job.poly, job.ids[i])]
  <2> SUFFICES ASSUME Done("vss"), Cardinality(H) > job.t
               PROVE  /\ SumQ([i \in H |-> w(i)]) = job.poly[0]
                      /\ \A i \in H : w(i) = SigningBigWs(H, job.ids, bigXs)[i]
    BY DEF WeightsAddUp
  <2>1. job \in VssJobs
    BY <1>1 DEF Inv, JobInv, Done
  <2>2. CreateOk(job.t, job.ids) /\ H \in SUBSET DOMAIN job.ids
    BY <1>1 DEF Inv, VssInv
  <2>3. job.t \in Nat /\ IsFiniteSet(DOMAIN job.ids) /\ IntOn(job.ids, DOMAIN job.ids) /\ job.poly \in [0 .. job.t -> Zq]
    BY <2>1, VssJobsAssumption DEF IntOn
  <2>4. IsFiniteSet(H)
    BY <2>2, <2>3, FS_Subset
  <2>5. job.t < Cardinality(H)
    BY <2>3, <2>4, FS_CardinalityType
  <2>6. \A i \in H : Shares[i].share = bigXs[i]
    BY <2>2 DEF Shares, CreateShares
  <2>7. \A i \in H : w(i) = SigningWeight(i, H, job.ids, bigXs[i])
    BY <2>6
  <2>8. SumQ([i \in H |-> SigningWeight(i, H, job.ids, bigXs[i])]) = job.poly[0] % Q
    <3>1. Distinct(job.ids, H)
      BY <2>2, <2>3 DEF Distinct, CreateOk, CheckIndexes, IntOn
    <3>2. IntOn(job.poly, 0 .. job.t)
      BY <2>3, QAssumption DEF IntOn, Zq
    <3>3. \A i \in H : bigXs[i] = evaluatePolynomial(job.t, job.poly, job.ids[i])
      OBVIOUS
    <3> HIDE DEF bigXs, H
    <3> QED BY <2>3, <2>4, <2>5, <3>1, <3>2, <3>3, WeightsRecover
  <2>9. job.poly[0] % Q = job.poly[0]
    <3>1. job.poly[0] \in 0 .. Q - 1
      BY <2>3 DEF Zq
    <3> QED BY <3>1, QAssumption
  <2>10. [i \in H |-> w(i)] = [i \in H |-> SigningWeight(i, H, job.ids, bigXs[i])]
    BY <2>7
  <2>11. \A i \in H : SigningBigWs(H, job.ids, bigXs)[i] = SigningWeight(i, H, job.ids, bigXs[i])
    <3> HIDE DEF bigXs, H
    <3> QED BY DEF SigningBigWs, SigningWeight
  <2>12. SumQ([i \in H |-> w(i)]) = job.poly[0]
    BY <2>8, <2>9, <2>10, Zenon
  <2> QED BY <2>7, <2>11, <2>12
<1> QED BY <1>1, Invariance, PTL

-----------------------------------------------------------------------------
(* Paillier, as a specification.                                           *)

\* The numbers that the generators of units return.
LEMMA GroupIs ==
    ASSUME NEW n \in Nat, NEW S, InGroup(n, S), NEW v \in S
    PROVE  v \in Nat /\ v \in Int /\ v # 0 /\ v \in 1 .. n - 1 /\ Unit(v, n)
<1>1. v \in Nat /\ 1 <= v /\ v < n /\ Pai!GCD(v, n) = 1
  BY DEF InGroup, Pai!IsNumberInMultiplicativeGroup
<1>2. Unit(v, n)
  BY <1>1, PaiGcd, GcdUnit
<1> QED BY <1>1, <1>2

\* What is not encrypted is refused by everything after it.
LEMMA NilRefused ==
    ASSUME NEW P, NEW R, KeyOk(P, R), NEW m, NEW c
    PROVE  LET sk == Pai!KeyPair(P, R)
           IN  /\ Pai!Decrypt(sk, Pai!HomoAdd(sk.N, -1, c)) = -1
               /\ Pai!Decrypt(sk, Pai!HomoMult(sk.N, m, -1)) = -1
               /\ Pai!DecryptAndRecoverRandomness(sk, -1).m = -1
<1> DEFINE sk == Pai!KeyPair(P, R)
<1>1. ASSUME NEW n PROVE ~Pai!IsInInterval(-1, n)
  BY DEF Pai!IsInInterval
<1>2. Pai!Decrypt(sk, -1) = -1
  BY <1>1 DEF Pai!Decrypt, Pai!Nil
<1>3. Pai!HomoAdd(sk.N, -1, c) = -1
  BY <1>1 DEF Pai!HomoAdd, Pai!Nil
<1>4. Pai!HomoMult(sk.N, m, -1) = -1
  BY <1>1 DEF Pai!HomoMult, Pai!Nil
<1>5. Pai!DecryptAndRecoverRandomness(sk, -1).m = -1
  BY <1>2 DEF Pai!DecryptAndRecoverRandomness
<1> QED BY <1>2, <1>3, <1>4, <1>5

LEMMA PaillierJob ==
    ASSUME NEW j \in PaillierJobs
    PROVE  LET N == j.P * j.R
               o == PaillierOut(j)
               ok == j.m1 \in 0 .. N - 1 /\ j.x1 # 0
           IN  IF ok THEN /\ o.rec = [m |-> j.m1, x |-> j.x1]
                          /\ o.sum = (j.m1 + j.m2) % N
                          /\ o.prod = (j.m1 * j.m2) % N
               ELSE o.c1 = Nil /\ o.sum = Nil /\ o.prod = Nil /\ o.rec.m = Nil
<1> DEFINE P == j.P
           R == j.R
           N == P * R
           sk == Pai!KeyPair(P, R)
           m1 == j.m1
           m2 == j.m2
           c1 == Pai!EncryptWithChosenRandomness(N, m1, j.x1)
           c2 == Pai!EncryptWithChosenRandomness(N, m2, j.x2)
           o == PaillierOut(j)
           ok == m1 \in 0 .. N - 1 /\ j.x1 # 0
<1>1. KeyOk(P, R) /\ m1 \in Int /\ m2 \in 0 .. N - 1 /\ (j.x1 = 0 \/ InGroup(N, {j.x1})) /\ InGroup(N, {j.x2})
  BY PaillierJobsAssumption
<1>2. N \in Nat /\ N > 1 /\ sk.N = N
  BY <1>1, KeyIs
<1>3. o.c1 = c1 /\ o.sum = Pai!Decrypt(sk, Pai!HomoAdd(N, c1, c2))
      /\ o.prod = Pai!Decrypt(sk, Pai!HomoMult(N, m2, c1))
      /\ o.rec = Pai!DecryptAndRecoverRandomness(sk, c1)
  BY <1>2 DEF PaillierOut
<1> HIDE DEF P, R, m1, m2, o
<1>4. CASE ok
  <2>1. j.x1 \in Int /\ j.x1 # 0 /\ j.x1 \in 1 .. N - 1 /\ Unit(j.x1, N)
    <3> HIDE DEF N
    <3> QED BY <1>1, <1>2, <1>4, GroupIs
  <2>2. j.x2 \in Int /\ j.x2 # 0 /\ Unit(j.x2, N)
    <3> HIDE DEF N
    <3> QED BY <1>1, <1>2, GroupIs
  <2>3. m1 \in 0 .. N - 1
    BY <1>4
  <2>4. c1 \in 0 .. N * N - 1 /\ c1 \in Int /\ Cipher(c1, m1, N)
    <3> HIDE DEF N
    <3> QED BY <1>2, <2>1, <2>3, EncryptCipher
  <2>5. c2 \in 0 .. N * N - 1 /\ c2 \in Int /\ Cipher(c2, m2, N)
    <3> HIDE DEF N
    <3> QED BY <1>1, <1>2, <2>2, EncryptCipher
  <2> HIDE DEF c2
  <2>6. o.rec = [m |-> m1, x |-> j.x1]
    BY <1>1, <1>3, <2>1, <2>3, RecoverIs
  <2> HIDE DEF c1
  <2>7. m1 \in Nat /\ m2 \in Nat
    <3> HIDE DEF N
    <3> QED BY <1>1, <1>2, <2>3
  <2> DEFINE cs == Pai!HomoAdd(N, c1, c2)
             cp == Pai!HomoMult(N, m2, c1)
  <2>8. cs \in 0 .. N * N - 1 /\ cs \in Int /\ Cipher(cs, m1 + m2, N)
    <3> HIDE DEF N
    <3> QED BY <1>2, <2>4, <2>5, <2>7, HomoAddCipher
  <2>9. cp \in 0 .. N * N - 1 /\ cp \in Int /\ Cipher(cp, m1 * m2, N)
    <3> HIDE DEF N
    <3> QED BY <1>1, <1>2, <2>4, <2>7, HomoMultCipher
  <2> HIDE DEF cs, cp
  <2> DEFINE s == m1 + m2
             p == m1 * m2
  <2>a. s \in Nat /\ p \in Nat
    BY <2>7
  <2>b. Cipher(cs, s, N) /\ Cipher(cp, p, N)
    BY <2>8, <2>9
  <2> HIDE DEF s, p
  <2>10. Pai!Decrypt(sk, cs) = s % N
    BY <1>1, <2>8, <2>a, <2>b, DecryptIs
  <2>11. Pai!Decrypt(sk, cp) = p % N
    BY <1>1, <2>9, <2>a, <2>b, DecryptIs
  <2>12. o.sum = (m1 + m2) % N /\ o.prod = (m1 * m2) % N
    BY <1>3, <2>10, <2>11 DEF cs, cp, s, p
  <2> QED BY <1>4, <2>6, <2>12 DEF P, R, m1, m2, o
<1>5. CASE ~ok
  <2>1. c1 = -1
    <3>1. j.x1 = 0 \/ ~Pai!IsInInterval(m1, N)
      <4> HIDE DEF N
      <4> QED BY <1>1, <1>2, <1>5 DEF Pai!IsInInterval
    <3> QED BY <3>1 DEF Pai!EncryptWithChosenRandomness, Pai!Nil
  <2> HIDE DEF c1, c2, N
  <2>2. o.c1 = -1 /\ o.sum = -1 /\ o.prod = -1 /\ o.rec.m = -1
    BY <1>1, <1>2, <1>3, <2>1, NilRefused
  <2> QED BY <1>5, <2>2 DEF P, R, m1, m2, o, N, Nil
<1> QED BY <1>4, <1>5

\* For every key of GenerateKeyPair, every plaintext and every randomness:
\* decryption undoes encryption and recovers the randomness, HomoAdd and HomoMult
\* are addition and multiplication of plaintexts mod N, and what is out of range
\* is refused all the way.
THEOREM PaillierRoundTripHolds == Spec => []PaillierRoundTrip
<1>1. ASSUME Inv PROVE PaillierRoundTrip
  <2> SUFFICES ASSUME Done("paillier") PROVE PaillierRoundTrip
    BY DEF PaillierRoundTrip
  <2>1. job \in PaillierJobs /\ out = PaillierOut(job)
    BY <1>1 DEF Inv, JobInv, PaillierInv, Done
  <2> QED BY <2>1, PaillierJob DEF PaillierRoundTrip
<1> QED BY <1>1, Invariance, PTL

Ha == INSTANCE TssHash

-----------------------------------------------------------------------------
(* Hashing: a digest is a number below DigestRange, and a number that is   *)
(* not 0 has a byte that is not 0.                                         *)

LEMMA FunSeq == ASSUME NEW S, NEW n \in Nat, NEW f \in [1 .. n -> S] PROVE f \in Seq(S)
OBVIOUS

\* The digits of a number.
LEMMA DigitsIs ==
    \A n \in Nat : /\ Ha!digits[n] \in Seq(Int)
                   /\ Ha!digits[n] = IF n = 0 THEN <<>> ELSE Append(Ha!digits[n \div 4], n % 4)
<1> DEFINE D == Nat
           V == Seq(Int)
           m == [n \in Nat |-> n]
           p == [n \in Nat |-> n \div 4]
           b == [n \in Nat |-> <<>>]
           H == [x \in D \X V |-> Append(x[2], x[1] % 4)]
           Eq(g) == g = [n \in Nat |-> IF n = 0 THEN <<>> ELSE Append(g[n \div 4], n % 4)]
           dg == CHOOSE g : Eq(g)
<1>1. \A n \in Nat : n \div 4 \in Nat /\ (n # 0 => n \div 4 < n) /\ n % 4 \in Int
  OBVIOUS
<1>2. Decreases(D, m, p)
  BY <1>1 DEF Decreases
<1>3. b \in [D -> V] /\ H \in [D \X V -> V]
  <2>1. ASSUME NEW x \in D \X V PROVE Append(x[2], x[1] % 4) \in V
    BY <1>1
  <2> QED BY <2>1
<1>4. PICK f \in [D -> V] : Recurs(f, D, m, p, b, H)
  <2> HIDE DEF D, V, m, p, b, H
  <2> QED BY <1>2, <1>3, RecExists
<1>5. Eq(f)
  <2>1. ASSUME NEW n \in Nat PROVE f[n] = IF n = 0 THEN <<>> ELSE Append(f[n \div 4], n % 4)
    <3>1. f[n] = IF m[n] = 0 THEN b[n] ELSE H[<<n, f[p[n]]>>]
      BY <1>4 DEF Recurs
    <3>2. <<n, f[n \div 4]>> \in D \X V
      BY <1>1, <1>4
    <3> QED BY <3>1, <3>2
  <2> QED BY <1>4, <2>1
<1>6. Eq(dg)
  <2> HIDE DEF Eq
  <2> QED BY <1>5
<1>7. Ha!digits = dg
  BY Zenon DEF Ha!digits, Ha!ByteBase
<1>8. \A n \in Nat : dg[n] = IF n = 0 THEN <<>> ELSE Append(dg[n \div 4], n % 4)
  <2> HIDE DEF dg
  <2> QED BY <1>6
<1> HIDE DEF dg
<1>9. \A n \in Nat : dg[n] \in V
  <2> DEFINE S == {n \in Nat : dg[n] \notin V}
  <2> SUFFICES ASSUME S # {} PROVE FALSE
    OBVIOUS
  <2>1. PICK n \in S : \A k \in S : n <= k
    <3> HIDE DEF V
    <3>1. S \in SUBSET Nat
      OBVIOUS
    <3> QED BY <3>1, Least
  <2>2. n \in Nat /\ dg[n] \notin V
    OBVIOUS
  <2>3. n # 0
    <3>1. dg[0] = <<>> /\ <<>> \in V
      BY <1>8
    <3> QED BY <2>2, <3>1
  <2>4. n \div 4 \in Nat /\ n \div 4 < n
    BY <1>1, <2>2, <2>3
  <2>5. dg[n \div 4] \in V
    BY <2>1, <2>2, <2>4
  <2>6. dg[n] = Append(dg[n \div 4], n % 4)
    BY <1>8, <2>2, <2>3
  <2> QED BY <1>1, <2>2, <2>5, <2>6
<1> QED BY <1>7, <1>8, <1>9

\* A number that is not 0 has a digit that is not 0.
LEMMA DigitsNonZero ==
    \A n \in Nat : n # 0 => \E i \in DOMAIN Ha!digits[n] : Ha!digits[n][i] # 0
<1> DEFINE S == {n \in Nat : n # 0 /\ ~\E i \in DOMAIN Ha!digits[n] : Ha!digits[n][i] # 0}
<1> SUFFICES ASSUME S # {} PROVE FALSE
  OBVIOUS
<1>1. PICK n \in S : \A k \in S : n <= k
  <2>1. S \in SUBSET Nat
    OBVIOUS
  <2> QED BY <2>1, Least
<1>2. n \in Nat /\ n # 0 /\ ~\E i \in DOMAIN Ha!digits[n] : Ha!digits[n][i] # 0
  OBVIOUS
<1>3. n \div 4 \in Nat /\ n \div 4 < n /\ n % 4 \in Int
  BY <1>2
<1> DEFINE h == Ha!digits[n \div 4]
           d == Ha!digits[n]
<1>4. h \in Seq(Int) /\ d = Append(h, n % 4)
  BY <1>2, <1>3, DigitsIs
<1>5. n \div 4 \notin S
  BY <1>1, <1>2, <1>3
<1> HIDE DEF S
<1>6. CASE n % 4 # 0
  <2>1. Len(d) = Len(h) + 1 /\ d[Len(h) + 1] = n % 4 /\ Len(h) + 1 \in DOMAIN d
    BY <1>3, <1>4
  <2> QED BY <1>2, <1>6, <2>1
<1>7. CASE n % 4 = 0
  <2>1. n \div 4 # 0
    BY <1>2, <1>7
  <2>2. PICK i \in DOMAIN h : h[i] # 0
    BY <1>3, <1>5, <2>1 DEF S
  <2>3. i \in DOMAIN d /\ d[i] = h[i]
    BY <1>3, <1>4, <2>2
  <2> QED BY <1>2, <2>2, <2>3
<1> QED BY <1>6, <1>7

LEMMA BytesIs ==
    ASSUME NEW n \in Int
    PROVE  Ha!Bytes(n) \in Seq(Int) /\ (Ha!NonEmptyBytes(Ha!Bytes(n)) <=> n # 0)
<1> DEFINE k == IF n < 0 THEN -n ELSE n
<1>1. k \in Nat /\ (k = 0 <=> n = 0) /\ Ha!Bytes(n) = Ha!digits[k]
  BY DEF Ha!Bytes
<1> HIDE DEF k
<1>2. Ha!digits[k] \in Seq(Int)
  BY <1>1, DigitsIs
<1>3. CASE k = 0
  <2>1. Ha!digits[k] = <<>>
    BY <1>1, <1>3, DigitsIs
  <2> QED BY <1>1, <1>2, <1>3, <2>1 DEF Ha!NonEmptyBytes
<1>4. CASE k # 0
  BY <1>1, <1>2, <1>4, DigitsNonZero DEF Ha!NonEmptyBytes
<1> QED BY <1>3, <1>4

\* What is hashed is a sequence of numbers.
LEMMA ConcatIs ==
    ASSUME NEW s \in Seq(Seq(Int)) PROVE Ha!Concat(s) \in Seq(Int)
<1> DEFINE D == 0 .. Len(s)
           V == Seq(Int)
           m == [i \in D |-> i]
           p == [i \in D |-> IF i = 0 THEN 0 ELSE i - 1]
           b == [i \in D |-> <<>>]
           H == [x \in D \X V |-> IF x[1] = 0 THEN <<>> ELSE x[2] \o s[x[1]]]
           Eq(g) == g = [i \in D |-> IF i = 0 THEN <<>> ELSE g[i - 1] \o s[i]]
           fl == CHOOSE g : Eq(g)
<1>0. Len(s) \in Nat /\ (\A i \in D : i # 0 => s[i] \in V) /\ <<>> \in V
  OBVIOUS
<1>1. Decreases(D, m, p)
  BY <1>0 DEF Decreases
<1>2. b \in [D -> V] /\ H \in [D \X V -> V]
  <2>1. ASSUME NEW x \in D \X V, x[1] # 0 PROVE x[2] \o s[x[1]] \in V
    <3>1. x[2] \in Seq(Int) /\ s[x[1]] \in Seq(Int)
      BY <1>0, <2>1
    <3> QED BY <3>1
  <2> QED BY <1>0, <2>1
<1>3. PICK f \in [D -> V] : Recurs(f, D, m, p, b, H)
  <2> HIDE DEF D, V, m, p, b, H
  <2> QED BY <1>1, <1>2, RecExists
<1>4. Eq(f)
  <2>1. ASSUME NEW i \in D PROVE f[i] = IF i = 0 THEN <<>> ELSE f[i - 1] \o s[i]
    <3>1. f[i] = IF m[i] = 0 THEN b[i] ELSE H[<<i, f[p[i]]>>]
      BY <1>3 DEF Recurs
    <3>2. CASE i = 0
      BY <3>1, <3>2
    <3>3. CASE i # 0
      <4>1. i - 1 \in D /\ m[i] # 0 /\ p[i] = i - 1
        BY <1>0, <3>3
      <4>2. <<i, f[i - 1]>> \in D \X V
        BY <1>3, <4>1
      <4>3. H[<<i, f[i - 1]>>] = f[i - 1] \o s[i]
        BY <3>3, <4>2
      <4> QED BY <3>1, <3>3, <4>1, <4>3
    <3> QED BY <3>2, <3>3
  <2> QED BY <1>3, <2>1
<1>5. Eq(fl)
  <2> HIDE DEF Eq
  <2> QED BY <1>4
<1>6. Ha!Concat(s) = fl[Len(s)]
  BY Zenon DEF Ha!Concat
<1> HIDE DEF fl
<1>7. \A i \in D : fl[i] = IF i = 0 THEN <<>> ELSE fl[i - 1] \o s[i]
  BY <1>5
<1>8. \A i \in D : fl[i] \in V
  <2> DEFINE S == {i \in D : fl[i] \notin V}
  <2> SUFFICES ASSUME S # {} PROVE FALSE
    OBVIOUS
  <2>1. PICK i \in S : \A k \in S : i <= k
    <3> HIDE DEF V
    <3>1. S \in SUBSET Nat
      BY <1>0
    <3> QED BY <3>1, Least
  <2>2. i \in D /\ fl[i] \notin V
    OBVIOUS
  <2>3. i # 0
    BY <1>0, <1>7, <2>2
  <2>4. i - 1 \in D /\ fl[i - 1] \in V
    BY <1>0, <2>1, <2>2, <2>3
  <2>5. fl[i] = fl[i - 1] \o s[i] /\ s[i] \in Seq(Int)
    BY <1>0, <1>7, <2>2, <2>3
  <2> QED BY <2>2, <2>4, <2>5
<1> QED BY <1>0, <1>6, <1>8

\* The digest of numbers is below DigestRange.
LEMMA DigestIs ==
    ASSUME NEW salt \in Nat, NEW s \in Seq(Int)
    PROVE  Ha!Digest(salt, s) \in Nat /\ Ha!Digest(salt, s) < 8
<1> DEFINE D == 0 .. Len(s)
           nx(a, i) == (a * 5 + s[i] + 1) % 1009
           m == [i \in D |-> i]
           p == [i \in D |-> IF i = 0 THEN 0 ELSE i - 1]
           b == [i \in D |-> 0]
           H == [x \in D \X Int |-> IF x[1] = 0 THEN 0 ELSE nx(x[2], x[1])]
           Eq(g) == g = [i \in D |-> IF i = 0 THEN 0 ELSE nx(g[i - 1], i)]
           ac == CHOOSE g : Eq(g)
<1>0. Len(s) \in Nat /\ \A i \in D : i # 0 => s[i] \in Int
  OBVIOUS
<1>1. \A i \in D, a \in Int : i # 0 => nx(a, i) \in Int
  BY <1>0
<1> HIDE DEF nx
<1>2. Decreases(D, m, p)
  BY <1>0 DEF Decreases
<1>3. b \in [D -> Int] /\ H \in [D \X Int -> Int]
  BY <1>1
<1>4. PICK f \in [D -> Int] : Recurs(f, D, m, p, b, H)
  <2> HIDE DEF D, m, p, b, H
  <2> QED BY <1>2, <1>3, RecExists
<1>5. Eq(f)
  <2>1. ASSUME NEW i \in D PROVE f[i] = IF i = 0 THEN 0 ELSE nx(f[i - 1], i)
    <3>1. f[i] = IF m[i] = 0 THEN b[i] ELSE H[<<i, f[p[i]]>>]
      BY <1>4 DEF Recurs
    <3>2. CASE i = 0
      BY <3>1, <3>2
    <3>3. CASE i # 0
      <4>1. i - 1 \in D /\ m[i] # 0 /\ p[i] = i - 1
        BY <1>0, <3>3
      <4>2. H[<<i, f[i - 1]>>] = nx(f[i - 1], i)
        BY <1>4, <3>3, <4>1
      <4> QED BY <3>1, <3>3, <4>1, <4>2
    <3> QED BY <3>2, <3>3
  <2> QED BY <1>4, <2>1
<1>6. Eq(ac)
  <2> HIDE DEF Eq
  <2> QED BY <1>5
<1>7. Ha!Digest(salt, s) = (salt + ac[Len(s)]) % 8
  BY Zenon DEF Ha!Digest, Ha!DigestRange, nx
<1> HIDE DEF ac
<1>8. \A i \in D : ac[i] = IF i = 0 THEN 0 ELSE nx(ac[i - 1], i)
  BY <1>6
<1>9. \A i \in D : ac[i] \in Int
  <2> DEFINE S == {i \in D : ac[i] \notin Int}
  <2> SUFFICES ASSUME S # {} PROVE FALSE
    OBVIOUS
  <2>1. PICK i \in S : \A k \in S : i <= k
    <3>1. S \in SUBSET Nat
      BY <1>0
    <3> QED BY <3>1, Least
  <2>2. i \in D /\ ac[i] \notin Int
    OBVIOUS
  <2>3. i # 0
    BY <1>8, <2>2
  <2>4. i - 1 \in D /\ ac[i - 1] \in Int
    BY <1>0, <2>1, <2>2, <2>3
  <2> QED BY <1>1, <1>8, <2>2, <2>3, <2>4
<1>10. ac[Len(s)] \in Int
  BY <1>0, <1>9
<1> QED BY <1>7, <1>10

\* The length field of a block.
LEMMA LengthIs == ASSUME NEW n \in Nat PROVE Ha!PutUint64(n) \in Seq(Int)
<1> DEFINE f == [i \in 1 .. 2 |-> (n \div 4 ^ (i - 1)) % 4]
<1>1. Ha!PutUint64(n) = f
  BY DEF Ha!PutUint64, Ha!LenWidth, Ha!ByteBase
<1>2. \A i \in 1 .. 2 : 4 ^ (i - 1) \in {1, 4}
  <2> SUFFICES ASSUME NEW i \in 1 .. 2 PROVE 4 ^ (i - 1) \in {1, 4}
    OBVIOUS
  <2>1. CASE i = 1
    <3>1. i - 1 = 0
      BY <2>1
    <3>2. 4 ^ (i - 1) = 4 ^ 0
      BY <3>1, Zenon
    <3> QED BY <3>2
  <2>2. CASE i = 2
    <3>1. i - 1 = 1
      BY <2>2
    <3>2. 4 ^ (i - 1) = 4 ^ 1
      BY <3>1, Zenon
    <3> QED BY <3>2
  <2> QED BY <2>1, <2>2
<1>3. \A i \in 1 .. 2 : (n \div 4 ^ (i - 1)) % 4 \in Int
  <2> SUFFICES ASSUME NEW i \in 1 .. 2 PROVE (n \div 4 ^ (i - 1)) % 4 \in Int
    OBVIOUS
  <2> DEFINE x == 4 ^ (i - 1)
  <2>1. x \in {1, 4}
    BY <1>2
  <2> HIDE DEF x
  <2>2. (n \div x) % 4 \in Int
    BY <2>1
  <2> QED BY <2>2 DEF x
<1>4. f \in [1 .. 2 -> Int]
  <2> QED BY <1>3
<1> HIDE DEF f
<1> QED BY <1>1, <1>4, FunSeq

LEMMA HashInputIs ==
    ASSUME NEW s \in Seq(Seq(Int)) PROVE Ha!HashInput(s) \in Seq(Int)
<1> DEFINE g == [i \in DOMAIN s |-> (s[i] \o <<Ha!hashInputDelimiter>>) \o Ha!PutUint64(Len(s[i]))]
<1>1. \A i \in DOMAIN s : (s[i] \o <<Ha!hashInputDelimiter>>) \o Ha!PutUint64(Len(s[i])) \in Seq(Int)
  <2> SUFFICES ASSUME NEW i \in DOMAIN s
               PROVE  (s[i] \o <<Ha!hashInputDelimiter>>) \o Ha!PutUint64(Len(s[i])) \in Seq(Int)
    OBVIOUS
  <2>1. s[i] \in Seq(Int) /\ Len(s[i]) \in Nat
    OBVIOUS
  <2>2. Ha!PutUint64(Len(s[i])) \in Seq(Int)
    BY <2>1, LengthIs
  <2>3. <<Ha!hashInputDelimiter>> \in Seq(Int)
    BY DEF Ha!hashInputDelimiter
  <2> QED BY <2>1, <2>2, <2>3
<1>2. g \in Seq(Seq(Int))
  <2>1. DOMAIN s = 1 .. Len(s) /\ Len(s) \in Nat
    OBVIOUS
  <2>2. g \in [1 .. Len(s) -> Seq(Int)]
    BY <1>1, <2>1
  <2> HIDE DEF g
  <2> QED BY <2>1, <2>2, FunSeq
<1>3. Ha!Concat(g) \in Seq(Int)
  <2> HIDE DEF g
  <2> QED BY <1>2, ConcatIs
<1>4. Ha!PutUint64(Len(s)) \in Seq(Int)
  BY LengthIs
<1> QED BY <1>3, <1>4 DEF Ha!HashInput

LEMMA HashIs ==
    ASSUME NEW salt \in Nat, NEW s \in Seq(Int)
    PROVE  /\ Ha!SHA512_256i(salt, s) \in Nat /\ Ha!SHA512_256i(salt, s) < 8
           /\ Ha!SHA512_256(salt, Ha!BigIntsToBytes(s)) \in Nat
<1> DEFINE f == [i \in DOMAIN s |-> Ha!IntBlock(s[i])]
           g == [i \in DOMAIN s |-> Ha!Bytes(s[i])]
<1>1. \A i \in DOMAIN s : Ha!Bytes(s[i]) \in Seq(Int) /\ Ha!IntBlock(s[i]) \in Seq(Int)
  <2> SUFFICES ASSUME NEW i \in DOMAIN s PROVE Ha!Bytes(s[i]) \in Seq(Int) /\ Ha!IntBlock(s[i]) \in Seq(Int)
    OBVIOUS
  <2>1. s[i] \in Int
    OBVIOUS
  <2>2. Ha!Bytes(s[i]) \in Seq(Int)
    BY <2>1, BytesIs
  <2>3. Ha!Sign(s[i]) \in Int
    BY <2>1 DEF Ha!Sign, Ha!ByteBase
  <2> QED BY <2>2, <2>3 DEF Ha!IntBlock
<1>2. f \in Seq(Seq(Int)) /\ g \in Seq(Seq(Int))
  <2>1. DOMAIN s = 1 .. Len(s) /\ Len(s) \in Nat
    OBVIOUS
  <2>2. f \in [1 .. Len(s) -> Seq(Int)] /\ g \in [1 .. Len(s) -> Seq(Int)]
    BY <1>1, <2>1
  <2> HIDE DEF f, g
  <2> QED BY <2>1, <2>2, FunSeq
<1> HIDE DEF f, g
<1>3. Ha!HashInput(f) \in Seq(Int) /\ Ha!HashInput(g) \in Seq(Int)
  BY <1>2, HashInputIs
<1>4. Ha!SHA512_256i(salt, s) = Ha!Digest(salt, Ha!HashInput(f))
  BY DEF Ha!SHA512_256i, Ha!IntHashInput, f
<1>5. Ha!SHA512_256(salt, Ha!BigIntsToBytes(s)) = Ha!Digest(salt, Ha!HashInput(g))
  BY DEF Ha!SHA512_256, Ha!BigIntsToBytes, g
<1> QED BY <1>3, <1>4, <1>5, DigestIs

-----------------------------------------------------------------------------
(* The modules that Mta, ZkProofs and DlnProof extend are the ones the     *)
(* lemmas above are about.                                                 *)

LEMMA MtXgcd == Mt!xgcd = Ar!xgcd
BY DEF Mt!xgcd, Ar!xgcd
LEMMA MtGcd == ASSUME NEW a, NEW b PROVE Mt!GCD(a, b) = Ar!GCD(a, b)
BY MtXgcd DEF Mt!GCD, Ar!GCD
LEMMA MtInverse == ASSUME NEW a, NEW b PROVE Mt!Inverse(a, b) = Ar!Inverse(a, b)
BY MtXgcd, Zenon DEF Mt!Inverse, Ar!Inverse, Mt!Nil, Ar!Nil
LEMMA MtMul == ASSUME NEW x, NEW y, NEW n PROVE Mt!MulMod(x, y, n) = Pai!MulMod(x, y, n)
BY DEF Mt!MulMod, Pai!MulMod
LEMMA MtPower == ASSUME NEW x, NEW k, NEW n PROVE Mt!Power(x, k, n) = Ar!Power(x, k, n)
BY DEF Mt!Power, Ar!Power, Mt!MulMod, Ar!MulMod
LEMMA MtExpAr == ASSUME NEW x, NEW k, NEW n PROVE Mt!Exp(x, k, n) = Ar!Exp(x, k, n)
BY MtPower, MtInverse, MtGcd, Zenon DEF Mt!Exp, Ar!Exp, Mt!Nil, Ar!Nil
LEMMA MtExp == ASSUME NEW x, NEW k, NEW n PROVE Mt!Exp(x, k, n) = Pai!Exp(x, k, n)
BY MtExpAr, PaiExp
LEMMA MtDigits == Mt!digits = Ha!digits
BY DEF Mt!digits, Ha!digits, Mt!ByteBase, Ha!ByteBase
LEMMA MtBytes == ASSUME NEW n PROVE Mt!Bytes(n) = Ha!Bytes(n)
BY MtDigits DEF Mt!Bytes, Ha!Bytes
LEMMA MtLength == ASSUME NEW n PROVE Mt!PutUint64(n) = Ha!PutUint64(n)
BY DEF Mt!PutUint64, Ha!PutUint64, Mt!ByteBase, Ha!ByteBase, Mt!LenWidth, Ha!LenWidth
LEMMA MtConcat == ASSUME NEW s PROVE Mt!Concat(s) = Ha!Concat(s)
BY DEF Mt!Concat, Ha!Concat
LEMMA MtHashInput == ASSUME NEW s PROVE Mt!HashInput(s) = Ha!HashInput(s)
BY MtLength, MtConcat DEF Mt!HashInput, Ha!HashInput, Mt!hashInputDelimiter, Ha!hashInputDelimiter
LEMMA MtDigest == ASSUME NEW salt, NEW s PROVE Mt!Digest(salt, s) = Ha!Digest(salt, s)
BY DEF Mt!Digest, Ha!Digest, Mt!DigestRange, Ha!DigestRange
LEMMA MtHashInts == ASSUME NEW salt, NEW s PROVE Mt!SHA512_256i(salt, s) = Ha!SHA512_256i(salt, s)
BY MtBytes, MtHashInput, MtDigest
DEF Mt!SHA512_256i, Ha!SHA512_256i, Mt!IntHashInput, Ha!IntHashInput, Mt!IntBlock, Ha!IntBlock,
    Mt!Sign, Ha!Sign, Mt!ByteBase, Ha!ByteBase

LEMMA SmlXgcd == Sml!xgcd = Ar!xgcd
BY DEF Sml!xgcd, Ar!xgcd
LEMMA SmlGcd == ASSUME NEW a, NEW b PROVE Sml!GCD(a, b) = Ar!GCD(a, b)
BY SmlXgcd DEF Sml!GCD, Ar!GCD
LEMMA SmlInverse == ASSUME NEW a, NEW b PROVE Sml!Inverse(a, b) = Ar!Inverse(a, b)
BY SmlXgcd, Zenon DEF Sml!Inverse, Ar!Inverse, Sml!Nil, Ar!Nil
LEMMA SmlMul == ASSUME NEW x, NEW y, NEW n PROVE Sml!MulMod(x, y, n) = Pai!MulMod(x, y, n)
BY DEF Sml!MulMod, Pai!MulMod
LEMMA SmlPower == ASSUME NEW x, NEW k, NEW n PROVE Sml!Power(x, k, n) = Ar!Power(x, k, n)
BY DEF Sml!Power, Ar!Power, Sml!MulMod, Ar!MulMod
LEMMA SmlExpAr == ASSUME NEW x, NEW k, NEW n PROVE Sml!Exp(x, k, n) = Ar!Exp(x, k, n)
BY SmlPower, SmlInverse, SmlGcd, Zenon DEF Sml!Exp, Ar!Exp, Sml!Nil, Ar!Nil
LEMMA SmlExp == ASSUME NEW x, NEW k, NEW n PROVE Sml!Exp(x, k, n) = Pai!Exp(x, k, n)
BY SmlExpAr, PaiExp
LEMMA SmlDigits == Sml!digits = Ha!digits
BY DEF Sml!digits, Ha!digits, Sml!ByteBase, Ha!ByteBase
LEMMA SmlBytes == ASSUME NEW n PROVE Sml!Bytes(n) = Ha!Bytes(n)
BY SmlDigits DEF Sml!Bytes, Ha!Bytes
LEMMA SmlLength == ASSUME NEW n PROVE Sml!PutUint64(n) = Ha!PutUint64(n)
BY DEF Sml!PutUint64, Ha!PutUint64, Sml!ByteBase, Ha!ByteBase, Sml!LenWidth, Ha!LenWidth
LEMMA SmlConcat == ASSUME NEW s PROVE Sml!Concat(s) = Ha!Concat(s)
BY DEF Sml!Concat, Ha!Concat
LEMMA SmlHashInput == ASSUME NEW s PROVE Sml!HashInput(s) = Ha!HashInput(s)
BY SmlLength, SmlConcat DEF Sml!HashInput, Ha!HashInput, Sml!hashInputDelimiter, Ha!hashInputDelimiter
LEMMA SmlDigest == ASSUME NEW salt, NEW s PROVE Sml!Digest(salt, s) = Ha!Digest(salt, s)
BY DEF Sml!Digest, Ha!Digest, Sml!DigestRange, Ha!DigestRange
LEMMA SmlHashInts == ASSUME NEW salt, NEW s PROVE Sml!SHA512_256i(salt, s) = Ha!SHA512_256i(salt, s)
BY SmlBytes, SmlHashInput, SmlDigest
DEF Sml!SHA512_256i, Ha!SHA512_256i, Sml!IntHashInput, Ha!IntHashInput, Sml!IntBlock, Ha!IntBlock,
    Sml!Sign, Ha!Sign, Sml!ByteBase, Ha!ByteBase

LEMMA SecpDigits == Secp!digits = Ha!digits
BY DEF Secp!digits, Ha!digits, Secp!ByteBase, Ha!ByteBase
LEMMA SecpBytes == ASSUME NEW n PROVE Secp!Bytes(n) = Ha!Bytes(n)
BY SecpDigits DEF Secp!Bytes, Ha!Bytes
LEMMA SecpLength == ASSUME NEW n PROVE Secp!PutUint64(n) = Ha!PutUint64(n)
BY DEF Secp!PutUint64, Ha!PutUint64, Secp!ByteBase, Ha!ByteBase, Secp!LenWidth, Ha!LenWidth
LEMMA SecpConcat == ASSUME NEW s PROVE Secp!Concat(s) = Ha!Concat(s)
BY DEF Secp!Concat, Ha!Concat
LEMMA SecpHashInput == ASSUME NEW s PROVE Secp!HashInput(s) = Ha!HashInput(s)
BY SecpLength, SecpConcat DEF Secp!HashInput, Ha!HashInput, Secp!hashInputDelimiter, Ha!hashInputDelimiter
LEMMA SecpDigest == ASSUME NEW salt, NEW s PROVE Secp!Digest(salt, s) = Ha!Digest(salt, s)
BY DEF Secp!Digest, Ha!Digest, Secp!DigestRange, Ha!DigestRange
LEMMA SecpHashInts == ASSUME NEW salt, NEW s PROVE Secp!SHA512_256i(salt, s) = Ha!SHA512_256i(salt, s)
BY SecpBytes, SecpHashInput, SecpDigest
DEF Secp!SHA512_256i, Ha!SHA512_256i, Secp!IntHashInput, Ha!IntHashInput, Secp!IntBlock, Ha!IntBlock,
    Secp!Sign, Ha!Sign, Secp!ByteBase, Ha!ByteBase

LEMMA EdwXgcd == Edw!xgcd = Ar!xgcd
BY DEF Edw!xgcd, Ar!xgcd
LEMMA EdwInverse == ASSUME NEW a, NEW b PROVE Edw!Inverse(a, b) = Ar!Inverse(a, b)
BY EdwXgcd, Zenon DEF Edw!Inverse, Ar!Inverse, Edw!Nil, Ar!Nil
LEMMA EdwDigits == Edw!digits = Ha!digits
BY DEF Edw!digits, Ha!digits, Edw!ByteBase, Ha!ByteBase
LEMMA EdwBytes == ASSUME NEW n PROVE Edw!Bytes(n) = Ha!Bytes(n)
BY EdwDigits DEF Edw!Bytes, Ha!Bytes
LEMMA EdwLength == ASSUME NEW n PROVE Edw!PutUint64(n) = Ha!PutUint64(n)
BY DEF Edw!PutUint64, Ha!PutUint64, Edw!ByteBase, Ha!ByteBase, Edw!LenWidth, Ha!LenWidth
LEMMA EdwConcat == ASSUME NEW s PROVE Edw!Concat(s) = Ha!Concat(s)
BY DEF Edw!Concat, Ha!Concat
LEMMA EdwHashInput == ASSUME NEW s PROVE Edw!HashInput(s) = Ha!HashInput(s)
BY EdwLength, EdwConcat DEF Edw!HashInput, Ha!HashInput, Edw!hashInputDelimiter, Ha!hashInputDelimiter
LEMMA EdwDigest == ASSUME NEW salt, NEW s PROVE Edw!Digest(salt, s) = Ha!Digest(salt, s)
BY DEF Edw!Digest, Ha!Digest, Edw!DigestRange, Ha!DigestRange
LEMMA EdwHashInts == ASSUME NEW salt, NEW s PROVE Edw!SHA512_256i(salt, s) = Ha!SHA512_256i(salt, s)
BY EdwBytes, EdwHashInput, EdwDigest
DEF Edw!SHA512_256i, Ha!SHA512_256i, Edw!IntHashInput, Ha!IntHashInput, Edw!IntBlock, Ha!IntBlock,
    Edw!Sign, Ha!Sign, Edw!ByteBase, Ha!ByteBase

LEMMA DlnXgcd == Dln!xgcd = Ar!xgcd
BY DEF Dln!xgcd, Ar!xgcd
LEMMA DlnGcd == ASSUME NEW a, NEW b PROVE Dln!GCD(a, b) = Ar!GCD(a, b)
BY DlnXgcd DEF Dln!GCD, Ar!GCD
LEMMA DlnInverse == ASSUME NEW a, NEW b PROVE Dln!Inverse(a, b) = Ar!Inverse(a, b)
BY DlnXgcd, Zenon DEF Dln!Inverse, Ar!Inverse, Dln!Nil, Ar!Nil
LEMMA DlnMul == ASSUME NEW x, NEW y, NEW n PROVE Dln!MulMod(x, y, n) = Pai!MulMod(x, y, n)
BY DEF Dln!MulMod, Pai!MulMod
LEMMA DlnPower == ASSUME NEW x, NEW k, NEW n PROVE Dln!Power(x, k, n) = Ar!Power(x, k, n)
BY DEF Dln!Power, Ar!Power, Dln!MulMod, Ar!MulMod
LEMMA DlnExpAr == ASSUME NEW x, NEW k, NEW n PROVE Dln!Exp(x, k, n) = Ar!Exp(x, k, n)
BY DlnPower, DlnInverse, DlnGcd, Zenon DEF Dln!Exp, Ar!Exp, Dln!Nil, Ar!Nil
LEMMA DlnExp == ASSUME NEW x, NEW k, NEW n PROVE Dln!Exp(x, k, n) = Pai!Exp(x, k, n)
BY DlnExpAr, PaiExp
LEMMA DlnDigits == Dln!digits = Ha!digits
BY DEF Dln!digits, Ha!digits, Dln!ByteBase, Ha!ByteBase
LEMMA DlnBytes == ASSUME NEW n PROVE Dln!Bytes(n) = Ha!Bytes(n)
BY DlnDigits DEF Dln!Bytes, Ha!Bytes
LEMMA DlnLength == ASSUME NEW n PROVE Dln!PutUint64(n) = Ha!PutUint64(n)
BY DEF Dln!PutUint64, Ha!PutUint64, Dln!ByteBase, Ha!ByteBase, Dln!LenWidth, Ha!LenWidth
LEMMA DlnConcat == ASSUME NEW s PROVE Dln!Concat(s) = Ha!Concat(s)
BY DEF Dln!Concat, Ha!Concat
LEMMA DlnHashInput == ASSUME NEW s PROVE Dln!HashInput(s) = Ha!HashInput(s)
BY DlnLength, DlnConcat DEF Dln!HashInput, Ha!HashInput, Dln!hashInputDelimiter, Ha!hashInputDelimiter
LEMMA DlnDigest == ASSUME NEW salt, NEW s PROVE Dln!Digest(salt, s) = Ha!Digest(salt, s)
BY DEF Dln!Digest, Ha!Digest, Dln!DigestRange, Ha!DigestRange
LEMMA DlnHashInts == ASSUME NEW salt, NEW s PROVE Dln!SHA512_256i(salt, s) = Ha!SHA512_256i(salt, s)
BY DlnBytes, DlnHashInput, DlnDigest
DEF Dln!SHA512_256i, Ha!SHA512_256i, Dln!IntHashInput, Ha!IntHashInput, Dln!IntBlock, Ha!IntBlock,
    Dln!Sign, Ha!Sign, Dln!ByteBase, Ha!ByteBase

-----------------------------------------------------------------------------
(* The equations of the proofs about moduli.                               *)

LEMMA IntProd == ASSUME NEW a \in Int, NEW b \in Int PROVE a * b \in Int
OBVIOUS

\* Four factors in another order.
LEMMA Swap4 ==
    ASSUME NEW a \in Int, NEW b \in Int, NEW c \in Int, NEW d \in Int
    PROVE  (a * c) * (b * d) = (a * b) * (c * d)
<1> DEFINE x == a * c
           y == b * d
<1>1. x * (b * d) = (x * b) * d
  BY IntProd
<1>2. (a * c) * b = (a * b) * c
  OBVIOUS
<1> DEFINE z == a * b
<1>3. z \in Int
  OBVIOUS
<1>4. (x * b) * d = (z * c) * d
  BY <1>2
<1> HIDE DEF x, z
<1>5. (z * c) * d = z * (c * d)
  BY <1>3
<1> QED BY <1>1, <1>4, <1>5 DEF x, z

\* c is a*b and d is e*f: the response of a proof, (a^k e)(b^k f), is c^k d.
LEMMA Response ==
    ASSUME NEW a \in Int, NEW b \in Int, NEW e \in Int, NEW f \in Int, NEW c \in Int, NEW d \in Int,
           NEW k \in Nat, NEW n \in Int, Eqm(c, a * b, n), Eqm(d, e * f, n)
    PROVE  /\ (Pw(a, k) * e) * (Pw(b, k) * f) \in Int /\ Pw(c, k) * d \in Int
           /\ Eqm((Pw(a, k) * e) * (Pw(b, k) * f), Pw(c, k) * d, n)
<1> DEFINE ab == a * b
           ef == e * f
           A == Pw(a, k)
           B == Pw(b, k)
           C == Pw(c, k)
<1>1. ab \in Int /\ ef \in Int /\ A \in Int /\ B \in Int /\ C \in Int
  <2>1. ab \in Int /\ ef \in Int
    OBVIOUS
  <2>2. A \in Int /\ B \in Int /\ C \in Int
    BY PwDef
  <2> QED BY <2>1, <2>2
<1>2. Pw(ab, k) = A * B
  BY PwProd
<1>3. (A * e) * (B * f) = (A * B) * ef
  BY <1>1, Swap4
<1> HIDE DEF ab, ef
<1>4. Eqm(c, ab, n) /\ Eqm(d, ef, n)
  BY DEF ab, ef
<1>5. Eqm(C, Pw(ab, k), n)
  BY <1>1, <1>4, PwEqm
<1> HIDE DEF A, B, C
<1>6. A * B \in Int /\ Eqm(C, A * B, n)
  BY <1>1, <1>2, <1>5
<1> DEFINE AB == A * B
<1>7. AB \in Int /\ Eqm(C, AB, n)
  BY <1>6
<1> HIDE DEF AB
<1>8. Eqm(C * d, AB * ef, n) /\ C * d \in Int /\ AB * ef \in Int
  BY <1>1, <1>4, <1>7, EqmTimes
<1>9. Eqm(AB * ef, C * d, n)
  BY <1>8, EqmSym
<1>10. (A * e) * (B * f) = AB * ef
  BY <1>3 DEF AB
<1> QED BY <1>8, <1>9, <1>10 DEF A, B, C

\* The power of a linear exponent.
LEMMA PwLinear ==
    ASSUME NEW g \in Int, NEW k \in Nat, NEW x \in Nat, NEW a \in Nat
    PROVE  k * x + a \in Nat /\ Pw(g, k * x + a) = Pw(Pw(g, x), k) * Pw(g, a)
<1> DEFINE y == k * x
<1>1. y \in Nat /\ y = x * k
  OBVIOUS
<1>2. Pw(g, x * k) = Pw(Pw(g, x), k)
  BY PwTimes
<1>3. Pw(g, y) = Pw(Pw(g, x), k)
  BY <1>1, <1>2
<1> HIDE DEF y
<1>4. Pw(g, y + a) = Pw(g, y) * Pw(g, a)
  BY <1>1, PwPlus
<1>5. y + a \in Nat
  BY <1>1
<1> QED BY <1>3, <1>4, <1>5 DEF y

\* Commitments: to x with r, and to a with b.
LEMMA CommitResponse ==
    ASSUME NEW g \in Int, NEW h \in Int, NEW c \in Int, NEW d \in Int, NEW n \in Int,
           NEW k \in Nat, NEW x \in Nat, NEW r \in Nat, NEW a \in Nat, NEW b \in Nat,
           Eqm(c, Pw(g, x) * Pw(h, r), n), Eqm(d, Pw(g, a) * Pw(h, b), n)
    PROVE  Eqm(Pw(g, k * x + a) * Pw(h, k * r + b), Pw(c, k) * d, n)
<1> DEFINE A == Pw(g, x)
           B == Pw(h, r)
           E == Pw(g, a)
           F == Pw(h, b)
<1>1. A \in Int /\ B \in Int /\ E \in Int /\ F \in Int
  BY PwDef
<1>2. Pw(g, k * x + a) = Pw(A, k) * E /\ Pw(h, k * r + b) = Pw(B, k) * F
  <2>1. Pw(g, k * x + a) = Pw(A, k) * E
    BY PwLinear
  <2>2. Pw(h, k * r + b) = Pw(B, k) * F
    BY PwLinear
  <2> QED BY <2>1, <2>2
<1>3. Eqm(c, A * B, n) /\ Eqm(d, E * F, n)
  OBVIOUS
<1> HIDE DEF A, B, E, F
<1>4. Eqm((Pw(A, k) * E) * (Pw(B, k) * F), Pw(c, k) * d, n)
  BY <1>1, <1>3, Response
<1> QED BY <1>2, <1>4

\* N-th powers of numbers that are equal mod N are equal mod N^2.
LEMMA Lift ==
    ASSUME NEW N \in Nat, NEW a \in Int, NEW b \in Int, Unit(b, N), Eqm(a, b, N)
    PROVE  Eqm(Pw(a, N), Pw(b, N), N * N)
<1> DEFINE M == N * N
<1>0. N \in Int /\ M \in Int
  OBVIOUS
<1>1. Unit(b, M)
  BY <1>0, UnitBoth
<1>2. PICK y \in Int : Eqm(b * y, 1, M)
  BY <1>1 DEF Unit
<1>3. a * y \in Int /\ b * y \in Int
  OBVIOUS
<1>4. Eqm(b * y, 1, N)
  <2> DEFINE w == b * y
  <2>1. Eqm(w, 1, N * N) /\ w \in Int /\ 1 \in Int
    BY <1>2, <1>3
  <2> HIDE DEF w
  <2>2. Eqm(w, 1, N)
    BY <1>0, <2>1, EqmDown
  <2> QED BY <2>2 DEF w
<1>5. Eqm(a * y, b * y, N)
  BY <1>0, EqmScale, Zenon
<1>6. Eqm(a * y, 1, N)
  <2> DEFINE v == a * y
             w == b * y
  <2>1. v \in Int /\ w \in Int /\ Eqm(v, w, N) /\ Eqm(w, 1, N) /\ 1 \in Int
    BY <1>3, <1>4, <1>5
  <2> HIDE DEF v, w
  <2>2. Eqm(v, 1, N)
    BY <1>0, <2>1, EqmTrans
  <2> QED BY <2>2 DEF v
<1> DEFINE A == Pw(a, N)
           B == Pw(b, N)
           Y == Pw(y, N)
<1>7. A \in Int /\ B \in Int /\ Y \in Int
  BY PwDef
<1>8. Eqm(A * Y, 1, M)
  <2>1. Pw(a * y, N) = A * Y
    BY PwProd
  <2>2. Eqm(Pw(a * y, N), 1, M)
    <3> DEFINE v == a * y
    <3>1. v \in Int /\ Eqm(v, 1, N)
      BY <1>6
    <3> HIDE DEF v
    <3>2. Eqm(Pw(v, N), 1, N * N)
      BY <3>1, LiftOne
    <3> QED BY <3>2 DEF v
  <2> QED BY <2>1, <2>2
<1>9. Eqm(B * Y, 1, M)
  <2>1. Pw(b * y, N) = B * Y
    BY PwProd
  <2>2. Eqm(Pw(b * y, N), 1, M)
    <3> DEFINE v == b * y
    <3>1. v \in Int /\ Eqm(v, 1, N)
      BY <1>4
    <3> HIDE DEF v
    <3>2. Eqm(Pw(v, N), 1, N * N)
      BY <3>1, LiftOne
    <3> QED BY <3>2 DEF v
  <2> QED BY <2>1, <2>2
<1> HIDE DEF A, B, Y, M
<1>10. Unit(Y, M)
  BY <1>0, <1>7, <1>9, UnitFactor DEF Unit
<1>11. Eqm(Y * A, Y * B, M)
  <2> DEFINE v == A * Y
             w == B * Y
  <2>1. v \in Int /\ w \in Int /\ Eqm(v, 1, M) /\ Eqm(w, 1, M) /\ 1 \in Int /\ Y * A = v /\ Y * B = w
    BY <1>7, <1>8, <1>9
  <2> HIDE DEF v, w
  <2>2. Eqm(1, w, M)
    BY <1>0, <2>1, EqmSym
  <2>3. Eqm(v, w, M)
    BY <1>0, <2>1, <2>2, EqmTrans
  <2> QED BY <2>1, <2>3
<1>12. Eqm(A, B, M)
  BY <1>0, <1>7, <1>10, <1>11, UnitCancel
<1> QED BY <1>12 DEF A, B, M

\* A ciphertext c of m with r, and one u of a with b: the response s is r^k b mod N.
LEMMA CipherResponse ==
    ASSUME NEW N \in Nat, NEW g \in Int, NEW c \in Int, NEW u \in Int, NEW r \in Int, NEW b \in Int,
           NEW s \in Int, NEW k \in Nat, NEW m \in Nat, NEW a \in Nat, Unit(r, N), Unit(b, N),
           Eqm(c, Pw(g, m) * Pw(r, N), N * N), Eqm(u, Pw(g, a) * Pw(b, N), N * N),
           Eqm(s, Pw(r, k) * b, N)
    PROVE  Eqm(Pw(g, k * m + a) * Pw(s, N), Pw(c, k) * u, N * N)
<1> DEFINE M == N * N
           A == Pw(g, m)
           B == Pw(r, N)
           E == Pw(g, a)
           F == Pw(b, N)
           rk == Pw(r, k)
           t == rk * b
           G == Pw(g, k * m + a)
           S == Pw(s, N)
<1>0. N \in Int /\ M \in Int
  OBVIOUS
<1>1. A \in Int /\ B \in Int /\ E \in Int /\ F \in Int /\ rk \in Int
  BY PwDef
<1>2. k * m + a \in Nat /\ G = Pw(A, k) * E
  BY PwLinear
<1>3. Unit(rk, N)
  BY <1>0, UnitPw
<1>4. t \in Int /\ Unit(t, N) /\ Eqm(s, t, N)
  <2>1. Unit(rk * b, N)
    <3> HIDE DEF rk
    <3> QED BY <1>0, <1>1, <1>3, UnitProd
  <2> QED BY <1>1, <2>1
<1>5. Pw(t, N) = Pw(rk, N) * F
  <2> HIDE DEF rk
  <2> QED BY <1>1, PwProd
<1>6. Pw(rk, N) = Pw(B, k)
  <2>1. Pw(r, k * N) = Pw(rk, N) /\ Pw(r, N * k) = Pw(B, k)
    BY PwTimes
  <2>2. k * N = N * k
    OBVIOUS
  <2> QED BY <2>1, <2>2
<1> HIDE DEF t
<1>7. Eqm(S, Pw(t, N), M)
  BY <1>4, Lift
<1>8. Eqm(c, A * B, M) /\ Eqm(u, E * F, M)
  OBVIOUS
<1> HIDE DEF A, B, E, F, rk, M
<1>9. (Pw(A, k) * E) * (Pw(B, k) * F) \in Int /\ Pw(c, k) * u \in Int
      /\ Eqm((Pw(A, k) * E) * (Pw(B, k) * F), Pw(c, k) * u, M)
  BY <1>0, <1>1, <1>8, Response
<1>10. Pw(B, k) \in Int /\ G \in Int /\ S \in Int
  BY <1>1, <1>2, PwDef
<1> DEFINE T == Pw(B, k) * F
<1>11. T \in Int /\ Eqm(S, T, M)
  BY <1>1, <1>5, <1>6, <1>7, <1>10
<1> HIDE DEF T, G, S
<1>12. Eqm(S * G, T * G, M) /\ S * G \in Int /\ T * G \in Int
  <2>1. S * G \in Int /\ T * G \in Int
    BY <1>10, <1>11
  <2>2. Eqm(S * G, T * G, M)
    BY <1>0, <1>10, <1>11, EqmScale, Zenon
  <2> QED BY <2>1, <2>2
<1>13. S * G = G * S /\ T * G = G * T
  BY <1>10, <1>11
<1> DEFINE v == G * S
           w == G * T
           z == Pw(c, k) * u
<1>14. Eqm(v, w, M) /\ v \in Int /\ w \in Int
  BY <1>12, <1>13
<1>15. Eqm(w, z, M) /\ z \in Int
  BY <1>2, <1>9 DEF T
<1> HIDE DEF v, w, z
<1>16. Eqm(v, z, M)
  BY <1>0, <1>14, <1>15, EqmTrans
<1> QED BY <1>16 DEF v, z, M, G, S

\* A verifier divides by the statement.
LEMMA Unblind ==
    ASSUME NEW x \in Int, NEW y \in Int, NEW u \in Int, NEW e \in Int, NEW n \in Int,
           Eqm(x, y * u, n), Eqm(y * e, 1, n)
    PROVE  Eqm(x * e, u, n)
<1> DEFINE yu == y * u
           ye == y * e
<1>1. yu \in Int /\ ye \in Int /\ 1 \in Int /\ x * e \in Int
  OBVIOUS
<1>2. yu * e = ye * u /\ 1 * u = u
  OBVIOUS
<1>3. Eqm(x, yu, n) /\ Eqm(ye, 1, n)
  OBVIOUS
<1> HIDE DEF yu, ye
<1>4. Eqm(x * e, yu * e, n) /\ Eqm(ye * u, 1 * u, n)
  BY <1>1, <1>3, EqmScale, Zenon
<1>5. yu * e \in Int
  BY <1>1
<1>6. Eqm(yu * e, u, n)
  BY <1>2, <1>4
<1> QED BY <1>1, <1>4, <1>5, <1>6, EqmTrans, Zenon

-----------------------------------------------------------------------------
(* The operations on moduli that the proofs use.                           *)

LEMMA UnitNonZero == ASSUME NEW v \in Int, NEW n \in Nat, n > 1, Unit(v, n) PROVE v # 0
<1> SUFFICES ASSUME v = 0 PROVE FALSE
  OBVIOUS
<1>1. PICK y \in Int : Eqm(0 * y, 1, n)
  BY DEF Unit
<1>2. PICK k \in Int : 0 = 1 + n * k
  <2>1. 0 * y = 0
    BY <1>1
  <2> QED BY <1>1, <2>1 DEF Eqm
<1>3. CASE k >= 0
  <2>1. n * k >= 0
    BY <1>3
  <2> QED BY <1>2, <2>1
<1>4. CASE k < 0
  <2>1. n * k <= -n
    BY <1>4
  <2> QED BY <1>2, <2>1
<1> QED BY <1>3, <1>4

\* The product of two numbers, and of a product and a number.
LEMMA MulUnit ==
    ASSUME NEW x \in Int, NEW y \in Int, NEW n \in Nat, n > 0, Unit(x, n), Unit(y, n)
    PROVE  Unit(Pai!MulMod(x, y, n), n)
<1> DEFINE z == x * y
<1>1. z \in Int /\ n \in Int
  OBVIOUS
<1>2. Unit(z, n)
  BY <1>1, UnitProd
<1>3. Pai!MulMod(x, y, n) \in Int /\ Eqm(Pai!MulMod(x, y, n), z, n)
  BY PaiMulIs
<1> HIDE DEF z
<1> QED BY <1>1, <1>2, <1>3, UnitEqm

\* A power of a number and a power of another one.
LEMMA ExpProd ==
    ASSUME NEW g \in Int, NEW h \in Int, NEW x \in Nat, NEW r \in Nat, NEW n \in Nat, n > 0
    PROVE  LET c == Pai!MulMod(Pai!Exp(g, x, n), Pai!Exp(h, r, n), n)
           IN  /\ c \in 0 .. n - 1 /\ c \in Int /\ Eqm(c, Pw(g, x) * Pw(h, r), n)
               /\ Unit(g, n) /\ Unit(h, n) => Unit(c, n)
<1> DEFINE a == Pai!Exp(g, x, n)
           b == Pai!Exp(h, r, n)
           A == Pw(g, x)
           B == Pw(h, r)
           c == Pai!MulMod(a, b, n)
<1>0. n \in Int
  OBVIOUS
<1>1. a \in Int /\ b \in Int /\ Eqm(a, A, n) /\ Eqm(b, B, n) /\ A \in Int /\ B \in Int
  BY PaiExpIs
<1>2. Unit(g, n) => Unit(A, n)
  BY <1>0, UnitPw
<1>3. Unit(h, n) => Unit(B, n)
  BY <1>0, UnitPw
<1> HIDE DEF a, b, A, B
<1>4. c \in 0 .. n - 1 /\ c \in Int /\ Eqm(c, a * b, n)
  BY <1>1, PaiMulIs
<1>5. Eqm(a * b, A * B, n)
  BY <1>0, <1>1, EqmTimes
<1>6. a * b \in Int /\ A * B \in Int
  BY <1>1
<1> HIDE DEF c
<1>7. Eqm(c, A * B, n)
  BY <1>0, <1>4, <1>5, <1>6, EqmTrans, Zenon
<1>8. Unit(g, n) /\ Unit(h, n) => Unit(c, n)
  <2> SUFFICES ASSUME Unit(g, n), Unit(h, n) PROVE Unit(c, n)
    OBVIOUS
  <2>1. Unit(A * B, n)
    BY <1>0, <1>1, <1>2, <1>3, UnitProd
  <2> QED BY <1>0, <1>4, <1>6, <1>7, <2>1, UnitEqm, Zenon
<1> QED BY <1>4, <1>7, <1>8 DEF c, a, b, A, B

\* A power times a number.
LEMMA ExpTimes ==
    ASSUME NEW g \in Int, NEW y \in Int, NEW x \in Nat, NEW n \in Nat, n > 0
    PROVE  LET c == Pai!MulMod(Pai!Exp(g, x, n), y, n)
           IN  /\ c \in 0 .. n - 1 /\ c \in Int /\ Eqm(c, Pw(g, x) * y, n)
               /\ Unit(g, n) /\ Unit(y, n) => Unit(c, n)
<1> DEFINE a == Pai!Exp(g, x, n)
           A == Pw(g, x)
           c == Pai!MulMod(a, y, n)
<1>0. n \in Int
  OBVIOUS
<1>1. a \in Int /\ Eqm(a, A, n) /\ A \in Int
  BY PaiExpIs
<1>2. Unit(g, n) => Unit(A, n)
  BY <1>0, UnitPw
<1> HIDE DEF a, A
<1>4. c \in 0 .. n - 1 /\ c \in Int /\ Eqm(c, a * y, n)
  BY <1>1, PaiMulIs
<1>5. Eqm(a * y, A * y, n)
  BY <1>0, <1>1, EqmScale, Zenon
<1>6. a * y \in Int /\ A * y \in Int
  BY <1>1
<1> HIDE DEF c
<1>7. Eqm(c, A * y, n)
  BY <1>0, <1>4, <1>5, <1>6, EqmTrans, Zenon
<1>8. Unit(g, n) /\ Unit(y, n) => Unit(c, n)
  <2> SUFFICES ASSUME Unit(g, n), Unit(y, n) PROVE Unit(c, n)
    OBVIOUS
  <2>1. Unit(A * y, n)
    BY <1>0, <1>1, <1>2, UnitProd
  <2> QED BY <1>0, <1>4, <1>6, <1>7, <2>1, UnitEqm, Zenon
<1> QED BY <1>4, <1>7, <1>8 DEF c, a, A

\* Division by a power.
LEMMA ExpNegIs ==
    ASSUME NEW x \in Int, NEW k \in Nat, NEW n \in Nat, n > 0, Unit(x, n)
    PROVE  /\ Pai!Exp(x, -k, n) \in 0 .. n - 1 /\ Pai!Exp(x, -k, n) \in Int
           /\ Eqm(Pw(x, k) * Pai!Exp(x, -k, n), 1, n)
<1> DEFINE j == -k
<1>1. Ar!Exp(x, j, n) \in 0 .. n - 1 /\ Eqm(Pw(x, k) * Ar!Exp(x, j, n), 1, n)
  BY ExpNeg
<1>2. Pai!Exp(x, j, n) = Ar!Exp(x, j, n)
  BY PaiExp
<1> HIDE DEF j
<1>3. Ar!Exp(x, j, n) \in Int
  BY <1>1
<1>4. /\ Pai!Exp(x, j, n) \in 0 .. n - 1 /\ Pai!Exp(x, j, n) \in Int
      /\ Eqm(Pw(x, k) * Pai!Exp(x, j, n), 1, n)
  BY <1>1, <1>2, <1>3
<1> QED BY <1>4 DEF j

\* A verifier's test, in which the statement y is divided out, gives the commitment.
LEMMA DividedIs ==
    ASSUME NEW x \in Int, NEW y \in Int, NEW k \in Nat, NEW n \in Nat, NEW u \in 0 .. n - 1,
           Unit(y, n), Eqm(x, Pw(y, k) * u, n)
    PROVE  Pai!MulMod(x, Pai!Exp(y, -k, n), n) = u
<1> DEFINE e == Pai!Exp(y, -k, n)
           Y == Pw(y, k)
           v == Pai!MulMod(x, e, n)
<1>0. n \in Int /\ n > 0 /\ u \in Int
  OBVIOUS
<1>1. e \in Int /\ Eqm(Y * e, 1, n)
  BY <1>0, ExpNegIs
<1>2. Y \in Int
  BY PwDef
<1>3. Eqm(x, Y * u, n)
  OBVIOUS
<1> HIDE DEF e, Y
<1>4. Eqm(x * e, u, n)
  BY <1>0, <1>1, <1>2, <1>3, Unblind
<1>5. v \in 0 .. n - 1 /\ v \in Int /\ Eqm(v, x * e, n)
  BY <1>0, <1>1, PaiMulIs
<1>6. x * e \in Int
  BY <1>1
<1> HIDE DEF v
<1>7. Eqm(v, u, n)
  BY <1>0, <1>4, <1>5, <1>6, EqmTrans, Zenon
<1>8. v = u
  BY <1>5, <1>7, EqmSmall
<1> QED BY <1>8 DEF v, e

\* Two numbers below n that are equal mod n to the same product are equal.
LEMMA SameProduct ==
    ASSUME NEW n \in Nat, NEW x \in 0 .. n - 1, NEW y \in 0 .. n - 1, NEW a \in Int, NEW b \in Int,
           Eqm(x, a, n), Eqm(y, b, n), Eqm(a, b, n)
    PROVE  x = y
<1>1. n \in Int /\ x \in Int /\ y \in Int
  OBVIOUS
<1>2. Eqm(x, b, n)
  BY <1>1, EqmTrans
<1>3. Eqm(b, y, n)
  BY <1>1, EqmSym
<1>4. Eqm(x, y, n)
  BY <1>1, <1>2, <1>3, EqmTrans
<1> QED BY <1>4, EqmSmall

-----------------------------------------------------------------------------
(* The parts of the range proofs.                                          *)

\* What ParOk says of the parameters of a proof.
Par(par) ==
    /\ par.N \in Nat /\ par.N > 1 /\ par.NTilde \in Nat /\ par.NTilde > 1
    /\ par.h1 \in Int /\ Unit(par.h1, par.NTilde)
    /\ par.h2 \in Int /\ Unit(par.h2, par.NTilde)

LEMMA MtCommit ==
    ASSUME NEW par, Par(par), NEW x \in Nat, NEW r \in Nat
    PROVE  LET c == Mt!Commit(par, x, r)
           IN  /\ c \in 0 .. par.NTilde - 1 /\ c \in Int /\ c # 0 /\ Unit(c, par.NTilde)
               /\ Eqm(c, Pw(par.h1, x) * Pw(par.h2, r), par.NTilde)
<1> DEFINE n == par.NTilde
           c == Pai!MulMod(Pai!Exp(par.h1, x, n), Pai!Exp(par.h2, r, n), n)
<1>1. Mt!Commit(par, x, r) = c
  BY MtMul, MtExp DEF Mt!Commit
<1>2. n \in Nat /\ n > 0 /\ n > 1
  BY DEF Par
<1>3. c \in 0 .. n - 1 /\ c \in Int /\ Eqm(c, Pw(par.h1, x) * Pw(par.h2, r), n) /\ Unit(c, n)
  BY <1>2, ExpProd DEF Par
<1> HIDE DEF c
<1>4. c # 0
  BY <1>2, <1>3, UnitNonZero
<1> QED BY <1>1, <1>3, <1>4

LEMMA MtUnits ==
    ASSUME NEW n \in Nat, NEW S, \A v \in S : v \in 0 .. n - 1 /\ Unit(v, n) PROVE Mt!Units(S, n)
<1>1. ASSUME NEW v \in S PROVE Mt!IsInInterval(v, n) /\ Mt!GCD(v, n) = 1
  <2>1. v \in 0 .. n - 1 /\ v \in Nat /\ Unit(v, n)
    OBVIOUS
  <2>2. Ar!GCD(v, n) = 1
    BY <2>1, GcdUnit
  <2> QED BY <2>1, <2>2, MtGcd DEF Mt!IsInInterval
<1> QED BY <1>1 DEF Mt!Units

LEMMA MtChallenge ==
    ASSUME NEW salt \in Nat, NEW s \in Seq(Int)
    PROVE  Mt!Challenge(salt, s) \in Nat /\ Mt!Challenge(salt, s) \in 0 .. QMta - 1
<1>1. Ha!SHA512_256i(salt, s) \in Nat
  BY HashIs
<1>2. QMta \in Nat /\ QMta > 0
  BY QMtaAssumption DEF IsPrime
<1>3. Mt!Challenge(salt, s) = Ha!SHA512_256i(salt, s) % QMta
  BY MtHashInts DEF Mt!Challenge, Mt!RejectionSample
<1> QED BY <1>1, <1>2, <1>3

LEMMA MtOnWire ==
    ASSUME NEW s \in Seq(Int), s # <<>>
    PROVE  Mt!OnWire(s) <=> \A i \in DOMAIN s : s[i] # 0
<1> DEFINE b == [i \in DOMAIN s |-> Ha!Bytes(s[i])]
<1>1. Mt!BigIntsToBytes(s) = b
  BY MtBytes DEF Mt!BigIntsToBytes
<1>2. DOMAIN s = 1 .. Len(s) /\ Len(s) > 0
  OBVIOUS
<1>3. b # <<>>
  <2>1. DOMAIN b = 1 .. Len(s) /\ 1 \in DOMAIN b
    BY <1>2
  <2>2. DOMAIN (<<>>) = {}
    OBVIOUS
  <2> HIDE DEF b
  <2> QED BY <2>1, <2>2
<1>4. \A i \in DOMAIN s : Mt!NonEmptyBytes(b[i]) <=> s[i] # 0
  <2> SUFFICES ASSUME NEW i \in DOMAIN s PROVE Mt!NonEmptyBytes(b[i]) <=> s[i] # 0
    OBVIOUS
  <2>1. s[i] \in Int
    OBVIOUS
  <2>2. Ha!NonEmptyBytes(Ha!Bytes(s[i])) <=> s[i] # 0
    BY <2>1, BytesIs
  <2> QED BY <2>2 DEF Mt!NonEmptyBytes, Ha!NonEmptyBytes
<1>5. DOMAIN b = DOMAIN s
  OBVIOUS
<1> HIDE DEF b
<1> QED BY <1>1, <1>3, <1>4, <1>5 DEF Mt!OnWire, Mt!NonEmptyMultiBytes

\* The generator of a Paillier key.
LEMMA GammaUnit ==
    ASSUME NEW N \in Nat, N > 1 PROVE N + 1 \in Int /\ Unit(N + 1, N * N) /\ Unit(N + 1, N)
<1>1. Cipher(N + 1, 1, N)
  BY GammaCipher
<1>2. N + 1 \in Int /\ 1 \in Nat
  OBVIOUS
<1> QED BY <1>1, <1>2, CipherUnit

\* A ciphertext of a with randomness b.
LEMMA MaskCipher ==
    ASSUME NEW N \in Nat, N > 1, NEW a \in Nat, NEW b \in Int, Unit(b, N)
    PROVE  LET u == Pai!MulMod(Pai!Exp(N + 1, a, N * N), Pai!Exp(b, N, N * N), N * N)
           IN  /\ u \in 0 .. N * N - 1 /\ u \in Int /\ u # 0 /\ Unit(u, N * N)
               /\ Eqm(u, Pw(N + 1, a) * Pw(b, N), N * N)
<1> DEFINE M == N * N
           g == N + 1
           u == Pai!MulMod(Pai!Exp(g, a, M), Pai!Exp(b, N, M), M)
<1>1. M \in Nat /\ M > 0 /\ M > 1
  BY SquarePos
<1>2. g \in Int /\ Unit(g, M)
  BY GammaUnit
<1>3. Unit(b, M)
  <2>1. N \in Int
    OBVIOUS
  <2> QED BY <2>1, UnitBoth
<1> HIDE DEF M, g
<1>4. u \in 0 .. M - 1 /\ u \in Int /\ Eqm(u, Pw(g, a) * Pw(b, N), M) /\ Unit(u, M)
  BY <1>1, <1>2, <1>3, ExpProd
<1> HIDE DEF u
<1>5. u # 0
  BY <1>1, <1>4, UnitNonZero
<1> QED BY <1>4, <1>5 DEF u, M, g

\* The range proof of a prover that knows m and r of the ciphertext c.
LEMMA AliceProof ==
    ASSUME NEW par, Par(par), NEW c \in 0 .. par.N * par.N - 1, NEW m \in Nat, NEW r \in Int, Unit(r, par.N),
           Eqm(c, Pw(par.N + 1, m) * Pw(r, par.N), par.N * par.N), NEW rnd,
           rnd.alpha \in Nat, rnd.gamma \in Nat, rnd.rho \in Nat, rnd.beta \in Int, Unit(rnd.beta, par.N),
           NEW salt \in Nat
    PROVE  LET pf == Mt!ProveRangeAlice(par, c, m, r, rnd, salt)
           IN  /\ Mt!RangeProofAliceFromBytes(pf) <=> pf.s1 # 0 /\ pf.s2 # 0
               /\ Mt!VerifyRangeAlice(par, c, pf, salt) <=> pf.s1 <= Mt!q3
               /\ pf.s1 \in Nat /\ pf.s2 \in Nat
<1> DEFINE N == par.N
           NT == par.NTilde
           g == N + 1
           M == N * N
           z == Mt!Commit(par, m, rnd.rho)
           u == Pai!MulMod(Pai!Exp(g, rnd.alpha, M), Pai!Exp(rnd.beta, N, M), M)
           w == Mt!Commit(par, rnd.alpha, rnd.gamma)
           e == Mt!Challenge(salt, Mt!AsInts(N) \o <<c, z, u, w>>)
           s == Pai!MulMod(Pai!Exp(r, e, N), rnd.beta, N)
           s1 == e * m + rnd.alpha
           s2 == e * rnd.rho + rnd.gamma
           pf == Mt!ProveRangeAlice(par, c, m, r, rnd, salt)
<1>1. pf = [z |-> z, u |-> u, w |-> w, s |-> s, s1 |-> s1, s2 |-> s2]
  BY MtMul, MtExp DEF Mt!ProveRangeAlice, Mt!NSquare, Mt!Gamma
<1>2. N \in Nat /\ N > 1 /\ NT \in Nat /\ NT > 1 /\ N \in Int /\ NT \in Int /\ N > 0 /\ NT > 0
  BY DEF Par
<1>3. M \in Nat /\ M > 0 /\ M > 1 /\ M \in Int
  BY <1>2, SquarePos
<1>4. z \in 0 .. NT - 1 /\ z \in Int /\ z # 0 /\ Unit(z, NT) /\ Eqm(z, Pw(par.h1, m) * Pw(par.h2, rnd.rho), NT)
  BY MtCommit
<1>5. w \in 0 .. NT - 1 /\ w \in Int /\ w # 0 /\ Unit(w, NT)
      /\ Eqm(w, Pw(par.h1, rnd.alpha) * Pw(par.h2, rnd.gamma), NT)
  BY MtCommit
<1>6. u \in 0 .. M - 1 /\ u \in Int /\ u # 0 /\ Unit(u, M) /\ Eqm(u, Pw(g, rnd.alpha) * Pw(rnd.beta, N), M)
  BY <1>2, MaskCipher
<1>7. c \in Int /\ Unit(c, M) /\ Eqm(c, Pw(g, m) * Pw(r, N), M)
  <2>1. c \in Int
    BY <1>3
  <2>2. Cipher(c, m, N)
    BY DEF Cipher
  <2> QED BY <1>2, <2>1, <2>2, CipherUnit
<1>8. e \in Nat
  <2>1. Mt!AsInts(N) \o <<c, z, u, w>> \in Seq(Int)
    <3> HIDE DEF z, u, w, N, M
    <3>1. N + 1 \in Int
      BY <1>2
    <3> QED BY <1>2, <1>4, <1>5, <1>6, <1>7, <3>1 DEF Mt!AsInts, Mt!Gamma
  <2> QED BY <2>1, MtChallenge
<1> HIDE DEF e, z, w, u
<1>9. s \in 0 .. N - 1 /\ s \in Int /\ Eqm(s, Pw(r, e) * rnd.beta, N) /\ Unit(s, N)
  BY <1>2, <1>8, ExpTimes
<1>10. s # 0
  BY <1>2, <1>9, UnitNonZero
<1>11. s1 \in Nat /\ s2 \in Nat
  <2>1. e * m \in Nat /\ e * rnd.rho \in Nat
    BY <1>8
  <2> QED BY <2>1
<1>12. Eqm(Pw(g, s1) * Pw(s, N), Pw(c, e) * u, M)
  <2> HIDE DEF s
  <2>1. g \in Int
    BY <1>2
  <2> QED BY <1>2, <1>6, <1>7, <1>8, <1>9, <2>1, CipherResponse
<1>13. Eqm(Pw(par.h1, s1) * Pw(par.h2, s2), Pw(z, e) * w, NT)
  BY <1>2, <1>4, <1>5, <1>8, CommitResponse DEF Par
<1> HIDE DEF s, s1, s2
<1> DEFINE uTest == Pai!MulMod(Pai!MulMod(Pai!Exp(g, s1, M), Pai!Exp(s, N, M), M), Pai!Exp(c, -e, M), M)
           wTest == Pai!MulMod(Mt!Commit(par, s1, s2), Pai!Exp(z, -e, NT), NT)
<1>14. uTest = u
  <2> DEFINE x == Pai!MulMod(Pai!Exp(g, s1, M), Pai!Exp(s, N, M), M)
             X == Pw(g, s1) * Pw(s, N)
             Y == Pw(c, e) * u
  <2>1. g \in Int
    BY <1>2
  <2>2. x \in Int /\ Eqm(x, X, M)
    <3> HIDE DEF g, M
    <3> QED BY <1>2, <1>3, <1>9, <1>11, <2>1, ExpProd
  <2>3. X \in Int /\ Y \in Int
    <3>1. Pw(g, s1) \in Int /\ Pw(s, N) \in Int /\ Pw(c, e) \in Int
      <4> HIDE DEF g
      <4> QED BY <1>2, <1>7, <1>8, <1>9, <1>11, <2>1, PwDef
    <3> QED BY <1>6, <3>1
  <2>4. Eqm(X, Y, M)
    BY <1>12
  <2> HIDE DEF x, X, Y
  <2>5. Eqm(x, Y, M)
    BY <1>3, <2>2, <2>3, <2>4, EqmTrans
  <2> HIDE DEF M
  <2>6. Pai!MulMod(x, Pai!Exp(c, -e, M), M) = u
    BY <1>3, <1>6, <1>7, <1>8, <2>2, <2>5, DividedIs DEF Y
  <2> QED BY <2>6 DEF x
<1>15. wTest = w
  <2> DEFINE x == Mt!Commit(par, s1, s2)
             X == Pw(par.h1, s1) * Pw(par.h2, s2)
             Y == Pw(z, e) * w
  <2>1. par.h1 \in Int /\ par.h2 \in Int
    BY DEF Par
  <2>2. x \in Int /\ Eqm(x, X, NT)
    BY <1>11, MtCommit
  <2>3. X \in Int /\ Y \in Int
    <3>1. Pw(par.h1, s1) \in Int /\ Pw(par.h2, s2) \in Int /\ Pw(z, e) \in Int
      BY <1>4, <1>8, <1>11, <2>1, PwDef
    <3> QED BY <1>5, <3>1
  <2>4. Eqm(X, Y, NT)
    BY <1>13
  <2> HIDE DEF x, X, Y
  <2>5. Eqm(x, Y, NT)
    BY <1>2, <2>2, <2>3, <2>4, EqmTrans
  <2> HIDE DEF NT
  <2>6. Pai!MulMod(x, Pai!Exp(z, -e, NT), NT) = w
    BY <1>2, <1>4, <1>5, <1>8, <2>2, <2>5, DividedIs DEF Y
  <2> QED BY <2>6 DEF x
<1> HIDE DEF pf
<1>16. Mt!RangeProofAliceFromBytes(pf) <=> s1 # 0 /\ s2 # 0
  <2> DEFINE f == <<z, u, w, s, s1, s2>>
  <2>1. f \in Seq(Int) /\ f # <<>> /\ DOMAIN f = 1 .. 6
    BY <1>4, <1>5, <1>6, <1>9, <1>11
  <2>2. (\A i \in DOMAIN f : f[i] # 0) <=> s1 # 0 /\ s2 # 0
    <3>1. DOMAIN f = {1, 2, 3, 4, 5, 6}
      BY <2>1
    <3>2. f[1] = z /\ f[2] = u /\ f[3] = w /\ f[4] = s /\ f[5] = s1 /\ f[6] = s2
      OBVIOUS
    <3> HIDE DEF f
    <3> QED BY <1>4, <1>5, <1>6, <1>10, <3>1, <3>2
  <2>3. Mt!RangeProofAliceFromBytes(pf) = Mt!OnWire(f)
    BY <1>1 DEF Mt!RangeProofAliceFromBytes
  <2> HIDE DEF f
  <2> QED BY <2>1, <2>2, <2>3, MtOnWire
<1>17. Mt!Units({z, w}, NT) /\ Mt!Units({u}, M) /\ Mt!IsInInterval(s, N)
  <2>1. Mt!Units({z, w}, NT)
    BY <1>2, <1>4, <1>5, MtUnits
  <2>2. Mt!Units({u}, M)
    <3> HIDE DEF M
    <3> QED BY <1>3, <1>6, MtUnits
  <2>3. Mt!IsInInterval(s, N)
    BY <1>2, <1>9 DEF Mt!IsInInterval
  <2> QED BY <2>1, <2>2, <2>3
<1>18. Mt!VerifyRangeAlice(par, c, pf, salt) <=>
          Mt!Units({z, w}, NT) /\ Mt!Units({u}, M) /\ Mt!IsInInterval(s, N) /\ s1 <= Mt!q3
          /\ u = uTest /\ w = wTest
  BY <1>1, MtMul, MtExp DEF Mt!VerifyRangeAlice, Mt!NSquare, Mt!Gamma, e
<1> HIDE DEF uTest, wTest
<1>19. Mt!VerifyRangeAlice(par, c, pf, salt) <=> s1 <= Mt!q3
  BY <1>14, <1>15, <1>17, <1>18
<1>20. pf.s1 = s1 /\ pf.s2 = s2
  BY <1>1
<1> QED BY <1>11, <1>16, <1>19, <1>20 DEF pf

\* The points of the group of order QMta, whose base point is 1.
LEMMA MtMult ==
    ASSUME NEW p \in 1 .. QMta - 1, NEW k \in Nat
    PROVE  /\ (p * (k % QMta)) % QMta \in 0 .. QMta - 1
           /\ Mt!ScalarMult(p, k) = IF (p * (k % QMta)) % QMta = 0 THEN -1 ELSE (p * (k % QMta)) % QMta
<1>1. QMta \in Nat /\ QMta > 1
  BY QMtaAssumption DEF IsPrime
<1>2. Mt!Order = QMta
  BY <1>1 DEF Mt!Order
<1>3. Mt!Point = 1 .. QMta - 1
  BY <1>1, <1>2 DEF Mt!Point
<1> DEFINE a == p * (k % QMta)
           b == a % QMta
<1>4. a \in Int
  <2>1. k % QMta \in Int
    BY <1>1
  <2> QED BY <1>1, <2>1
<1> HIDE DEF a
<1>5. b \in 0 .. QMta - 1
  BY <1>1, <1>4
<1> HIDE DEF b
<1>6. Mt!ScalarMult(p, k) = Mt!NewECPoint(b)
  BY <1>1, <1>2 DEF Mt!ScalarMult, b, a
<1>7. Mt!NewECPoint(b) = IF b = 0 THEN -1 ELSE b
  BY <1>1, <1>3, <1>5 DEF Mt!NewECPoint, Mt!Nil
<1> QED BY <1>5, <1>6, <1>7 DEF b, a

LEMMA MtBaseMult ==
    ASSUME NEW k \in Nat
    PROVE  /\ k % QMta \in 0 .. QMta - 1
           /\ Mt!ScalarBaseMult(k) = IF k % QMta = 0 THEN -1 ELSE k % QMta
           /\ Mt!ScalarBaseMult(k) \in Int
<1>1. QMta \in Nat /\ QMta > 1
  BY QMtaAssumption DEF IsPrime
<1> DEFINE v == k % QMta
<1>2. v \in 0 .. QMta - 1
  BY <1>1
<1>3. 1 \in 1 .. QMta - 1
  BY <1>1
<1>4. Mt!ScalarMult(1, k) = IF (1 * v) % QMta = 0 THEN -1 ELSE (1 * v) % QMta
  BY <1>3, MtMult
<1>5. Mt!ScalarBaseMult(k) = Mt!ScalarMult(1, k)
  BY DEF Mt!ScalarBaseMult, Mt!Base
<1> HIDE DEF v
<1>6. (1 * v) % QMta = v
  BY <1>1, <1>2
<1>7. Mt!ScalarBaseMult(k) = IF v = 0 THEN -1 ELSE v
  BY <1>4, <1>5, <1>6
<1> QED BY <1>2, <1>7 DEF v

\* The equation about the ciphertexts of Bob's proof.
LEMMA BobResponse ==
    ASSUME NEW N \in Nat, N > 1, NEW c1 \in Int, NEW c2 \in Int, NEW v \in Int, NEW s \in Int, NEW r \in Int,
           NEW b \in Int, NEW e \in Nat, NEW x \in Nat, NEW y \in Nat, NEW al \in Nat, NEW ga \in Nat,
           Unit(r, N), Unit(b, N), Eqm(s, Pw(r, e) * b, N),
           Eqm(c2, Pw(c1, x) * (Pw(N + 1, y) * Pw(r, N)), N * N),
           Eqm(v, Pw(c1, al) * (Pw(N + 1, ga) * Pw(b, N)), N * N)
    PROVE  /\ Pw(c1, e * x + al) * (Pw(N + 1, e * y + ga) * Pw(s, N)) \in Int /\ Pw(c2, e) * v \in Int
           /\ Eqm(Pw(c1, e * x + al) * (Pw(N + 1, e * y + ga) * Pw(s, N)), Pw(c2, e) * v, N * N)
<1> DEFINE g == N + 1
           M == N * N
           D == Pw(g, y) * Pw(r, N)
           F == Pw(g, ga) * Pw(b, N)
           A == Pw(c1, x)
           C == Pw(c1, al)
           T == Pw(g, e * y + ga) * Pw(s, N)
<1>1. g \in Int /\ M \in Int /\ N \in Int
  OBVIOUS
<1>2. D \in Int /\ F \in Int /\ A \in Int /\ C \in Int /\ Pw(s, N) \in Int
  <2>1. Pw(g, y) \in Int /\ Pw(g, ga) \in Int
    <3> HIDE DEF g
    <3> QED BY <1>1, PwDef
  <2>2. Pw(r, N) \in Int /\ Pw(b, N) \in Int /\ A \in Int /\ C \in Int /\ Pw(s, N) \in Int
    BY PwDef
  <2> QED BY <2>1, <2>2
<1>3. e * x + al \in Nat /\ Pw(c1, e * x + al) = Pw(A, e) * C
  BY PwLinear
<1>4. e * y + ga \in Nat
  BY PwLinear, <1>1
<1>5. T \in Int
  <2>1. Pw(g, e * y + ga) \in Int
    <3> DEFINE k == e * y + ga
    <3>1. k \in Nat
      BY <1>4
    <3> HIDE DEF g, k
    <3>2. Pw(g, k) \in Int
      BY <1>1, <3>1, PwDef
    <3> QED BY <3>2 DEF k
  <2> DEFINE G == Pw(g, e * y + ga)
             S == Pw(s, N)
  <2>2. G \in Int /\ S \in Int
    BY <1>2, <2>1
  <2> HIDE DEF G, S
  <2>3. G * S \in Int
    BY <2>2
  <2> QED BY <2>3 DEF G, S
<1>6. Eqm(T, Pw(D, e) * F, M)
  <2>1. Eqm(D, D, M) /\ Eqm(F, F, M)
    <3> HIDE DEF D, F
    <3> QED BY <1>1, <1>2, EqmRefl
  <2> HIDE DEF g
  <2>2. D \in Int /\ F \in Int
    BY <1>2
  <2>3. Eqm(D, Pw(g, y) * Pw(r, N), N * N) /\ Eqm(F, Pw(g, ga) * Pw(b, N), N * N)
    BY <2>1
  <2> HIDE DEF D, F
  <2>4. Eqm(Pw(g, e * y + ga) * Pw(s, N), Pw(D, e) * F, N * N)
    BY <1>1, <2>2, <2>3, CipherResponse
  <2> QED BY <2>4
<1>7. Eqm(c2, A * D, M) /\ Eqm(v, C * F, M)
  OBVIOUS
<1> HIDE DEF A, C, D, F, M, g, T
<1>8. (Pw(A, e) * C) * (Pw(D, e) * F) \in Int /\ Pw(c2, e) * v \in Int
      /\ Eqm((Pw(A, e) * C) * (Pw(D, e) * F), Pw(c2, e) * v, M)
  BY <1>1, <1>2, <1>7, Response
<1> DEFINE B == Pw(A, e) * C
           E == Pw(D, e) * F
<1>9. B \in Int /\ E \in Int
  <2>1. Pw(A, e) \in Int /\ Pw(D, e) \in Int
    BY <1>2, PwDef
  <2> QED BY <1>2, <2>1
<1>10. Eqm(T, E, M)
  BY <1>6
<1>11. Pw(c1, e * x + al) = B
  BY <1>3
<1> HIDE DEF B, E
<1>12. Eqm(T * B, E * B, M)
  BY <1>1, <1>5, <1>9, <1>10, EqmScale, Zenon
<1>13. T * B = B * T /\ E * B = B * E /\ B * T \in Int /\ B * E \in Int
  BY <1>5, <1>9
<1> DEFINE Z == Pw(c2, e) * v
<1>14. Eqm(B * T, B * E, M) /\ Eqm(B * E, Z, M) /\ Z \in Int
  BY <1>8, <1>12, <1>13 DEF B, E
<1> HIDE DEF Z
<1>15. Eqm(B * T, Z, M)
  BY <1>1, <1>13, <1>14, EqmTrans, Zenon
<1> QED BY <1>11, <1>13, <1>14, <1>15 DEF T, Z, M, g

\* What the tests make of a proof pf of Bob: U is nil or the multiple alpha of the
\* base point, a response that is 0 has no bytes, and what is left to test are the
\* bounds of the responses and the points.
BobGood(par, c1, c2, x, X, rnd, salt, pf) ==
    /\ pf.U = IF X = -1 THEN -1 ELSE Mt!ScalarBaseMult(rnd.alpha)
    /\ Mt!ProofBobFromBytes(pf) <=> pf.s1 # 0 /\ pf.s2 # 0 /\ pf.t1 # 0 /\ pf.t2 # 0
    /\ pf.s1 \in Nat /\ pf.s2 \in Nat /\ pf.t1 \in Nat /\ pf.t2 \in Nat
    /\ \E e \in 0 .. QMta - 1 :
          /\ pf.s1 = e * x + rnd.alpha
          /\ Mt!VerifyBobWC(par, c1, c2, X, pf, salt) =
               IF ~(pf.s1 <= Mt!q3 /\ pf.t1 <= Mt!q7) THEN "reject"
               ELSE IF X # -1 /\ Mt!Add(Mt!ScalarMult(X, e), pf.U) = Mt!Panic THEN "panic"
               ELSE IF X # -1 /\ ~Mt!Equals(Mt!ScalarBaseMult(pf.s1 % QMta),
                                            Mt!Add(Mt!ScalarMult(X, e), pf.U)) THEN "reject"
               ELSE "accept"

\* The proof of a Bob that made c2 of c1 with x, y and r.
LEMMA BobProof ==
    ASSUME NEW par, Par(par), NEW c1 \in 0 .. par.N * par.N - 1, Unit(c1, par.N * par.N), NEW c2 \in Int,
           NEW x \in Nat, NEW y \in Nat, NEW r \in Int, Unit(r, par.N),
           Eqm(c2, Pw(c1, x) * (Pw(par.N + 1, y) * Pw(r, par.N)), par.N * par.N), NEW X \in Int, NEW rnd,
           rnd.alpha \in Nat, rnd.gamma \in Nat, rnd.rho \in Nat, rnd.rhoPrm \in Nat, rnd.sigma \in Nat,
           rnd.tau \in Nat, rnd.beta \in Int, Unit(rnd.beta, par.N), NEW salt \in Nat
    PROVE  BobGood(par, c1, c2, x, X, rnd, salt, Mt!ProveBobWC(par, c1, c2, x, y, r, X, rnd, salt))
<1> DEFINE N == par.N
           NT == par.NTilde
           g == N + 1
           M == N * N
           U == IF X = -1 THEN -1 ELSE Mt!ScalarBaseMult(rnd.alpha)
           z == Mt!Commit(par, x, rnd.rho)
           zPrm == Mt!Commit(par, rnd.alpha, rnd.rhoPrm)
           t == Mt!Commit(par, y, rnd.sigma)
           w == Mt!Commit(par, rnd.gamma, rnd.tau)
           v == Pai!MulMod(Pai!MulMod(Pai!Exp(c1, rnd.alpha, M), Pai!Exp(g, rnd.gamma, M), M),
                           Pai!Exp(rnd.beta, N, M), M)
           in == Mt!AsInts(N) \o (IF X = -1 THEN <<c1, c2>> ELSE <<X, c1, c2, U>>) \o <<z, zPrm, t, v, w>>
           e == Mt!Challenge(salt, in)
           s == Pai!MulMod(Pai!Exp(r, e, N), rnd.beta, N)
           s1 == e * x + rnd.alpha
           s2 == e * rnd.rho + rnd.rhoPrm
           t1 == e * y + rnd.gamma
           t2 == e * rnd.sigma + rnd.tau
           pf == Mt!ProveBobWC(par, c1, c2, x, y, r, X, rnd, salt)
<1>1. pf = [z |-> z, zPrm |-> zPrm, t |-> t, v |-> v, w |-> w, U |-> U, s |-> s, s1 |-> s1, s2 |-> s2,
            t1 |-> t1, t2 |-> t2]
  <2> DEFINE com == [z |-> z, zPrm |-> zPrm, t |-> t, w |-> w, v |-> v]
  <2>1. Mt!BobHash(salt, par, c1, c2, X, U, com) = e
    <3>1. com.z = z /\ com.zPrm = zPrm /\ com.t = t /\ com.w = w /\ com.v = v
      OBVIOUS
    <3> HIDE DEF com, z, zPrm, t, w, v, U
    <3> QED BY <3>1 DEF Mt!BobHash, Mt!Nil
  <2>2. com.z = z /\ com.zPrm = zPrm /\ com.t = t /\ com.w = w /\ com.v = v
    OBVIOUS
  <2> DEFINE vM == Mt!MulMod(Mt!MulMod(Mt!Exp(c1, rnd.alpha, M), Mt!Exp(g, rnd.gamma, M), M),
                             Mt!Exp(rnd.beta, N, M), M)
             comM == [z |-> z, zPrm |-> zPrm, t |-> t, w |-> w, v |-> vM]
             eM == Mt!BobHash(salt, par, c1, c2, X, U, comM)
  <2>3. pf = [z |-> comM.z, zPrm |-> comM.zPrm, t |-> comM.t, v |-> comM.v, w |-> comM.w, U |-> U,
              s |-> Mt!MulMod(Mt!Exp(r, eM, N), rnd.beta, N),
              s1 |-> eM * x + rnd.alpha, s2 |-> eM * rnd.rho + rnd.rhoPrm,
              t1 |-> eM * y + rnd.gamma, t2 |-> eM * rnd.sigma + rnd.tau]
    BY Zenon DEF Mt!ProveBobWC, Mt!NSquare, Mt!Gamma, Mt!Nil
  <2>4. vM = v
    BY MtMul, MtExp
  <2>5. comM = com /\ eM = e
    BY <2>1, <2>4
  <2>6. Mt!MulMod(Mt!Exp(r, e, N), rnd.beta, N) = s
    BY MtMul, MtExp
  <2> HIDE DEF z, zPrm, t, w, v, vM, com, comM, e, eM, s, U, pf
  <2> QED BY <2>2, <2>3, <2>5, <2>6
<1>2. N \in Nat /\ N > 1 /\ NT \in Nat /\ NT > 1 /\ N \in Int /\ NT \in Int /\ N > 0 /\ NT > 0
  BY DEF Par
<1>3. M \in Nat /\ M > 0 /\ M > 1 /\ M \in Int
  BY <1>2, SquarePos
<1>4. z \in 0 .. NT - 1 /\ z \in Int /\ z # 0 /\ Unit(z, NT) /\ Eqm(z, Pw(par.h1, x) * Pw(par.h2, rnd.rho), NT)
  BY MtCommit
<1>5. zPrm \in 0 .. NT - 1 /\ zPrm \in Int /\ zPrm # 0 /\ Unit(zPrm, NT)
      /\ Eqm(zPrm, Pw(par.h1, rnd.alpha) * Pw(par.h2, rnd.rhoPrm), NT)
  BY MtCommit
<1>6. t \in 0 .. NT - 1 /\ t \in Int /\ t # 0 /\ Unit(t, NT) /\ Eqm(t, Pw(par.h1, y) * Pw(par.h2, rnd.sigma), NT)
  BY MtCommit
<1>7. w \in 0 .. NT - 1 /\ w \in Int /\ w # 0 /\ Unit(w, NT)
      /\ Eqm(w, Pw(par.h1, rnd.gamma) * Pw(par.h2, rnd.tau), NT)
  BY MtCommit
<1> HIDE DEF z, zPrm, t, w
<1>8. c1 \in Int /\ g \in Int /\ Unit(g, M) /\ Unit(rnd.beta, M)
  <2>1. Unit(rnd.beta, M)
    BY <1>2, UnitBoth
  <2> QED BY <1>2, <1>3, <2>1, GammaUnit
<1>9. v \in 0 .. M - 1 /\ v \in Int /\ Unit(v, M)
      /\ Eqm(v, Pw(c1, rnd.alpha) * (Pw(g, rnd.gamma) * Pw(rnd.beta, N)), M)
  <2> DEFINE a == Pai!MulMod(Pai!Exp(c1, rnd.alpha, M), Pai!Exp(g, rnd.gamma, M), M)
             b == Pai!Exp(rnd.beta, N, M)
             C == Pw(c1, rnd.alpha)
             G == Pw(g, rnd.gamma)
             B == Pw(rnd.beta, N)
  <2> HIDE DEF M, g
  <2>1. a \in Int /\ Eqm(a, C * G, M) /\ Unit(a, M)
    BY <1>3, <1>8, ExpProd DEF M
  <2>2. b \in Int /\ Eqm(b, B, M) /\ B \in Int /\ Unit(B, M)
    BY <1>2, <1>3, <1>8, PaiExpIs, UnitPw
  <2>3. Unit(b, M)
    BY <1>3, <2>2, UnitEqm
  <2>4. C \in Int /\ G \in Int
    BY <1>8, PwDef
  <2>5. C * G \in Int
    BY <2>4
  <2> HIDE DEF a, b, C, G, B
  <2>6. v = Pai!MulMod(a, b, M)
    BY DEF a, b
  <2>7. v \in 0 .. M - 1 /\ v \in Int /\ Eqm(v, a * b, M) /\ Unit(v, M)
    BY <1>3, <2>1, <2>2, <2>3, <2>6, PaiMulIs, MulUnit
  <2> DEFINE CG == C * G
             ab == a * b
  <2>8. CG * B = C * (G * B) /\ C * (G * B) \in Int
    BY <2>2, <2>4, <2>5
  <2>9. CG \in Int /\ Eqm(a, CG, M) /\ ab \in Int /\ Eqm(v, ab, M)
    BY <2>1, <2>2, <2>5, <2>7
  <2> HIDE DEF CG
  <2>10. Eqm(ab, CG * B, M) /\ CG * B \in Int
    BY <1>3, <2>1, <2>2, <2>8, <2>9, EqmTimes
  <2> HIDE DEF ab, v
  <2>11. Eqm(v, CG * B, M)
    BY <1>3, <2>7, <2>9, <2>10, EqmTrans, Zenon
  <2> QED BY <2>7, <2>8, <2>11 DEF C, G, B
<1>10. v # 0
  <2> HIDE DEF v, M
  <2> QED BY <1>3, <1>9, UnitNonZero
<1> HIDE DEF v
<1>11. U \in Int
  BY MtBaseMult
<1> HIDE DEF U
<1>12. e \in Nat /\ e \in 0 .. QMta - 1
  <2>1. in \in Seq(Int)
    <3>1. Mt!AsInts(N) \in Seq(Int)
      BY <1>2 DEF Mt!AsInts, Mt!Gamma
    <3>2. (IF X = -1 THEN <<c1, c2>> ELSE <<X, c1, c2, U>>) \in Seq(Int)
      BY <1>8, <1>11
    <3>3. <<z, zPrm, t, v, w>> \in Seq(Int)
      BY <1>4, <1>5, <1>6, <1>7, <1>9
    <3> QED BY <3>1, <3>2, <3>3
  <2> HIDE DEF in
  <2> QED BY <2>1, MtChallenge
<1>13. Mt!BobHash(salt, par, c1, c2, X, pf.U, pf) = e
  <2>1. pf.z = z /\ pf.zPrm = zPrm /\ pf.t = t /\ pf.w = w /\ pf.v = v /\ pf.U = U
    BY <1>1
  <2> HIDE DEF pf
  <2> QED BY <2>1 DEF Mt!BobHash, Mt!Nil
<1> HIDE DEF e
<1>14. s \in 0 .. N - 1 /\ s \in Int /\ Eqm(s, Pw(r, e) * rnd.beta, N) /\ Unit(s, N)
  BY <1>2, <1>12, ExpTimes
<1>15. s # 0
  BY <1>2, <1>14, UnitNonZero
<1> HIDE DEF s
<1>16. s1 \in Nat /\ s2 \in Nat /\ t1 \in Nat /\ t2 \in Nat
  <2>1. e * x \in Nat /\ e * rnd.rho \in Nat /\ e * y \in Nat /\ e * rnd.sigma \in Nat
    BY <1>12
  <2> QED BY <2>1
<1>17. Eqm(Pw(par.h1, s1) * Pw(par.h2, s2), Pw(z, e) * zPrm, NT)
  BY <1>2, <1>4, <1>5, <1>12, CommitResponse DEF Par
<1>18. Eqm(Pw(par.h1, t1) * Pw(par.h2, t2), Pw(t, e) * w, NT)
  BY <1>2, <1>6, <1>7, <1>12, CommitResponse DEF Par
<1>19. /\ Pw(c1, s1) * (Pw(g, t1) * Pw(s, N)) \in Int /\ Pw(c2, e) * v \in Int
       /\ Eqm(Pw(c1, s1) * (Pw(g, t1) * Pw(s, N)), Pw(c2, e) * v, M)
  BY <1>2, <1>8, <1>9, <1>12, <1>14, BobResponse
<1> HIDE DEF s1, s2, t1, t2
<1>20. ASSUME NEW a \in Nat, NEW b \in Nat, NEW c \in Int, NEW d \in Int,
              Eqm(Pw(par.h1, a) * Pw(par.h2, b), Pw(c, e) * d, NT)
       PROVE  Mt!Commit(par, a, b) = Mt!MulMod(Mt!Exp(c, e, NT), d, NT)
  <2> DEFINE k == Mt!Commit(par, a, b)
             f == Pai!MulMod(Pai!Exp(c, e, NT), d, NT)
             A == Pw(par.h1, a) * Pw(par.h2, b)
             B == Pw(c, e) * d
  <2>1. k \in 0 .. NT - 1 /\ Eqm(k, A, NT)
    BY MtCommit
  <2>2. f \in 0 .. NT - 1 /\ Eqm(f, B, NT)
    BY <1>2, <1>12, ExpTimes
  <2>3. A \in Int /\ B \in Int
    <3>1. Pw(par.h1, a) \in Int /\ Pw(par.h2, b) \in Int /\ Pw(c, e) \in Int
      BY <1>12, PwDef DEF Par
    <3> QED BY <3>1
  <2>4. Eqm(A, B, NT)
    BY <1>20
  <2> HIDE DEF A, B, k, f
  <2>5. k = f
    BY <1>2, <2>1, <2>2, <2>3, <2>4, SameProduct
  <2> QED BY <2>5, MtMul, MtExp DEF k, f
<1>21. Mt!Commit(par, s1, s2) = Mt!MulMod(Mt!Exp(z, e, NT), zPrm, NT)
  BY <1>4, <1>5, <1>16, <1>17, <1>20
<1>22. Mt!Commit(par, t1, t2) = Mt!MulMod(Mt!Exp(t, e, NT), w, NT)
  BY <1>6, <1>7, <1>16, <1>18, <1>20
<1>23. Mt!MulMod(Mt!MulMod(Mt!Exp(c1, s1, M), Mt!Exp(s, N, M), M), Mt!Exp(g, t1, M), M)
         = Mt!MulMod(Mt!Exp(c2, e, M), v, M)
  <2> DEFINE a == Pai!MulMod(Pai!Exp(c1, s1, M), Pai!Exp(s, N, M), M)
             b == Pai!Exp(g, t1, M)
             f == Pai!MulMod(a, b, M)
             h == Pai!MulMod(Pai!Exp(c2, e, M), v, M)
             C == Pw(c1, s1)
             S == Pw(s, N)
             G == Pw(g, t1)
             A == C * (G * S)
             B == Pw(c2, e) * v
  <2>0. A \in Int /\ B \in Int /\ Eqm(A, B, M)
    BY <1>19
  <2> HIDE DEF M, g
  <2>1. a \in Int /\ Eqm(a, C * S, M)
    BY <1>2, <1>3, <1>8, <1>14, <1>16, ExpProd DEF M
  <2>2. b \in Int /\ Eqm(b, G, M) /\ G \in Int
    BY <1>3, <1>8, <1>16, PaiExpIs
  <2>3. h \in 0 .. M - 1 /\ Eqm(h, B, M)
    BY <1>3, <1>9, <1>12, ExpTimes
  <2>4. C \in Int /\ S \in Int
    BY <1>2, <1>8, <1>14, <1>16, PwDef
  <2> HIDE DEF a, b, C, S, G, B, h
  <2>5. f \in 0 .. M - 1 /\ f \in Int /\ Eqm(f, a * b, M)
    BY <1>3, <2>1, <2>2, PaiMulIs
  <2> DEFINE CS == C * S
             ab == a * b
  <2>6. CS \in Int /\ CS * G = A /\ ab \in Int /\ Eqm(a, CS, M) /\ Eqm(f, ab, M)
    <3>1. C * (G * S) = (C * S) * G
      BY <2>2, <2>4
    <3> QED BY <2>1, <2>2, <2>4, <2>5, <3>1
  <2> HIDE DEF CS, A
  <2>7. Eqm(ab, A, M)
    <3>1. Eqm(a * b, CS * G, M)
      BY <1>3, <2>1, <2>2, <2>6, EqmTimes, Zenon
    <3> QED BY <2>6, <3>1
  <2> HIDE DEF ab, f
  <2>8. Eqm(f, A, M)
    BY <1>3, <2>0, <2>5, <2>6, <2>7, EqmTrans, Zenon
  <2>9. f = h
    BY <1>3, <2>0, <2>3, <2>5, <2>8, SameProduct
  <2> QED BY <2>9, MtMul, MtExp DEF f, h, a, b
<1> HIDE DEF pf
<1>24. /\ pf.z = z /\ pf.zPrm = zPrm /\ pf.t = t /\ pf.w = w /\ pf.v = v /\ pf.U = U
       /\ pf.s = s /\ pf.s1 = s1 /\ pf.s2 = s2 /\ pf.t1 = t1 /\ pf.t2 = t2
  BY <1>1
<1>25. Mt!ProofBobFromBytes(pf) <=> s1 # 0 /\ s2 # 0 /\ t1 # 0 /\ t2 # 0
  <2> DEFINE f == <<z, zPrm, t, v, w, s, s1, s2, t1, t2>>
  <2>1. f \in Seq(Int) /\ f # <<>> /\ DOMAIN f = 1 .. 10
    BY <1>4, <1>5, <1>6, <1>7, <1>9, <1>14, <1>16
  <2>2. (\A i \in DOMAIN f : f[i] # 0) <=> s1 # 0 /\ s2 # 0 /\ t1 # 0 /\ t2 # 0
    <3>1. DOMAIN f = {1, 2, 3, 4, 5, 6, 7, 8, 9, 10}
      BY <2>1
    <3>2. f[1] = z /\ f[2] = zPrm /\ f[3] = t /\ f[4] = v /\ f[5] = w /\ f[6] = s /\ f[7] = s1 /\ f[8] = s2
          /\ f[9] = t1 /\ f[10] = t2
      OBVIOUS
    <3> HIDE DEF f
    <3> QED BY <1>4, <1>5, <1>6, <1>7, <1>10, <1>15, <3>1, <3>2
  <2>3. Mt!ProofBobFromBytes(pf) = Mt!OnWire(f)
    BY <1>24 DEF Mt!ProofBobFromBytes
  <2> HIDE DEF f
  <2> QED BY <2>1, <2>2, <2>3, MtOnWire
<1>26. Mt!Units({z, zPrm, t, w}, NT) /\ Mt!Units({v}, M) /\ Mt!Units({s}, N)
  <2>1. Mt!Units({z, zPrm, t, w}, NT)
    BY <1>2, <1>4, <1>5, <1>6, <1>7, MtUnits
  <2>2. Mt!Units({v}, M)
    <3> HIDE DEF M
    <3> QED BY <1>3, <1>9, MtUnits
  <2>3. Mt!Units({s}, N)
    BY <1>2, <1>14, MtUnits
  <2> QED BY <2>1, <2>2, <2>3
<1> DEFINE xEU == Mt!Add(Mt!ScalarMult(X, e), U)
           ok == s1 <= Mt!q3 /\ t1 <= Mt!q7
           eqs == /\ Mt!Commit(par, s1, s2) = Mt!MulMod(Mt!Exp(z, e, NT), zPrm, NT)
                  /\ Mt!Commit(par, t1, t2) = Mt!MulMod(Mt!Exp(t, e, NT), w, NT)
                  /\ Mt!MulMod(Mt!MulMod(Mt!Exp(c1, s1, M), Mt!Exp(s, N, M), M), Mt!Exp(g, t1, M), M)
                        = Mt!MulMod(Mt!Exp(c2, e, M), v, M)
           bounds == Mt!Units({z, zPrm, t, w}, NT) /\ Mt!Units({v}, M) /\ Mt!Units({s}, N) /\ s # 0 /\ ok
<1>27. eqs
  BY <1>21, <1>22, <1>23
<1>28. bounds <=> ok
  BY <1>15, <1>26
<1>29. Mt!VerifyBobWC(par, c1, c2, X, pf, salt) =
          CASE ~bounds -> "reject"
            [] bounds /\ X # -1 /\ xEU = Mt!Panic -> "panic"
            [] bounds /\ X # -1 /\ xEU # Mt!Panic /\ ~Mt!Equals(Mt!ScalarBaseMult(s1 % QMta), xEU) -> "reject"
            [] OTHER -> IF eqs THEN "accept" ELSE "reject"
  BY <1>13, <1>24 DEF Mt!VerifyBobWC, Mt!NSquare, Mt!Gamma, Mt!Nil
<1> HIDE DEF eqs, bounds, ok, xEU
<1>30. Mt!VerifyBobWC(par, c1, c2, X, pf, salt) =
          IF ~ok THEN "reject"
          ELSE IF X # -1 /\ xEU = Mt!Panic THEN "panic"
          ELSE IF X # -1 /\ ~Mt!Equals(Mt!ScalarBaseMult(s1 % QMta), xEU) THEN "reject"
          ELSE "accept"
  BY <1>27, <1>28, <1>29
<1>31. pf.U = IF X = -1 THEN -1 ELSE Mt!ScalarBaseMult(rnd.alpha)
  BY <1>24 DEF U
<1>32. pf.s1 = e * x + rnd.alpha
  BY <1>24 DEF s1
<1>33. Mt!VerifyBobWC(par, c1, c2, X, pf, salt) =
          IF ~(pf.s1 <= Mt!q3 /\ pf.t1 <= Mt!q7) THEN "reject"
          ELSE IF X # -1 /\ Mt!Add(Mt!ScalarMult(X, e), pf.U) = Mt!Panic THEN "panic"
          ELSE IF X # -1 /\ ~Mt!Equals(Mt!ScalarBaseMult(pf.s1 % QMta),
                                       Mt!Add(Mt!ScalarMult(X, e), pf.U)) THEN "reject"
          ELSE "accept"
  BY <1>24, <1>30 DEF ok, xEU
<1> HIDE DEF U
<1>34. Mt!ProofBobFromBytes(pf) <=> pf.s1 # 0 /\ pf.s2 # 0 /\ pf.t1 # 0 /\ pf.t2 # 0
  BY <1>24, <1>25
<1>35. pf.s1 \in Nat /\ pf.s2 \in Nat /\ pf.t1 \in Nat /\ pf.t2 \in Nat
  BY <1>16, <1>24
<1>36. BobGood(par, c1, c2, x, X, rnd, salt, pf)
  BY <1>12, <1>31, <1>32, <1>33, <1>34, <1>35 DEF BobGood
<1> QED BY <1>36 DEF pf

-----------------------------------------------------------------------------
(* The conversion.                                                         *)

\* The inputs of a conversion.
LEMMA MtaInputs ==
    ASSUME NEW j \in MtaJobs
    PROVE  LET N == j.P * j.R
           IN  /\ KeyOk(j.P, j.R) /\ N \in Nat /\ N > 1 /\ Par(ParOf(j)) /\ ParOf(j).N = N
               /\ j.a \in Nat /\ j.a \in 0 .. QMta - 1 /\ j.b \in Nat /\ j.b \in 1 .. QMta - 1
               /\ j.betaPrm \in Nat /\ j.betaPrm < Mt!q5 /\ Mt!q5 \in Nat /\ Mt!q5 + QMta * QMta <= N
               /\ \A v \in {j.rA, j.rndA.beta, j.cRand, j.rndB.beta} : v \in Int /\ v # 0 /\ Unit(v, N)
               /\ j.rndA.alpha \in Nat /\ j.rndA.gamma \in Nat /\ j.rndA.rho \in Nat
               /\ j.rndB.alpha \in Nat /\ j.rndB.gamma \in Nat /\ j.rndB.rho \in Nat /\ j.rndB.rhoPrm \in Nat
               /\ j.rndB.sigma \in Nat /\ j.rndB.tau \in Nat
               /\ j.salt \in Nat /\ j.wc \in BOOLEAN
<1> DEFINE N == j.P * j.R
<1>1. QMta \in Nat /\ QMta > 1
  BY QMtaAssumption DEF IsPrime
<1>2. ParOk(j) /\ Mt!q5 + QMta * QMta <= N /\ j.salt \in Nat /\ j.wc \in BOOLEAN
      /\ j.a \in 0 .. QMta - 1 /\ j.b \in 1 .. QMta - 1
      /\ InGroup(N, {j.rA, j.rndA.beta, j.cRand, j.rndB.beta}) /\ j.betaPrm \in Draw(Mt!q5)
  BY MtaJobsAssumption
<1>3. KeyOk(j.P, j.R) /\ N \in Nat /\ N > 1
  BY <1>2, KeyIs DEF ParOk
<1>4. Par(ParOf(j)) /\ ParOf(j).N = N
  <2> HIDE DEF N
  <2>1. ParOf(j).N = N /\ ParOf(j).NTilde = j.NTilde /\ ParOf(j).h1 = j.h1 /\ ParOf(j).h2 = j.h2
    BY DEF ParOf, N
  <2>2. j.NTilde \in Nat /\ j.NTilde > 1 /\ InGroup(j.NTilde, {j.h1, j.h2})
    BY <1>2 DEF ParOk
  <2>3. j.h1 \in Int /\ Unit(j.h1, j.NTilde) /\ j.h2 \in Int /\ Unit(j.h2, j.NTilde)
    BY <2>2, GroupIs
  <2> QED BY <1>3, <2>1, <2>2, <2>3 DEF Par
<1>5. ASSUME NEW n, NEW v \in Draw(n) PROVE v \in Nat
  BY DEF Draw, Pai!RandomPositiveInt
<1>6. Mt!q3 \in Nat /\ Mt!q5 \in Nat
  <2>1. Mt!q3 \in Nat
    <3>1. QMta * QMta \in Nat
      BY <1>1
    <3> QED BY <1>1, <3>1 DEF Mt!q3
  <2>2. Mt!q3 * QMta \in Nat
    BY <1>1, <2>1
  <2> QED BY <1>1, <2>1, <2>2 DEF Mt!q5
<1>7. j.betaPrm \in Nat /\ j.betaPrm < Mt!q5
  BY <1>2, <1>6 DEF Draw, Pai!RandomPositiveInt
<1>8. \A v \in {j.rA, j.rndA.beta, j.cRand, j.rndB.beta} : v \in Int /\ v # 0 /\ Unit(v, N)
  <2> HIDE DEF N
  <2> QED BY <1>2, <1>3, GroupIs
<1>9. j.rndA \in [alpha : Draw(Mt!q3), beta : Nat, gamma : Draw(Mt!q3 * j.NTilde), rho : Draw(QMta * j.NTilde)]
  BY MtaJobsAssumption
<1>10. j.rndB \in [alpha : Draw(Mt!q3), beta : Nat, gamma : Draw(Mt!q7), rho : Draw(QMta * j.NTilde),
                   rhoPrm : Draw(Mt!q3 * j.NTilde), sigma : Draw(QMta * j.NTilde), tau : Draw(Mt!q3 * j.NTilde)]
  BY MtaJobsAssumption
<1>11. j.rndA.alpha \in Nat /\ j.rndA.gamma \in Nat /\ j.rndA.rho \in Nat
  BY <1>5, <1>9
<1>12. j.rndB.alpha \in Nat /\ j.rndB.gamma \in Nat /\ j.rndB.rho \in Nat /\ j.rndB.rhoPrm \in Nat
       /\ j.rndB.sigma \in Nat /\ j.rndB.tau \in Nat
  BY <1>5, <1>10
<1>13. j.a \in Nat /\ j.b \in Nat
  BY <1>1, <1>2
<1> HIDE DEF N
<1> QED BY <1>2, <1>3, <1>4, <1>6, <1>7, <1>8, <1>11, <1>12, <1>13 DEF N

\* Bob's ciphertext.
LEMMA BobCipherIs ==
    ASSUME NEW par, NEW N \in Nat, N > 1, par.N = N, NEW a \in Nat, NEW b \in 0 .. N - 1, NEW y \in 0 .. N - 1,
           NEW c1 \in 0 .. N * N - 1, Cipher(c1, a, N), NEW r \in Int, r # 0, Unit(r, N)
    PROVE  LET c2 == Mt!BobCipher(par, c1, b, y, r)
           IN  /\ c2 \in 0 .. N * N - 1 /\ c2 \in Int /\ Cipher(c2, a * b + y, N)
               /\ Eqm(c2, Pw(c1, b) * (Pw(N + 1, y) * Pw(r, N)), N * N)
<1> DEFINE M == N * N
           h == Pai!HomoMult(N, b, c1)
           d == Pai!EncryptWithChosenRandomness(N, y, r)
           c2 == Pai!HomoAdd(N, h, d)
           D == Pw(N + 1, y) * Pw(r, N)
           H == Pw(c1, b)
<1>0. M \in Nat /\ M > 0 /\ M \in Int
  BY SquarePos
<1>1. Mt!BobCipher(par, c1, b, y, r) = c2
  BY MtMul, MtExp DEF Mt!BobCipher, Mt!HomoAdd, Pai!HomoAdd, Mt!HomoMult, Pai!HomoMult,
     Mt!EncryptWithChosenRandomness, Pai!EncryptWithChosenRandomness, Mt!IsInInterval, Pai!IsInInterval,
     Mt!NSquare, Pai!NSquare, Mt!Gamma, Pai!Gamma, Mt!Nil, Pai!Nil
<1>2. h \in 0 .. M - 1 /\ h \in Int /\ Cipher(h, a * b, N)
  BY HomoMultCipher
<1>3. d \in 0 .. M - 1 /\ d \in Int /\ Cipher(d, y, N) /\ Eqm(d, D, M)
  BY EncryptCipher, EncryptIs
<1>4. b \in Nat /\ y \in Nat /\ a * b \in Nat
  <2>1. b \in Nat /\ y \in Nat
    OBVIOUS
  <2>2. a * b \in Nat
    BY <2>1
  <2> QED BY <2>1, <2>2
<1>5. h = Pai!Exp(c1, b, M)
  BY <1>0 DEF Pai!HomoMult, Pai!IsInInterval, Pai!NSquare
<1>6. c1 \in Int /\ Eqm(h, H, M) /\ H \in Int
  <2>1. c1 \in Int
    BY <1>0
  <2> HIDE DEF M
  <2> QED BY <1>0, <1>4, <1>5, <2>1, PaiExpIs
<1> HIDE DEF h, d
<1>7. c2 \in 0 .. M - 1 /\ c2 \in Int /\ Cipher(c2, a * b + y, N)
  <2> DEFINE p == a * b
  <2>1. p \in Nat /\ Cipher(h, p, N)
    BY <1>2, <1>4
  <2> HIDE DEF p
  <2>2. c2 \in 0 .. M - 1 /\ c2 \in Int /\ Cipher(c2, p + y, N)
    BY <1>2, <1>3, <1>4, <2>1, HomoAddCipher
  <2> QED BY <2>2 DEF p
<1>8. D \in Int
  <2>1. Pw(N + 1, y) \in Int /\ Pw(r, N) \in Int
    <3> DEFINE g == N + 1
    <3>1. g \in Int
      OBVIOUS
    <3> HIDE DEF g
    <3>2. Pw(g, y) \in Int /\ Pw(r, N) \in Int
      BY <1>4, <3>1, PwDef
    <3> QED BY <3>2 DEF g
  <2> QED BY <2>1
<1>9. c2 = Pai!MulMod(h, d, M)
  BY <1>0, <1>2, <1>3 DEF Pai!HomoAdd, Pai!IsInInterval, Pai!NSquare
<1> HIDE DEF M, D, H, c2
<1>10. Eqm(c2, h * d, M) /\ h * d \in Int
  <2>1. h * d \in Int
    BY <1>2, <1>3
  <2> QED BY <1>0, <1>2, <1>3, <1>9, <2>1, PaiMulIs
<1>11. Eqm(h * d, H * D, M) /\ H * D \in Int
  BY <1>0, <1>2, <1>3, <1>6, <1>8, EqmTimes
<1>12. Eqm(c2, H * D, M)
  BY <1>0, <1>7, <1>10, <1>11, EqmTrans, Zenon
<1> QED BY <1>1, <1>7, <1>12 DEF H, D, M, c2

\* Two residues of numbers that add up.
LEMMA SharesSum ==
    ASSUME NEW p \in Nat, NEW y \in Nat, NEW q \in Nat, q > 0
    PROVE  (((p + y) % q) + ((0 - y) % q)) % q = p % q
<1> DEFINE u == (p + y) % q
           v == (0 - y) % q
<1>1. u \in Int /\ v \in Int /\ Eqm(u, p + y, q) /\ Eqm(v, 0 - y, q) /\ q \in Int /\ p + y \in Int /\ 0 - y \in Int
  <2>1. p + y \in Int /\ 0 - y \in Int
    OBVIOUS
  <2>2. u \in Int /\ Eqm(u, p + y, q)
    BY <2>1, ModIs
  <2>3. v \in Int /\ Eqm(v, 0 - y, q)
    BY <2>1, ModIs
  <2> QED BY <2>1, <2>2, <2>3
<1> HIDE DEF u, v
<1>2. Eqm(u + v, (p + y) + (0 - y), q)
  BY <1>1, EqmPlus
<1>3. (p + y) + (0 - y) = p /\ u + v \in Int
  BY <1>1
<1>4. Eqm(u + v, p, q)
  BY <1>2, <1>3
<1> DEFINE w == u + v
<1>5. w \in Int /\ Eqm(w, p, q)
  BY <1>3, <1>4
<1> HIDE DEF w
<1>6. w % q = p % q
  BY <1>5, EqmMod
<1>7. (u + v) % q = p % q
  BY <1>6 DEF w
<1> QED BY <1>7, Zenon DEF u, v

\* The test of g^s1 = X^e * U that the proof with check adds.
LEMMA BobPoint ==
    ASSUME NEW b \in 1 .. QMta - 1, NEW e \in 0 .. QMta - 1, NEW a \in Nat
    PROVE  LET s == e * b + a
               xEU == Mt!Add(Mt!ScalarMult(b, e), Mt!ScalarBaseMult(a))
           IN  /\ xEU = Mt!Panic => a % QMta = 0 \/ (s - a) % QMta = 0
               /\ xEU # Mt!Panic /\ s % QMta # 0 => Mt!Equals(Mt!ScalarBaseMult(s % QMta), xEU)
<1> DEFINE q == QMta
           k == e * b
           s == k + a
           x == k % q
           u == a % q
           p == Mt!ScalarMult(b, e)
           U == Mt!ScalarBaseMult(a)
           xEU == Mt!Add(p, U)
<1>1. q \in Nat /\ q > 1 /\ q > 0
  BY QMtaAssumption DEF IsPrime
<1>2. e \in Nat /\ b \in Nat
  BY <1>1
<1>3. k \in Nat
  BY <1>2
<1>4. x \in 0 .. q - 1 /\ u \in 0 .. q - 1
  BY <1>1, <1>3
<1>5. p = IF x = 0 THEN -1 ELSE x
  <2>1. e % q = e
    BY <1>1
  <2>2. b * e = k
    BY <1>2
  <2>3. Mt!ScalarMult(b, e) = IF (b * (e % q)) % q = 0 THEN -1 ELSE (b * (e % q)) % q
    BY <1>2, MtMult
  <2> QED BY <2>1, <2>2, <2>3
<1>6. U = IF u = 0 THEN -1 ELSE u
  BY MtBaseMult
<1> HIDE DEF k, p, U
<1>7. xEU = IF x = 0 \/ u = 0 THEN -2 ELSE Mt!NewECPoint((x + u) % q)
  <2>1. Mt!Order = q
    BY <1>1 DEF Mt!Order
  <2> HIDE DEF x, u
  <2> QED BY <1>4, <1>5, <1>6, <2>1 DEF Mt!Add, Mt!Panic
<1>8. (x + u) % q = s % q /\ s \in Nat /\ s % q \in 0 .. q - 1
  <2>1. Eqm(x, k, q) /\ Eqm(u, a, q) /\ x \in Int /\ u \in Int /\ k \in Int /\ a \in Int /\ q \in Int
    <3>1. k \in Int /\ a \in Int /\ q \in Int
      BY <1>1, <1>3
    <3>2. Eqm(x, k, q) /\ x \in Int
      BY <1>1, <3>1, ModIs
    <3>3. Eqm(u, a, q) /\ u \in Int
      BY <1>1, <3>1, ModIs
    <3> QED BY <3>1, <3>2, <3>3
  <2>2. s \in Nat
    BY <1>3
  <2> HIDE DEF x, u
  <2>3. Eqm(x + u, s, q)
    BY <2>1, EqmPlus
  <2> DEFINE xu == x + u
  <2>4. xu \in Int /\ Eqm(xu, s, q) /\ s \in Int
    BY <2>1, <2>2, <2>3
  <2> HIDE DEF xu, s
  <2>5. xu % q = s % q /\ s % q \in 0 .. q - 1
    BY <1>1, <2>4, EqmMod, ModIs
  <2> QED BY <2>2, <2>5 DEF xu
<1>9. s - a = k
  BY <1>3
<1> DEFINE v == s % q
<1>10. Mt!NewECPoint(v) = IF v = 0 THEN -1 ELSE v
  <2>1. Mt!Point = 1 .. q - 1
    BY <1>1 DEF Mt!Point, Mt!Order
  <2>2. v \in 0 .. q - 1
    BY <1>8
  <2> HIDE DEF v
  <2> QED BY <1>1, <2>1, <2>2 DEF Mt!NewECPoint, Mt!Nil
<1>11. Mt!ScalarBaseMult(v) = IF v = 0 THEN -1 ELSE v
  <2>1. v \in Nat /\ v \in 0 .. q - 1
    BY <1>1, <1>8
  <2> HIDE DEF v
  <2>2. v % q = v
    BY <1>1, <2>1
  <2> QED BY <2>1, <2>2, MtBaseMult
<1>12. v \in 0 .. q - 1
  BY <1>8
<1>13. ~(x = 0 \/ u = 0) => xEU = IF v = 0 THEN -1 ELSE v
  BY <1>7, <1>8, <1>10
<1>14. xEU = Mt!Panic => u = 0 \/ x = 0
  <2> HIDE DEF xEU, v, x, u
  <2> QED BY <1>1, <1>12, <1>13 DEF Mt!Panic
<1>15. xEU # Mt!Panic /\ v # 0 => Mt!Equals(Mt!ScalarBaseMult(v), xEU)
  <2>1. x = 0 \/ u = 0 => xEU = -2
    BY <1>7
  <2> HIDE DEF xEU, v, x, u
  <2> QED BY <1>1, <1>11, <1>12, <1>13, <2>1 DEF Mt!Panic, Mt!Equals
<1> HIDE DEF xEU, s
<1>16. (s - a) % q = x
  BY <1>9
<1> QED BY <1>14, <1>15, <1>16 DEF xEU, s, p, U, k

\* MtaSharesAddUp, of the conversion j that ended with o.
MtaGood(j, o) ==
    LET zeroPoint == 0 \in {j.rndB.alpha % QMta, (o.pfB.s1 - j.rndB.alpha) % QMta, o.pfB.s1 % QMta}
    IN  CASE o.stop = "no" -> (o.alpha + o.beta) % QMta = (j.a * j.b) % QMta
          [] o.stop = "range bytes" -> 0 \in {o.pfA.s1, o.pfA.s2}
          [] o.stop = "range proof" -> o.pfA.s1 > Mt!q3
          [] o.stop = "nil point" -> j.wc /\ j.rndB.alpha % QMta = 0
          [] o.stop = "bob bytes" -> 0 \in {o.pfB.s1, o.pfB.s2, o.pfB.t1, o.pfB.t2}
          [] o.stop = "panic" -> j.wc /\ zeroPoint
          [] o.stop = "reject" -> o.pfB.s1 > Mt!q3 \/ o.pfB.t1 > Mt!q7 \/ (j.wc /\ zeroPoint)

\* Both orders in which a conversion ends.
LEMMA MtaJob ==
    ASSUME NEW j \in MtaJobs
    PROVE  LET bob == BobOut(j, AliceOut(j))
           IN  /\ bob.stop # "no" => MtaGood(j, bob)
               /\ MtaGood(j, AliceEndOut(j, bob))
<1> DEFINE N == j.P * j.R
           M == N * N
           par == ParOf(j)
           X == MtaX(j)
           q == QMta
           cA == Pai!EncryptWithChosenRandomness(N, j.a, j.rA)
           pfA == Mt!ProveRangeAlice(par, cA, j.a, j.rA, j.rndA, j.salt)
           cB == Mt!BobCipher(par, cA, j.b, j.betaPrm, j.cRand)
           pfB == Mt!ProveBobWC(par, cA, cB, j.b, j.betaPrm, j.cRand, X, j.rndB, j.salt)
           bob == BobOut(j, AliceOut(j))
           end == AliceEndOut(j, bob)
           verdict == Mt!VerifyBobWC(par, cA, cB, X, pfB, j.salt)
           zero == 0 \in {j.rndB.alpha % q, (pfB.s1 - j.rndB.alpha) % q, pfB.s1 % q}
<1>1. /\ KeyOk(j.P, j.R) /\ N \in Nat /\ N > 1 /\ Par(par) /\ par.N = N
      /\ j.a \in Nat /\ j.a \in 0 .. q - 1 /\ j.b \in Nat /\ j.b \in 1 .. q - 1
      /\ j.betaPrm \in Nat /\ j.betaPrm < Mt!q5 /\ Mt!q5 \in Nat /\ Mt!q5 + q * q <= N
      /\ \A v \in {j.rA, j.rndA.beta, j.cRand, j.rndB.beta} : v \in Int /\ v # 0 /\ Unit(v, N)
      /\ j.rndA.alpha \in Nat /\ j.rndA.gamma \in Nat /\ j.rndA.rho \in Nat
      /\ j.rndB.alpha \in Nat /\ j.rndB.gamma \in Nat /\ j.rndB.rho \in Nat /\ j.rndB.rhoPrm \in Nat
      /\ j.rndB.sigma \in Nat /\ j.rndB.tau \in Nat /\ j.salt \in Nat /\ j.wc \in BOOLEAN
  BY MtaInputs
<1>2. q \in Nat /\ q > 1 /\ q > 0
  BY QMtaAssumption DEF IsPrime
<1>3. bob.cA = cA /\ bob.pfA = pfA /\ bob.cB = cB /\ bob.pfB = pfB /\ bob.beta = Mt!BobBeta(j.betaPrm)
      /\ bob.stop = IF ~Mt!RangeProofAliceFromBytes(pfA) THEN "range bytes"
                    ELSE IF ~Mt!VerifyRangeAlice(par, cA, pfA, j.salt) THEN "range proof"
                    ELSE IF Mt!ProveBobPanics(X, pfB) THEN "nil point"
                    ELSE "no"
  <2>1. AliceOut(j).cA = cA /\ AliceOut(j).pfA = pfA
    BY DEF AliceOut
  <2> HIDE DEF cA, pfA
  <2> QED BY <2>1 DEF BobOut
<1>4. /\ end.pfA = pfA /\ end.pfB = pfB /\ end.beta = Mt!BobBeta(j.betaPrm)
      /\ end.stop = IF ~Mt!ProofBobFromBytes(pfB) THEN "bob bytes" ELSE IF verdict = "accept" THEN "no" ELSE verdict
      /\ end.stop = "no" => end.alpha = Mt!AliceShare(Pai!KeyPair(j.P, j.R), cB)
  <2>1. bob = [cA |-> cA, pfA |-> pfA, cB |-> cB, pfB |-> pfB, stop |-> bob.stop, beta |-> bob.beta, alpha |-> Nil]
    <3>1. AliceOut(j).cA = cA /\ AliceOut(j).pfA = pfA
      BY DEF AliceOut
    <3> HIDE DEF cA, pfA
    <3> QED BY <3>1 DEF BobOut
  <2> HIDE DEF bob, cA, pfA, cB, pfB
  <2> DEFINE stop == IF ~Mt!ProofBobFromBytes(pfB) THEN "bob bytes" ELSE IF verdict = "accept" THEN "no" ELSE verdict
             alpha == IF stop = "no" THEN Mt!AliceShare(Pai!KeyPair(j.P, j.R), cB) ELSE Nil
  <2>2. end = [bob EXCEPT !.stop = stop, !.alpha = alpha]
    BY <1>3 DEF AliceEndOut
  <2> HIDE DEF stop, alpha, end
  <2>3. end.pfA = pfA /\ end.pfB = pfB /\ end.beta = bob.beta /\ end.stop = stop /\ end.alpha = alpha
    BY <2>1, <2>2
  <2> QED BY <1>3, <2>3 DEF stop, alpha
<1> HIDE DEF bob, end
<1>5. M \in Nat /\ M > 0 /\ M \in Int
  BY <1>1, SquarePos
<1>6. q <= N /\ j.a \in 0 .. N - 1 /\ j.b \in 0 .. N - 1 /\ j.betaPrm \in 0 .. N - 1
      /\ j.a * j.b \in Nat /\ j.a * j.b + j.betaPrm \in 0 .. N - 1
  <2> HIDE DEF N, q
  <2>1. q <= q * q
    BY <1>2
  <2>2. j.a * j.b \in Nat /\ j.a * j.b <= q * q
    <3>1. j.a * j.b <= q * j.b /\ j.a * j.b \in Nat
      BY <1>1, <1>2
    <3>2. q * j.b <= q * q
      BY <1>1, <1>2
    <3> QED BY <1>1, <1>2, <3>1, <3>2
  <2> DEFINE qq == q * q
             ab == j.a * j.b
  <2>3. qq \in Nat /\ ab \in Nat /\ ab <= qq /\ q <= qq /\ Mt!q5 + qq <= N
    BY <1>1, <1>2, <2>1, <2>2
  <2> HIDE DEF qq, ab
  <2>4. q <= N /\ j.a \in 0 .. N - 1 /\ j.b \in 0 .. N - 1 /\ j.betaPrm \in 0 .. N - 1
        /\ ab + j.betaPrm \in 0 .. N - 1
    BY <1>1, <1>2, <2>3
  <2> QED BY <2>3, <2>4 DEF ab
<1>7. cA \in 0 .. M - 1 /\ cA \in Int /\ Cipher(cA, j.a, N) /\ Eqm(cA, Pw(N + 1, j.a) * Pw(j.rA, N), M)
  <2> HIDE DEF N
  <2> QED BY <1>1, <1>6, EncryptCipher, EncryptIs
<1>8. Unit(cA, M)
  <2> HIDE DEF N, cA
  <2> QED BY <1>1, <1>7, CipherUnit
<1> HIDE DEF cA
<1>9. /\ cB \in 0 .. M - 1 /\ cB \in Int /\ Cipher(cB, j.a * j.b + j.betaPrm, N)
      /\ Eqm(cB, Pw(cA, j.b) * (Pw(N + 1, j.betaPrm) * Pw(j.cRand, N)), M)
  <2> HIDE DEF N, par
  <2> QED BY <1>1, <1>6, <1>7, BobCipherIs
<1>10. X = IF j.wc THEN j.b ELSE -1
  <2>1. j.b % q = j.b
    BY <1>1, <1>2
  <2> QED BY <1>1, <1>2, <2>1, MtBaseMult DEF MtaX, Nil
<1>11. X \in Int
  BY <1>1, <1>10
<1>12. /\ Mt!RangeProofAliceFromBytes(pfA) <=> pfA.s1 # 0 /\ pfA.s2 # 0
       /\ Mt!VerifyRangeAlice(par, cA, pfA, j.salt) <=> pfA.s1 <= Mt!q3
       /\ pfA.s1 \in Nat /\ pfA.s2 \in Nat
  <2> HIDE DEF N, par
  <2> QED BY <1>1, <1>7, AliceProof
<1> HIDE DEF cB
<1>13. /\ pfB.U = IF X = -1 THEN -1 ELSE Mt!ScalarBaseMult(j.rndB.alpha)
       /\ Mt!ProofBobFromBytes(pfB) <=> pfB.s1 # 0 /\ pfB.s2 # 0 /\ pfB.t1 # 0 /\ pfB.t2 # 0
       /\ pfB.s1 \in Nat /\ pfB.s2 \in Nat /\ pfB.t1 \in Nat /\ pfB.t2 \in Nat
       /\ \E e \in 0 .. QMta - 1 :
             /\ pfB.s1 = e * j.b + j.rndB.alpha
             /\ verdict = IF ~(pfB.s1 <= Mt!q3 /\ pfB.t1 <= Mt!q7) THEN "reject"
                          ELSE IF X # -1 /\ Mt!Add(Mt!ScalarMult(X, e), pfB.U) = Mt!Panic THEN "panic"
                          ELSE IF X # -1 /\ ~Mt!Equals(Mt!ScalarBaseMult(pfB.s1 % QMta),
                                                       Mt!Add(Mt!ScalarMult(X, e), pfB.U)) THEN "reject"
                          ELSE "accept"
  <2> HIDE DEF N, par, X
  <2>1. cA \in 0 .. par.N * par.N - 1 /\ Unit(cA, par.N * par.N)
        /\ Eqm(cB, Pw(cA, j.b) * (Pw(par.N + 1, j.betaPrm) * Pw(j.cRand, par.N)), par.N * par.N)
        /\ j.cRand \in Int /\ Unit(j.cRand, par.N) /\ j.rndB.beta \in Int /\ Unit(j.rndB.beta, par.N)
    BY <1>1, <1>7, <1>8, <1>9
  <2>2. cB \in Int /\ Par(par)
    BY <1>1, <1>9
  <2>3. j.b \in Nat /\ j.betaPrm \in Nat /\ j.salt \in Nat
        /\ j.rndB.alpha \in Nat /\ j.rndB.gamma \in Nat /\ j.rndB.rho \in Nat /\ j.rndB.rhoPrm \in Nat
        /\ j.rndB.sigma \in Nat /\ j.rndB.tau \in Nat
    BY <1>1
  <2>4. BobGood(par, cA, cB, j.b, X, j.rndB, j.salt, pfB)
    BY <1>11, <2>1, <2>2, <2>3, BobProof
  <2> HIDE DEF pfB
  <2> QED BY <2>4 DEF BobGood
<1>14. Mt!q3 \in Nat /\ Mt!q7 \in Nat
  <2>1. Mt!q3 \in Nat
    <3>1. QMta * QMta \in Nat
      BY <1>2
    <3> QED BY <1>2, <3>1 DEF Mt!q3
  <2>2. Mt!q5 * QMta \in Nat
    BY <1>1, <1>2
  <2> QED BY <1>2, <2>1, <2>2 DEF Mt!q7
<1> HIDE DEF pfA, pfB, verdict
<1>15. bob.stop # "no" => MtaGood(j, bob)
  <2>1. CASE bob.stop = "range bytes"
    <3>1. 0 \in {pfA.s1, pfA.s2}
      BY <1>3, <1>12, <2>1
    <3> QED BY <1>3, <2>1, <3>1 DEF MtaGood
  <2>2. CASE bob.stop = "range proof"
    <3>0. ~Mt!VerifyRangeAlice(par, cA, pfA, j.salt)
      BY <1>3, <2>2
    <3>1. pfA.s1 > Mt!q3
      BY <1>12, <1>14, <3>0
    <3> QED BY <1>3, <2>2, <3>1 DEF MtaGood
  <2>3. CASE bob.stop = "nil point"
    <3>1. X # -1 /\ pfB.U = -1
      BY <1>3, <2>3 DEF Mt!ProveBobPanics, Mt!Nil
    <3>2. j.wc /\ Mt!ScalarBaseMult(j.rndB.alpha) = -1
      BY <1>1, <1>10, <1>13, <3>1
    <3>3. j.rndB.alpha % q = 0
      BY <1>1, <1>2, <3>2, MtBaseMult
    <3> QED BY <1>3, <2>3, <3>2, <3>3 DEF MtaGood
  <2> QED BY <1>3, <2>1, <2>2, <2>3
<1>16. end.stop = "no" => (end.alpha + end.beta) % q = (j.a * j.b) % q
  <2> SUFFICES ASSUME end.stop = "no" PROVE (end.alpha + end.beta) % q = (j.a * j.b) % q
    OBVIOUS
  <2> DEFINE ab == j.a * j.b
             m == ab + j.betaPrm
  <2>1. ab \in Nat /\ m \in 0 .. N - 1 /\ Cipher(cB, m, N)
    BY <1>6, <1>9
  <2>2. m \in Nat /\ m % N = m
    <3> HIDE DEF N, m
    <3> QED BY <1>1, <2>1
  <2>3. Pai!Decrypt(Pai!KeyPair(j.P, j.R), cB) = m % N
    <3> HIDE DEF m
    <3> QED BY <1>1, <1>9, <2>1, <2>2, DecryptIs
  <2>4. end.alpha = m % q
    <3>1. Mt!AliceShare(Pai!KeyPair(j.P, j.R), cB) = Pai!Decrypt(Pai!KeyPair(j.P, j.R), cB) % q
      BY MtMul, MtExp, MtInverse, PaiInverse
      DEF Mt!AliceShare, Mt!Decrypt, Pai!Decrypt, Mt!L, Pai!L, Mt!Gamma, Pai!Gamma, Mt!NSquare, Pai!NSquare,
          Mt!IsInInterval, Pai!IsInInterval, Mt!Nil, Pai!Nil
    <3> QED BY <1>4, <2>2, <2>3, <3>1
  <2>5. end.beta = (0 - j.betaPrm) % q
    BY <1>4 DEF Mt!BobBeta
  <2> HIDE DEF ab
  <2>6. (((ab + j.betaPrm) % q) + ((0 - j.betaPrm) % q)) % q = ab % q
    <3> HIDE DEF q
    <3>1. ab \in Nat /\ j.betaPrm \in Nat /\ q \in Nat /\ q > 0
      BY <1>1, <1>2, <2>1
    <3> QED BY <3>1, SharesSum, Zenon
  <2>7. (end.alpha + end.beta) % q = ab % q
    BY <2>4, <2>5, <2>6
  <2> QED BY <2>7 DEF ab
<1>17. PICK e \in 0 .. QMta - 1 :
             /\ pfB.s1 = e * j.b + j.rndB.alpha
             /\ verdict = IF ~(pfB.s1 <= Mt!q3 /\ pfB.t1 <= Mt!q7) THEN "reject"
                          ELSE IF X # -1 /\ Mt!Add(Mt!ScalarMult(X, e), pfB.U) = Mt!Panic THEN "panic"
                          ELSE IF X # -1 /\ ~Mt!Equals(Mt!ScalarBaseMult(pfB.s1 % QMta),
                                                       Mt!Add(Mt!ScalarMult(X, e), pfB.U)) THEN "reject"
                          ELSE "accept"
  BY <1>13
<1> DEFINE xEU == Mt!Add(Mt!ScalarMult(j.b, e), Mt!ScalarBaseMult(j.rndB.alpha))
<1>18. /\ xEU = Mt!Panic => j.rndB.alpha % q = 0 \/ (pfB.s1 - j.rndB.alpha) % q = 0
       /\ xEU # Mt!Panic /\ pfB.s1 % q # 0 => Mt!Equals(Mt!ScalarBaseMult(pfB.s1 % q), xEU)
  BY <1>1, <1>17, BobPoint
<1>19. j.wc => X # -1 /\ Mt!Add(Mt!ScalarMult(X, e), pfB.U) = xEU
  BY <1>1, <1>2, <1>10, <1>13
<1> HIDE DEF X, xEU
<1>20. verdict = "panic" => j.wc /\ zero
  <2> SUFFICES ASSUME verdict = "panic" PROVE j.wc /\ zero
    OBVIOUS
  <2>1. X # -1 /\ Mt!Add(Mt!ScalarMult(X, e), pfB.U) = Mt!Panic
    BY <1>17
  <2>2. j.wc
    BY <1>1, <1>10, <2>1
  <2>3. xEU = Mt!Panic
    BY <1>19, <2>1, <2>2
  <2> QED BY <1>18, <2>2, <2>3
<1>21. verdict = "reject" => pfB.s1 > Mt!q3 \/ pfB.t1 > Mt!q7 \/ (j.wc /\ zero)
  <2> SUFFICES ASSUME verdict = "reject", pfB.s1 <= Mt!q3 /\ pfB.t1 <= Mt!q7 PROVE j.wc /\ zero
    BY <1>13, <1>14
  <2>1. X # -1 /\ Mt!Add(Mt!ScalarMult(X, e), pfB.U) # Mt!Panic
        /\ ~Mt!Equals(Mt!ScalarBaseMult(pfB.s1 % QMta), Mt!Add(Mt!ScalarMult(X, e), pfB.U))
    BY <1>17
  <2>2. j.wc
    BY <1>1, <1>10, <2>1
  <2>3. xEU # Mt!Panic /\ ~Mt!Equals(Mt!ScalarBaseMult(pfB.s1 % q), xEU)
    BY <1>19, <2>1, <2>2
  <2>4. pfB.s1 % q = 0
    BY <1>18, <2>3
  <2> QED BY <2>2, <2>4
<1>22. verdict \in {"accept", "reject", "panic"}
  BY <1>17
<1>23. MtaGood(j, end)
  <2>1. CASE end.stop = "no"
    BY <1>16, <2>1 DEF MtaGood
  <2>2. CASE end.stop = "bob bytes"
    <3>1. 0 \in {pfB.s1, pfB.s2, pfB.t1, pfB.t2}
      BY <1>4, <1>13, <1>22, <2>2
    <3> QED BY <1>4, <2>2, <3>1 DEF MtaGood
  <2>3. CASE end.stop = "panic"
    <3>1. j.wc /\ zero
      BY <1>4, <1>20, <2>3
    <3> QED BY <1>4, <2>3, <3>1 DEF MtaGood
  <2>4. CASE end.stop = "reject"
    <3>1. pfB.s1 > Mt!q3 \/ pfB.t1 > Mt!q7 \/ (j.wc /\ zero)
      BY <1>4, <1>21, <2>4
    <3> QED BY <1>4, <2>4, <3>1 DEF MtaGood
  <2> QED BY <1>4, <1>22, <2>1, <2>2, <2>3, <2>4
<1> QED BY <1>15, <1>23 DEF bob, end

\* For every Paillier key with room for q^5 + q^2, all a and b, and every random
\* choice of both parties: a conversion that no check stops ends with additive
\* shares of a*b, and each check stops one only for its reason.
THEOREM MtaSharesAddUpHolds == Spec => []MtaSharesAddUp
<1>1. ASSUME Inv PROVE MtaSharesAddUp
  <2> SUFFICES ASSUME Done("mta") PROVE MtaGood(job, out)
    BY DEF MtaSharesAddUp, MtaGood
  <2>1. job.kind = "mta" /\ pc = "done"
    BY DEF Done
  <2>2. job \in MtaJobs
    BY <1>1, <2>1 DEF Inv, JobInv
  <2> DEFINE bob == BobOut(job, AliceOut(job))
  <2>3. (out = bob /\ bob.stop # "no") \/ out = AliceEndOut(job, bob)
    BY <1>1, <2>1 DEF Inv, MtaInv
  <2> QED BY <2>2, <2>3, MtaJob
<1> QED BY <1>1, Invariance, PTL

-----------------------------------------------------------------------------
(* Points.                                                                 *)

\* The point of secp256k1 with the logarithm v, nil for infinity.
Sp(v) == IF v % Q = 0 THEN -1 ELSE v % Q

LEMMA SpIs ==
    ASSUME NEW v \in Int
    PROVE  /\ Sp(v) \in Int /\ Sp(v) < Q /\ v % Q \in Zq
           /\ v % Q = 0 => Sp(v) = -1
           /\ v % Q # 0 => Sp(v) = v % Q /\ Sp(v) \in 1 .. Q - 1 /\ Cong(Sp(v), v)
<1>1. v % Q \in Zq /\ v % Q \in Int /\ Cong(v % Q, v)
  BY ModType, CgMod
<1> DEFINE r == v % Q
<1>2. r \in 0 .. Q - 1 /\ Q \in Nat
  BY <1>1, QAssumption DEF Zq
<1> HIDE DEF r
<1>3. Sp(v) = IF r = 0 THEN -1 ELSE r
  BY DEF Sp, r
<1>4. Sp(v) \in Int /\ Sp(v) < Q /\ (r = 0 => Sp(v) = -1) /\ (r # 0 => Sp(v) = r /\ Sp(v) \in 1 .. Q - 1)
  BY <1>2, <1>3, QAssumption
<1> QED BY <1>1, <1>4 DEF r

LEMMA SpCong == ASSUME NEW v, NEW w, Cong(v, w) PROVE Sp(v) = Sp(w)
BY DEF Sp, Cong

LEMMA SpSmall == ASSUME NEW p \in 1 .. Q - 1 PROVE Sp(p) = p /\ p % Q # 0 /\ p \in Int
<1>1. p % Q = p /\ p # 0 /\ p \in Int
  BY QAssumption
<1> QED BY <1>1 DEF Sp

\* Sums, multiples and comparisons.
LEMMA SecpNew == ASSUME NEW v \in Int PROVE Secp!NewECPoint(v % Q) = Sp(v)
<1>1. Secp!Point = 1 .. Q - 1
  BY QAssumption DEF Secp!Point, Secp!Order
<1> DEFINE r == v % Q
<1>2. r \in 0 .. Q - 1
  BY ModType DEF Zq
<1> HIDE DEF r
<1>3. Secp!NewECPoint(r) = IF r = 0 THEN -1 ELSE r
  BY <1>1, <1>2, QAssumption DEF Secp!NewECPoint, Secp!Nil
<1> QED BY <1>3 DEF Sp, r

LEMMA SecpMult ==
    ASSUME NEW p \in 1 .. Q - 1, NEW k \in Nat PROVE Secp!ScalarMult(p, k) = Sp(p * k)
<1>1. Secp!Order = Q /\ p \in Int /\ ~(p < 0)
  BY QAssumption DEF Secp!Order
<1> DEFINE r == k % Q
<1>2. r \in Int /\ Cong(r, k)
  BY CgMod
<1>3. ~(k < 0)
  OBVIOUS
<1>4. Secp!ScalarMult(p, k) = Secp!NewECPoint((p * r) % Q)
  BY <1>1, <1>3 DEF Secp!ScalarMult
<1> HIDE DEF r
<1>5. p * r \in Int /\ p * k \in Int
  BY <1>1, <1>2
<1>6. Cong(p * r, p * k)
  BY <1>1, <1>2, CgFactor
<1>7. Secp!NewECPoint((p * r) % Q) = Sp(p * r)
  BY <1>5, SecpNew
<1> QED BY <1>4, <1>6, <1>7, SpCong

LEMMA SecpBase == ASSUME NEW k \in Nat PROVE Secp!ScalarBaseMult(k) = Sp(k)
<1>1. 1 \in 1 .. Q - 1 /\ 1 * k = k
  BY QAssumption
<1>2. Secp!ScalarMult(1, k) = Sp(1 * k)
  BY <1>1, SecpMult
<1> QED BY <1>1, <1>2 DEF Secp!ScalarBaseMult, Secp!Base

LEMMA SecpAdd ==
    ASSUME NEW a \in Int, NEW b \in Int
    PROVE  Secp!Add(Sp(a), Sp(b)) = IF a % Q = 0 \/ b % Q = 0 THEN -2 ELSE Sp(a + b)
<1>1. CASE a % Q = 0 \/ b % Q = 0
  <2>1. Sp(a) = -1 \/ Sp(b) = -1
    BY <1>1 DEF Sp
  <2> QED BY <1>1, <2>1 DEF Secp!Add, Secp!Panic
<1>2. CASE a % Q # 0 /\ b % Q # 0
  <2> DEFINE x == Sp(a)
             y == Sp(b)
  <2>1. x \in 1 .. Q - 1 /\ y \in 1 .. Q - 1 /\ Cong(x, a) /\ Cong(y, b)
    BY <1>2, SpIs
  <2>2. Secp!Order = Q
    BY QAssumption DEF Secp!Order
  <2> HIDE DEF x, y
  <2>3. x \in Int /\ y \in Int /\ ~(x < 0) /\ ~(y < 0)
    BY <2>1, QAssumption
  <2>4. Secp!Add(x, y) = Secp!NewECPoint((x + y) % Q)
    BY <2>2, <2>3 DEF Secp!Add
  <2>5. x + y \in Int /\ Cong(x + y, a + b)
    BY <2>1, <2>3, CgPlus
  <2>6. Secp!NewECPoint((x + y) % Q) = Sp(x + y)
    BY <2>5, SecpNew
  <2>7. Secp!Add(x, y) = Sp(a + b)
    BY <2>4, <2>5, <2>6, SpCong
  <2> QED BY <1>2, <2>7 DEF x, y
<1> QED BY <1>1, <1>2

\* What a verifier that adds two points and compares the sum with a third finds.
LEMMA SecpAddThenSame ==
    ASSUME NEW a \in Int, NEW b \in Int, NEW c \in Int
    PROVE  Secp!AddThenSame(Sp(a), Sp(b), Sp(c)) =
             IF a % Q = 0 \/ b % Q = 0 THEN "panic"
             ELSE IF (a + b) % Q = 0 THEN "reject"
             ELSE IF c % Q = 0 THEN "panic"
             ELSE IF Cong(a + b, c) THEN "accept" ELSE "reject"
<1> DEFINE s == a + b
           A == Secp!Add(Sp(a), Sp(b))
<1>1. A = IF a % Q = 0 \/ b % Q = 0 THEN -2 ELSE Sp(s)
  BY SecpAdd
<1>2. s \in Int
  OBVIOUS
<1>3. Secp!AddThenSame(Sp(a), Sp(b), Sp(c)) = IF A = -1 THEN "reject" ELSE Secp!Same(A, Sp(c))
  BY DEF Secp!AddThenSame, Secp!Nil
<1> HIDE DEF A, s
<1>4. CASE a % Q = 0 \/ b % Q = 0
  BY <1>1, <1>3, <1>4 DEF Secp!Same
<1>5. CASE ~(a % Q = 0 \/ b % Q = 0) /\ s % Q = 0
  <2>1. Sp(s) = -1
    BY <1>2, <1>5, SpIs
  <2> QED BY <1>1, <1>3, <1>5, <2>1 DEF s
<1>6. CASE ~(a % Q = 0 \/ b % Q = 0) /\ s % Q # 0
  <2>1. A = s % Q /\ A \in 1 .. Q - 1
    BY <1>1, <1>2, <1>6, SpIs
  <2>2. A # -1 /\ ~(A < 0)
    BY <2>1, QAssumption
  <2>3. CASE c % Q = 0
    <3>1. Sp(c) = -1
      BY <2>3, SpIs
    <3> QED BY <1>3, <1>6, <2>2, <2>3, <3>1 DEF Secp!Same, s
  <2>4. CASE c % Q # 0
    <3>1. Sp(c) = c % Q /\ Sp(c) \in 1 .. Q - 1
      BY <2>4, SpIs
    <3>2. ~(Sp(c) < 0)
      BY <3>1, QAssumption
    <3>3. A = Sp(c) <=> Cong(s, c)
      BY <2>1, <3>1 DEF Cong
    <3> QED BY <1>3, <1>6, <2>2, <2>4, <3>2, <3>3 DEF Secp!Same, s
  <2> QED BY <2>3, <2>4
<1> QED BY <1>4, <1>5, <1>6 DEF s

\* A product is 0 mod Q only if a factor is.
LEMMA NoZeroDivisor ==
    ASSUME NEW a \in Int, NEW b \in Int, a % Q # 0 PROVE (a * b) % Q = 0 <=> b % Q = 0
<1>0. 0 % Q = 0
  BY QAssumption
<1>1. ASSUME (a * b) % Q = 0 PROVE b % Q = 0
  <2>1. Cong(a * b, 0)
    BY <1>0, <1>1 DEF Cong
  <2>2. Cong(b, 0)
    BY <2>1, Cancel
  <2> QED BY <1>0, <2>2 DEF Cong
<1>2. ASSUME b % Q = 0 PROVE (a * b) % Q = 0
  <2>1. Cong(b, 0)
    BY <1>0, <1>2 DEF Cong
  <2>2. Cong(a * b, a * 0) /\ a * 0 = 0
    <3>1. 0 \in Int /\ a * 0 = 0
      OBVIOUS
    <3>2. Cong(a * b, a * 0)
      BY <2>1, <3>1, CgFactor, Zenon
    <3> QED BY <3>1, <3>2
  <2> QED BY <1>0, <2>2 DEF Cong
<1> QED BY <1>1, <1>2

LEMMA SecpChallenge ==
    ASSUME NEW salt \in Nat, NEW s \in Seq(Int)
    PROVE  Secp!Challenge(salt, s) \in Zq /\ Secp!Challenge(salt, s) \in Nat
<1>1. Ha!SHA512_256i(salt, s) \in Nat
  BY HashIs
<1>2. Secp!Challenge(salt, s) = Ha!SHA512_256i(salt, s) % Q
  BY SecpHashInts DEF Secp!Challenge, Secp!RejectionSample
<1> QED BY <1>1, <1>2, QAssumption DEF Zq

LEMMA EdwChallenge ==
    ASSUME NEW salt \in Nat, NEW s \in Seq(Int)
    PROVE  Edw!Challenge(salt, s) \in Zq /\ Edw!Challenge(salt, s) \in Nat
<1>1. Ha!SHA512_256i(salt, s) \in Nat
  BY HashIs
<1>2. Edw!Challenge(salt, s) = Ha!SHA512_256i(salt, s) % Q
  BY EdwHashInts DEF Edw!Challenge, Edw!RejectionSample
<1> QED BY <1>1, <1>2, QAssumption DEF Zq

\* The group of edwards25519 has order 8 * Q, its base point is 8; k times p.
LEMMA EdwIs == Edw!Order = 8 * Q /\ Edw!Base = 8 /\ Edw!Point = 0 .. 8 * Q - 1 /\ 8 * Q \in Nat /\ 8 * Q > 0
BY QAssumption DEF Edw!Order, Edw!Base, Edw!Point

LEMMA EdwMult ==
    ASSUME NEW p \in Nat, NEW k \in Nat
    PROVE  /\ Edw!ScalarMult(p, k) = (p * k) % (8 * Q)
           /\ Edw!ScalarMult(p, k) \in 0 .. 8 * Q - 1 /\ Edw!ScalarMult(p, k) \in Nat
           /\ Eqm(Edw!ScalarMult(p, k), p * k, 8 * Q)
<1> DEFINE n == 8 * Q
           r == k % n
           a == p * r
           b == p * k
<1>1. n \in Nat /\ n > 0 /\ n \in Int /\ Edw!Order = n /\ Edw!Point = 0 .. n - 1
  BY EdwIs
<1> HIDE DEF n
<1>2. r \in Nat /\ r \in Int /\ Eqm(r, k, n) /\ k \in Int /\ p \in Int
  BY <1>1, ModIs
<1>3. ~(k < 0) /\ ~(p < 0)
  OBVIOUS
<1>4. Edw!ScalarMult(p, k) = Edw!NewECPoint(a % n)
  BY <1>1, <1>3 DEF Edw!ScalarMult
<1> HIDE DEF r
<1>5. a \in Int /\ b \in Int
  BY <1>2
<1>6. Eqm(a, b, n)
  <2>1. Eqm(r * p, k * p, n)
    BY <1>1, <1>2, EqmScale, Zenon
  <2>2. r * p = a /\ k * p = b
    BY <1>2
  <2> QED BY <2>1, <2>2
<1> HIDE DEF a, b
<1>7. a % n = b % n /\ b % n \in 0 .. n - 1 /\ b % n \in Nat /\ Eqm(b % n, b, n)
  BY <1>1, <1>5, <1>6, EqmMod, ModIs
<1> DEFINE m == b % n
<1>8. m \in 0 .. n - 1 /\ m \in Nat /\ Eqm(m, b, n)
  BY <1>7
<1>9. Edw!ScalarMult(p, k) = m
  BY <1>1, <1>4, <1>7 DEF Edw!NewECPoint
<1> QED BY <1>7, <1>8, <1>9 DEF b, n

LEMMA EdwAdd ==
    ASSUME NEW p \in Nat, NEW s \in Nat
    PROVE  /\ Edw!Add(p, s) \in 0 .. 8 * Q - 1 /\ Edw!Add(p, s) \in Nat
           /\ Eqm(Edw!Add(p, s), p + s, 8 * Q)
<1> DEFINE n == 8 * Q
           a == p + s
<1>1. n \in Nat /\ n > 0 /\ n \in Int /\ Edw!Order = n /\ Edw!Point = 0 .. n - 1
  BY EdwIs
<1> HIDE DEF n
<1>2. ~(s < 0) /\ ~(p < 0) /\ a \in Int
  OBVIOUS
<1>3. Edw!Add(p, s) = Edw!NewECPoint(a % n)
  BY <1>1, <1>2 DEF Edw!Add
<1> HIDE DEF a
<1>4. a % n \in 0 .. n - 1 /\ a % n \in Nat /\ Eqm(a % n, a, n)
  BY <1>1, <1>2, ModIs
<1>5. Edw!Add(p, s) = a % n
  BY <1>1, <1>3, <1>4 DEF Edw!NewECPoint
<1> QED BY <1>4, <1>5 DEF a, n

\* Eight times numbers that are equal mod Q.
LEMMA EightTimes ==
    ASSUME NEW a \in Int, NEW b \in Int PROVE Eqm(8 * a, 8 * b, 8 * Q) <=> Eqm(a, b, Q)
<1>1. Q \in Int /\ 8 * Q \in Int
  BY QAssumption
<1>2. ASSUME NEW k \in Int PROVE 8 * a = 8 * b + (8 * Q) * k <=> a = b + Q * k
  <2> DEFINE m == Q * k
  <2>1. m \in Int /\ (8 * Q) * k = 8 * m
    BY <1>1
  <2> HIDE DEF m
  <2>2. 8 * a = 8 * b + 8 * m <=> a = b + m
    BY <2>1
  <2> QED BY <2>1, <2>2 DEF m
<1> QED BY <1>2 DEF Eqm

\* The comparison at the end of VerifyDLog.
LEMMA EdwVerdict ==
    ASSUME NEW X \in Nat, NEW al \in Nat, NEW t \in Zq, NEW salt \in Nat, NEW pf, pf.alpha = al, pf.t = t
    PROVE  LET c == Edw!Challenge(salt, <<X, Edw!Base, al>>)
           IN  Edw!VerifyDLog(X, pf, salt) = IF Eqm(al + X * c, 8 * t, 8 * Q) THEN "accept" ELSE "reject"
<1> DEFINE n == 8 * Q
           c == Edw!Challenge(salt, <<X, Edw!Base, al>>)
           m == Edw!ScalarMult(X, c)
           A == Edw!Add(al, m)
           B == Edw!ScalarBaseMult(t)
<1>1. n \in Nat /\ n > 0 /\ n \in Int /\ Edw!Base = 8
  BY EdwIs
<1>2. c \in Nat
  <2>1. <<X, Edw!Base, al>> \in Seq(Int)
    BY <1>1
  <2> QED BY <2>1, EdwChallenge
<1>3. t \in Nat
  BY QAssumption DEF Zq
<1>4. Edw!VerifyDLog(X, pf, salt) = Edw!AddThenSame(al, m, B)
  BY DEF Edw!VerifyDLog
<1> HIDE DEF c
<1>5. m \in Nat /\ Eqm(m, X * c, n)
  BY <1>2, EdwMult
<1> HIDE DEF m
<1>6. A \in 0 .. n - 1 /\ A \in Nat /\ Eqm(A, al + m, n)
  BY <1>5, EdwAdd
<1>7. B \in 0 .. n - 1 /\ B \in Nat /\ Eqm(B, 8 * t, n)
  BY <1>1, <1>3, EdwMult DEF Edw!ScalarBaseMult
<1>8. Edw!AddThenSame(al, m, B) = IF A = B THEN "accept" ELSE "reject"
  <2> HIDE DEF A, B
  <2>1. A # -1 /\ ~(A < 0) /\ ~(B < 0)
    BY <1>6, <1>7
  <2> QED BY <2>1 DEF Edw!AddThenSame, Edw!Same, Edw!Nil, A
<1> DEFINE Xc == X * c
           s == al + Xc
           u == 8 * t
<1>9. Xc \in Int /\ s \in Int /\ u \in Int /\ Eqm(m, Xc, n)
  <2>1. Xc \in Int /\ u \in Int /\ Eqm(m, Xc, n)
    BY <1>2, <1>3, <1>5
  <2> HIDE DEF Xc
  <2> QED BY <2>1
<1> HIDE DEF Xc, A, B, n
<1>10. Eqm(A, s, n)
  <2>1. Eqm(al + m, al + Xc, n) /\ al + m \in Int
    BY <1>1, <1>5, <1>9, EqmPlus, EqmRefl
  <2> QED BY <1>1, <1>6, <1>9, <2>1, EqmTrans
<1>11. A = B <=> Eqm(s, u, n)
  <2>0. Eqm(B, u, n)
    BY <1>7
  <2> HIDE DEF s, u
  <2>1. A % n = s % n /\ B % n = u % n
    BY <1>1, <1>6, <1>7, <1>9, <1>10, <2>0, EqmMod
  <2>2. A % n = A /\ B % n = B
    BY <1>1, <1>6, <1>7, SmallMod
  <2> QED BY <1>1, <1>9, <2>1, <2>2, EqmMod
<1> QED BY <1>4, <1>8, <1>11 DEF Xc, n, c

LEMMA SecpVerdict ==
    ASSUME NEW X \in 1 .. Q - 1, NEW al \in 1 .. Q - 1, NEW t \in Zq, NEW salt \in Nat, NEW pf,
           pf.alpha = al, pf.t = t
    PROVE  LET c == Secp!Challenge(salt, <<X, Secp!Base, al>>)
           IN  /\ c \in Zq /\ c \in Nat
               /\ Secp!VerifyDLog(X, pf, salt) =
                    IF c = 0 THEN "panic" ELSE IF (al + X * c) % Q = 0 THEN "reject"
                    ELSE IF t = 0 THEN "panic" ELSE IF Cong(al + X * c, t) THEN "accept" ELSE "reject"
<1> DEFINE c == Secp!Challenge(salt, <<X, Secp!Base, al>>)
<1>1. X \in Int /\ al \in Int /\ t \in Nat /\ t \in Int
  BY QAssumption DEF Zq
<1>2. c \in Zq /\ c \in Nat
  <2>1. <<X, Secp!Base, al>> \in Seq(Int)
    BY <1>1 DEF Secp!Base
  <2> QED BY <2>1, SecpChallenge
<1>3. Secp!VerifyDLog(X, pf, salt) = Secp!AddThenSame(al, Secp!ScalarMult(X, c), Secp!ScalarBaseMult(t))
  BY DEF Secp!VerifyDLog
<1> HIDE DEF c
<1> DEFINE Xc == X * c
<1>4. Secp!ScalarMult(X, c) = Sp(Xc) /\ Secp!ScalarBaseMult(t) = Sp(t) /\ al = Sp(al) /\ al % Q # 0 /\ X % Q # 0
  BY <1>1, <1>2, SecpMult, SecpBase, SpSmall
<1>5. Xc \in Int /\ (Xc % Q = 0 <=> c = 0) /\ t % Q = t
  <2>1. (X * c) % Q = 0 <=> c % Q = 0
    BY <1>1, <1>2, <1>4, NoZeroDivisor
  <2>2. c % Q = c /\ t % Q = t
    BY <1>2, ModSmall
  <2> QED BY <1>1, <1>2, <2>1, <2>2
<1> HIDE DEF Xc
<1>6. Secp!AddThenSame(Sp(al), Sp(Xc), Sp(t)) =
             IF al % Q = 0 \/ Xc % Q = 0 THEN "panic"
             ELSE IF (al + Xc) % Q = 0 THEN "reject"
             ELSE IF t % Q = 0 THEN "panic"
             ELSE IF Cong(al + Xc, t) THEN "accept" ELSE "reject"
  BY <1>1, <1>5, SecpAddThenSame
<1>7. Secp!VerifyDLog(X, pf, salt) =
             IF c = 0 THEN "panic" ELSE IF (al + Xc) % Q = 0 THEN "reject"
             ELSE IF t = 0 THEN "panic" ELSE IF Cong(al + Xc, t) THEN "accept" ELSE "reject"
  BY <1>3, <1>4, <1>5, <1>6
<1> QED BY <1>2, <1>7 DEF Xc, c

\* The proof of a discrete logarithm, of an honest prover.
LEMMA DLogJob ==
    ASSUME NEW j \in DLogJobs, DLogX(j) # Nil
    PROVE  LET o == DLogOut(j)
           IN  o.verdict = "accept" <=> j.edwards \/ 0 \notin {j.x, j.a, (o.pf.t - j.a) % Q, o.pf.t}
<1> DEFINE X == DLogX(j)
           o == DLogOut(j)
           x == j.x
           a == j.a
<1>1. j.edwards \in BOOLEAN /\ x \in Zq /\ a \in Zq /\ j.salt \in Nat
  BY PointJobsAssumption
<1>2. x \in Nat /\ a \in Nat /\ x \in Int /\ a \in Int /\ Q \in Nat /\ Q > 1
  BY <1>1, QAssumption DEF Zq
<1> HIDE DEF x, a
<1>3. CASE j.edwards
  <2> DEFINE pf == Edw!NewDLogProof(x, X, a, j.salt)
             al == Edw!ScalarBaseMult(a)
             c == Edw!Challenge(j.salt, <<X, Edw!Base, al>>)
             t == (a + c * x) % Q
             n == 8 * Q
  <2>0. n \in Nat /\ n > 0 /\ n \in Int /\ Edw!Base = 8
    BY EdwIs
  <2>1. X = Edw!ScalarBaseMult(x)
    BY <1>3 DEF DLogX, x
  <2>2. X \in Nat /\ Eqm(X, 8 * x, n) /\ al \in Nat /\ Eqm(al, 8 * a, n)
    <3>1. X \in Nat /\ Eqm(X, 8 * x, n)
      BY <1>2, <2>0, <2>1, EdwMult DEF Edw!ScalarBaseMult
    <3>2. al \in Nat /\ Eqm(al, 8 * a, n)
      BY <1>2, <2>0, EdwMult DEF Edw!ScalarBaseMult
    <3> QED BY <3>1, <3>2
  <2>3. pf = [alpha |-> al, t |-> t]
    BY DEF Edw!NewDLogProof
  <2>4. o.verdict = Verdict({pf.alpha}, Edw!VerifyDLog(X, pf, j.salt))
    BY <1>3 DEF DLogOut, x, a
  <2> HIDE DEF X, al, pf
  <2>5. c \in Nat
    <3>1. <<X, Edw!Base, al>> \in Seq(Int)
      BY <2>0, <2>2
    <3> QED BY <1>1, <3>1, EdwChallenge
  <2>6. pf.alpha = al /\ pf.t = t
    BY <2>3
  <2>7. c * x \in Nat /\ a + c * x \in Int /\ t \in Zq /\ t \in Int
    <3>1. c * x \in Nat
      BY <1>2, <2>5
    <3> DEFINE v == a + c * x
    <3>2. v \in Int
      BY <1>2, <3>1
    <3> HIDE DEF v
    <3>3. v % Q \in Zq /\ v % Q \in Int
      BY <3>2, ModType
    <3> QED BY <3>1, <3>2, <3>3 DEF v
  <2>8. Edw!VerifyDLog(X, pf, j.salt) = IF Eqm(al + X * c, 8 * t, n) THEN "accept" ELSE "reject"
    BY <1>1, <2>2, <2>6, <2>7, EdwVerdict
  <2>9. Eqm(al + X * c, 8 * t, n)
    <3> HIDE DEF c
    <3> DEFINE v == a + c * x
               Xc == X * c
               y == 8 * x
               yc == y * c
    <3>1. v \in Int /\ y \in Int /\ X \in Int /\ c \in Int
      BY <1>2, <2>2, <2>5, <2>7
    <3>2. Eqm(v, t, Q)
      BY <1>2, <3>1, ModIs
    <3>3. Eqm(8 * v, 8 * t, n)
      BY <2>7, <3>1, <3>2, EightTimes
    <3>4. 8 * a + yc = 8 * v /\ Xc \in Int /\ yc \in Int
      <4>1. yc = 8 * (c * x)
        BY <1>2, <2>5
      <4> DEFINE cx == c * x
      <4>2. cx \in Int /\ yc = 8 * cx /\ v = a + cx
        BY <2>7, <4>1
      <4> HIDE DEF cx, v, yc
      <4>3. 8 * a + yc = 8 * v
        BY <1>2, <4>2
      <4> QED BY <3>1, <4>2, <4>3
    <3> HIDE DEF y, n, t
    <3>5. Eqm(Xc, yc, n)
      BY <2>0, <2>2, <3>1, EqmScale, Zenon DEF y
    <3> HIDE DEF Xc, yc, v
    <3>6. 8 * a \in Int /\ 8 * v \in Int /\ 8 * t \in Int /\ al \in Int /\ al + Xc \in Int
      BY <1>2, <2>2, <2>7, <3>1, <3>4
    <3>7. Eqm(al + Xc, 8 * a + yc, n)
      BY <2>0, <2>2, <3>4, <3>5, <3>6, EqmPlus
    <3>8. Eqm(al + Xc, 8 * v, n)
      BY <3>4, <3>7
    <3>9. Eqm(al + Xc, 8 * t, n)
      BY <2>0, <3>3, <3>6, <3>8, EqmTrans, Zenon
    <3> QED BY <3>9 DEF Xc
  <2>10. o.verdict = "accept"
    <3>1. ~(pf.alpha < 0)
      BY <2>2, <2>6
    <3> QED BY <2>4, <2>8, <2>9, <3>1 DEF Verdict
  <2> QED BY <1>3, <2>10
<1>4. CASE ~j.edwards
  <2> DEFINE pf == Secp!NewDLogProof(x, X, a, j.salt)
             al == Secp!ScalarBaseMult(a)
             c == Secp!Challenge(j.salt, <<X, Secp!Base, al>>)
             t == (a + c * x) % Q
  <2>1. X = Sp(x) /\ al = Sp(a)
    BY <1>2, <1>4, SecpBase DEF DLogX, x
  <2>2. x % Q = x /\ a % Q = a
    BY <1>1, ModSmall
  <2>3. x # 0 /\ X = x /\ x \in 1 .. Q - 1
    <3>1. X # -1
      BY DEF Nil
    <3> QED BY <1>1, <1>2, <2>1, <2>2, <3>1 DEF Sp, Zq
  <2>4. pf = [alpha |-> al, t |-> t]
    BY DEF Secp!NewDLogProof
  <2>5. o.verdict = Verdict({pf.alpha}, Secp!VerifyDLog(X, pf, j.salt)) /\ o.pf = pf
    BY <1>4 DEF DLogOut, x, a
  <2>6. CASE a = 0
    <3>1. al = -1
      BY <2>1, <2>2, <2>6 DEF Sp
    <3>2. pf.alpha = -1
      BY <2>4, <3>1
    <3> HIDE DEF al, pf, o
    <3>3. \E p \in {pf.alpha} : p < 0
      BY <3>2
    <3>4. o.verdict = "nil point"
      BY <2>5, <3>3 DEF Verdict
    <3> QED BY <1>4, <2>6, <3>4 DEF a, o
  <2>7. CASE a # 0
    <3>1. al = a /\ a \in 1 .. Q - 1
      BY <1>1, <1>2, <2>1, <2>2, <2>7 DEF Sp, Zq
    <3> HIDE DEF al, pf, X
    <3>2. c \in Zq /\ c \in Nat /\ c \in Int
      <4>1. <<X, Secp!Base, al>> \in Seq(Int)
        BY <1>2, <2>3, <3>1 DEF Secp!Base
      <4>2. c \in Zq /\ c \in Nat
        BY <1>1, <4>1, SecpChallenge
      <4> QED BY <4>2
    <3> HIDE DEF c
    <3> DEFINE k == c * x
               v == a + k
    <3>3. k \in Nat /\ v \in Int /\ t \in Zq /\ Cong(v, t) /\ t = v % Q /\ t \in Int
      <4>1. k \in Nat /\ v \in Int
        BY <1>2, <3>2
      <4> HIDE DEF v, k
      <4>2. v % Q \in Zq /\ v % Q \in Int /\ Cong(v, v % Q)
        BY <4>1, ModType, CgMod
      <4> QED BY <4>1, <4>2 DEF v, k
    <3>4. pf.alpha = a /\ pf.t = t
      BY <2>4, <3>1
    <3>5. Secp!VerifyDLog(X, pf, j.salt) =
                    IF c = 0 THEN "panic" ELSE IF (a + x * c) % Q = 0 THEN "reject"
                    ELSE IF t = 0 THEN "panic" ELSE IF Cong(a + x * c, t) THEN "accept" ELSE "reject"
      <4> HIDE DEF t
      <4> QED BY <1>1, <2>3, <3>1, <3>3, <3>4, SecpVerdict DEF c
    <3>6. a + x * c = v
      BY <1>2, <3>2
    <3>7. o.verdict = "accept" <=> c # 0 /\ t # 0
      <4>1. ~(pf.alpha < 0)
        BY <1>2, <3>4
      <4> HIDE DEF t, v
      <4> QED BY <2>5, <3>3, <3>5, <3>6, <4>1 DEF Verdict
    <3>8. (t - a) % Q = 0 <=> c = 0
      <4> HIDE DEF t
      <4>1. Cong(t - a, v - a) /\ v - a = k
        <5>1. Cong(t, v) /\ Cong(a, a)
          BY <3>3, CgSym DEF Cong
        <5>2. Cong(t - a, v - a)
          <6> HIDE DEF v
          <6> QED BY <1>2, <3>3, <5>1, CgMinus
        <5>3. v - a = k
          <6> HIDE DEF k
          <6> QED BY <1>2, <3>3
        <5> QED BY <5>2, <5>3
      <4>2. (x * c) % Q = 0 <=> c % Q = 0
        BY <1>2, <2>2, <2>3, <3>2, NoZeroDivisor
      <4>3. x * c = k /\ c % Q = c
        BY <1>2, <3>2, ModSmall
      <4> HIDE DEF k, v
      <4> QED BY <4>1, <4>2, <4>3 DEF Cong
    <3>9. o.pf.t = t
      BY <2>5, <3>4
    <3> HIDE DEF t, o
    <3> QED BY <1>4, <2>3, <2>7, <3>7, <3>8, <3>9 DEF x, a, o
  <2> QED BY <2>6, <2>7
<1> QED BY <1>1, <1>3, <1>4

LEMMA SecpHashNat ==
    ASSUME NEW salt \in Nat, NEW st, NEW a1 \in Int, NEW a2 \in Int,
           st.H1 \in Int, st.G2 \in Int, st.H2 \in Int
    PROVE  Secp!ECDDHHash(salt, st, a1, a2) \in Nat
<1> DEFINE s == <<Secp!Base, st.H1, st.G2, st.H2, a1, a2>>
<1>1. s \in Seq(Int)
  BY DEF Secp!Base
<1>2. Ha!SHA512_256(salt, Ha!BigIntsToBytes(s)) \in Nat
  BY <1>1, HashIs
<1>3. Secp!BigIntsToBytes(s) = Ha!BigIntsToBytes(s)
  <2> HIDE DEF s
  <2> QED BY SecpBytes DEF Secp!BigIntsToBytes, Ha!BigIntsToBytes
<1>4. Secp!ECDDHHash(salt, st, a1, a2) = Secp!SHA512_256(salt, Secp!BigIntsToBytes(s))
  BY DEF Secp!ECDDHHash
<1> HIDE DEF s
<1>5. Secp!SHA512_256(salt, Ha!BigIntsToBytes(s)) = Ha!SHA512_256(salt, Ha!BigIntsToBytes(s))
  BY SecpHashInput, SecpDigest DEF Secp!SHA512_256, Ha!SHA512_256
<1> QED BY <1>2, <1>3, <1>4, <1>5

DDHEquations(G2, H1, H2, a1, a2, z, e) ==
    e % Q # 0 /\ z % Q # 0 /\ Cong(H1 * e + a1, z) /\ Cong(H2 * e + a2, G2 * z)

\* The two equations of VerifyECDDH, of points and a commitment that are not nil.
LEMMA DDHVerdict ==
    ASSUME NEW st, NEW pf, NEW salt \in Nat,
           st.G2 \in 1 .. Q - 1, st.H1 \in 1 .. Q - 1, st.H2 \in 1 .. Q - 1,
           pf.a1 \in 1 .. Q - 1, pf.a2 \in 1 .. Q - 1, pf.z \in Nat
    PROVE  Secp!VerifyECDDH(st, pf, salt) = "accept" <=>
              DDHEquations(st.G2, st.H1, st.H2, pf.a1, pf.a2, pf.z, Secp!ECDDHHash(salt, st, pf.a1, pf.a2))
<1> DEFINE G2 == st.G2
           H1 == st.H1
           H2 == st.H2
           a1 == pf.a1
           a2 == pf.a2
           z == pf.z
           e == Secp!ECDDHHash(salt, st, a1, a2)
           x1 == H1 * e
           x2 == H2 * e
           y == G2 * z
           zG1 == Secp!ScalarBaseMult(z)
           zG2 == Secp!ScalarMult(G2, z)
           A1 == Secp!Add(Secp!ScalarMult(H1, e), a1)
           A2 == Secp!Add(Secp!ScalarMult(H2, e), a2)
<1>0. /\ G2 \in 1 .. Q - 1 /\ H1 \in 1 .. Q - 1 /\ H2 \in 1 .. Q - 1
      /\ a1 \in 1 .. Q - 1 /\ a2 \in 1 .. Q - 1 /\ z \in Nat
  OBVIOUS
<1>1. G2 \in Int /\ H1 \in Int /\ H2 \in Int /\ a1 \in Int /\ a2 \in Int /\ z \in Int
  BY <1>0, QAssumption
<1>2. e \in Nat
  BY <1>1, SecpHashNat
<1>3. Secp!VerifyECDDH(st, pf, salt) =
         IF A1 = -2 \/ (A1 # -1 /\ A2 = -2) THEN "panic"
         ELSE IF Secp!Equals(zG1, A1) /\ Secp!Equals(zG2, A2) THEN "accept" ELSE "reject"
  BY DEF Secp!VerifyECDDH, Secp!Panic, Secp!Nil
<1> HIDE DEF G2, H1, H2, a1, a2, z, e
<1>4. x1 \in Int /\ x2 \in Int /\ y \in Int
  BY <1>1, <1>2
<1>5. G2 % Q # 0 /\ H1 % Q # 0 /\ H2 % Q # 0 /\ a1 % Q # 0 /\ a2 % Q # 0 /\ Sp(a1) = a1 /\ Sp(a2) = a2
  BY <1>0, SpSmall
<1>6. (x1 % Q = 0 <=> e % Q = 0) /\ (x2 % Q = 0 <=> e % Q = 0) /\ (y % Q = 0 <=> z % Q = 0)
  <2>0. e \in Int
    BY <1>2
  <2>1. (H1 * e) % Q = 0 <=> e % Q = 0
    BY <1>1, <1>5, <2>0, NoZeroDivisor, Zenon
  <2>2. (H2 * e) % Q = 0 <=> e % Q = 0
    BY <1>1, <1>5, <2>0, NoZeroDivisor, Zenon
  <2>3. (G2 * z) % Q = 0 <=> z % Q = 0
    BY <1>1, <1>5, NoZeroDivisor, Zenon
  <2> QED BY <2>1, <2>2, <2>3
<1>7. zG1 = Sp(z) /\ zG2 = Sp(y) /\ Secp!ScalarMult(H1, e) = Sp(x1) /\ Secp!ScalarMult(H2, e) = Sp(x2)
  BY <1>0, <1>2, SecpBase, SecpMult
<1> HIDE DEF x1, x2, y, zG1, zG2
<1>8. A1 = IF x1 % Q = 0 \/ a1 % Q = 0 THEN -2 ELSE Sp(x1 + a1)
  BY <1>1, <1>4, <1>5, <1>7, SecpAdd
<1>9. A2 = IF x2 % Q = 0 \/ a2 % Q = 0 THEN -2 ELSE Sp(x2 + a2)
  BY <1>1, <1>4, <1>5, <1>7, SecpAdd
<1> HIDE DEF A1, A2
<1> DEFINE u1 == x1 + a1
           u2 == x2 + a2
<1>10. u1 \in Int /\ u2 \in Int
  BY <1>1, <1>4
<1> HIDE DEF u1, u2
<1>11. Secp!VerifyECDDH(st, pf, salt) = "accept" <=> e % Q # 0 /\ z % Q # 0 /\ Cong(u1, z) /\ Cong(u2, y)
  <2>1. CASE e % Q = 0
    BY <1>3, <1>6, <1>8, <2>1
  <2>2. CASE e % Q # 0
    <3>1. A1 = Sp(u1) /\ A2 = Sp(u2)
      BY <1>5, <1>6, <1>8, <1>9, <2>2 DEF u1, u2
    <3>2. A1 # -2 /\ A2 # -2
      <4>1. u1 % Q \in Zq /\ u2 % Q \in Zq
        BY <1>10, SpIs
      <4> QED BY <3>1, <4>1, QAssumption DEF Sp, Zq
    <3>3. ASSUME NEW v \in Int, NEW w \in Int PROVE Secp!Equals(Sp(v), Sp(w)) <=> Cong(v, w) /\ v % Q # 0
      <4>1. v % Q \in Zq /\ w % Q \in Zq
        BY SpIs
      <4> QED BY <4>1, QAssumption DEF Secp!Equals, Sp, Cong, Zq
    <3>4. Secp!Equals(zG1, A1) <=> Cong(z, u1) /\ z % Q # 0
      BY <1>1, <1>7, <1>10, <3>1, <3>3
    <3>5. Secp!Equals(zG2, A2) <=> Cong(y, u2) /\ y % Q # 0
      BY <1>4, <1>7, <1>10, <3>1, <3>3
    <3> QED BY <1>3, <1>6, <2>2, <3>2, <3>4, <3>5 DEF Cong
  <2> QED BY <2>1, <2>2
<1> QED BY <1>11 DEF u1, u2, x1, x2, y, DDHEquations, G2, H1, H2, a1, a2, z, e

\* The proof of equal logarithms, of an honest prover.
LEMMA DDHJob ==
    ASSUME NEW j \in DDHJobs
    PROVE  LET o == DDHOut(j)
           IN  o.verdict = "accept" <=> 0 \notin {j.s, (o.pf.z - j.s) % Q, o.pf.z % Q}
<1> DEFINE x == j.x
           G2 == j.G2
           s == j.s
           salt == j.salt
           H2 == Secp!ScalarMult(G2, x)
           st == [G2 |-> G2, H1 |-> x, H2 |-> H2]
           a1 == Secp!ScalarBaseMult(s)
           a2 == Secp!ScalarMult(G2, s)
           e == Secp!ECDDHHash(salt, st, a1, a2)
           z == s + e * x
           pf == Secp!NewECDDHProof(x, st, s, salt)
           o == DDHOut(j)
<1>1. x \in 1 .. Q - 1 /\ G2 \in 1 .. Q - 1 /\ s \in Zq /\ salt \in Nat
  BY PointJobsAssumption DEF Points1
<1>2. x \in Int /\ x \in Nat /\ G2 \in Int /\ s \in Nat /\ s \in Int /\ Q \in Nat /\ Q > 1
  BY <1>1, QAssumption DEF Zq
<1>3. x % Q # 0 /\ G2 % Q # 0 /\ s % Q = s
  BY <1>1, SpSmall, ModSmall
<1>4. o.pf = pf /\ o.verdict = Verdict({pf.a1, pf.a2}, Secp!VerifyECDDH(st, pf, salt))
  BY DEF DDHOut
<1>5. pf.a1 = a1 /\ pf.a2 = a2 /\ pf.z = z
  BY DEF Secp!NewECDDHProof
<1> HIDE DEF x, G2, s, salt, pf, o
<1>6. H2 = Sp(G2 * x) /\ a1 = Sp(s) /\ a2 = Sp(G2 * s)
  BY <1>1, <1>2, SecpMult, SecpBase
<1>7. G2 * x \in Int /\ G2 * s \in Int /\ (G2 * x) % Q # 0 /\ ((G2 * s) % Q = 0 <=> s = 0)
  <2>1. (G2 * x) % Q = 0 <=> x % Q = 0
    BY <1>2, <1>3, NoZeroDivisor
  <2>2. (G2 * s) % Q = 0 <=> s % Q = 0
    BY <1>2, <1>3, NoZeroDivisor
  <2> QED BY <1>2, <1>3, <2>1, <2>2
<1>8. H2 \in 1 .. Q - 1 /\ Cong(H2, G2 * x)
  BY <1>6, <1>7, SpIs
<1>9. CASE s = 0
  <2>1. a1 = -1
    BY <1>3, <1>6, <1>9 DEF Sp
  <2>2. \E p \in {pf.a1, pf.a2} : p < 0
    <3> HIDE DEF a1, a2
    <3> QED BY <1>5, <2>1
  <2>3. o.verdict = "nil point"
    BY <1>4, <2>2 DEF Verdict
  <2> QED BY <1>9, <2>3 DEF s, o
<1>10. CASE s # 0
  <2>1. a1 \in 1 .. Q - 1 /\ Cong(a1, s) /\ a2 \in 1 .. Q - 1 /\ Cong(a2, G2 * s)
    BY <1>2, <1>3, <1>6, <1>7, <1>10, SpIs
  <2>0. st.G2 = G2 /\ st.H1 = x /\ st.H2 = H2
    OBVIOUS
  <2> HIDE DEF a1, a2, H2, st
  <2>2. e \in Nat
    <3>1. H2 \in Int /\ a1 \in Int /\ a2 \in Int
      BY <1>2, <1>8, <2>1
    <3> QED BY <1>1, <1>2, <2>0, <3>1, SecpHashNat
  <2> DEFINE k == e * x
  <2>3. k \in Nat /\ z \in Nat /\ z = s + k
    <3> HIDE DEF e
    <3> QED BY <1>2, <2>2
  <2>4. Secp!VerifyECDDH(st, pf, salt) = "accept" <=>
            e % Q # 0 /\ z % Q # 0 /\ Cong(x * e + a1, z) /\ Cong(H2 * e + a2, G2 * z)
    <3>1. e = Secp!ECDDHHash(salt, st, a1, a2)
      OBVIOUS
    <3> HIDE DEF z, e
    <3>2. x \in 1 .. Q - 1 /\ G2 \in 1 .. Q - 1 /\ H2 \in 1 .. Q - 1 /\ a1 \in 1 .. Q - 1 /\ a2 \in 1 .. Q - 1
          /\ z \in Nat /\ salt \in Nat
      BY <1>1, <1>8, <2>1, <2>3
    <3>3. st.G2 \in 1 .. Q - 1 /\ st.H1 \in 1 .. Q - 1 /\ st.H2 \in 1 .. Q - 1
          /\ pf.a1 \in 1 .. Q - 1 /\ pf.a2 \in 1 .. Q - 1 /\ pf.z \in Nat
      BY <1>5, <2>0, <3>2
    <3>4. Secp!VerifyECDDH(st, pf, salt) = "accept" <=>
              DDHEquations(st.G2, st.H1, st.H2, pf.a1, pf.a2, pf.z, Secp!ECDDHHash(salt, st, pf.a1, pf.a2))
      BY <3>2, <3>3, DDHVerdict, Zenon
    <3> QED BY <1>5, <2>0, <3>1, <3>4 DEF DDHEquations
  <2> HIDE DEF e
  <2>5. Cong(x * e + a1, z)
    <3> HIDE DEF z
    <3>1. x * e = k /\ k \in Int /\ a1 \in Int
      BY <1>2, <2>1, <2>2, <2>3
    <3> HIDE DEF k
    <3>0. Cong(k, k) /\ Cong(a1, s)
      BY <2>1 DEF Cong
    <3>2. Cong(k + a1, k + s)
      BY <1>2, <3>0, <3>1, CgPlus
    <3>3. k + s = z
      BY <1>2, <2>3
    <3> QED BY <3>1, <3>2, <3>3
  <2>6. Cong(H2 * e + a2, G2 * z)
    <3> DEFINE g == G2 * x
               w == G2 * s
    <3>1. g \in Int /\ w \in Int /\ Cong(H2, g) /\ Cong(a2, w) /\ H2 \in Int /\ a2 \in Int /\ e \in Int
      BY <1>2, <1>7, <1>8, <2>1, <2>2
    <3>2. g * e + w = G2 * z
      <4>1. G2 * z = G2 * s + G2 * (e * x)
        BY <1>2, <2>2
      <4>2. G2 * (e * x) = (G2 * x) * e
        BY <1>2, <2>2
      <4> DEFINE ge == (G2 * x) * e
      <4>3. ge \in Int /\ G2 * z = w + ge
        BY <1>2, <2>2, <4>1, <4>2
      <4> HIDE DEF ge, w, z
      <4>4. ge + w = G2 * z
        BY <3>1, <4>3
      <4> QED BY <4>4 DEF ge
    <3> HIDE DEF g, w
    <3>3. Cong(e * H2, e * g) /\ e * H2 \in Int /\ e * g \in Int /\ e * H2 = H2 * e /\ e * g = g * e
      BY <3>1, CgFactor
    <3>4. Cong(H2 * e + a2, g * e + w)
      <4> DEFINE p == H2 * e
                 q == g * e
      <4>1. p \in Int /\ q \in Int /\ Cong(p, q)
        BY <3>3
      <4> HIDE DEF p, q
      <4>2. Cong(p + a2, q + w)
        BY <3>1, <4>1, CgPlus
      <4> QED BY <4>2 DEF p, q
    <3> QED BY <3>2, <3>4
  <2>7. o.verdict = "accept" <=> e % Q # 0 /\ z % Q # 0
    <3>1. ~(\E p \in {pf.a1, pf.a2} : p < 0)
      BY <1>2, <1>5, <2>1
    <3> HIDE DEF z
    <3> QED BY <1>4, <2>4, <2>5, <2>6, <3>1 DEF Verdict
  <2>8. (z - s) % Q = 0 <=> e % Q = 0
    <3>1. z - s = x * e
      BY <1>2, <2>2
    <3>2. (x * e) % Q = 0 <=> e % Q = 0
      <4>1. e \in Int
        BY <2>2
      <4> QED BY <1>2, <1>3, <4>1, NoZeroDivisor, Zenon
    <3> QED BY <3>1, <3>2
  <2>9. o.pf.z = z
    BY <1>4, <1>5
  <2> HIDE DEF z
  <2> QED BY <1>10, <2>7, <2>8, <2>9 DEF s, o
<1> QED BY <1>9, <1>10

\* A response t = a + c*x is a mod Q only for the challenge 0.
LEMMA SameAsMask ==
    ASSUME NEW x \in 1 .. Q - 1, NEW a \in Zq, NEW c \in Zq
    PROVE  LET t == (a + c * x) % Q
           IN  t \in Zq /\ t \in Nat /\ Cong(t, a + c * x) /\ ((t - a) % Q = 0 <=> c = 0)
<1> DEFINE k == c * x
           v == a + k
           t == v % Q
<1>1. x \in Int /\ a \in Int /\ c \in Int /\ x % Q # 0 /\ c % Q = c
  BY SpSmall, ModSmall, QAssumption DEF Zq
<1>2. k \in Int /\ v \in Int
  BY <1>1
<1>3. k % Q = 0 <=> c = 0
  <2>1. (x * c) % Q = 0 <=> c % Q = 0
    BY <1>1, NoZeroDivisor, Zenon
  <2>2. x * c = k
    BY <1>1
  <2> QED BY <1>1, <2>1, <2>2
<1> HIDE DEF k
<1>4. v - a = k
  BY <1>1, <1>2
<1> HIDE DEF v
<1>5. t \in Zq /\ t \in Int /\ Cong(t, v)
  BY <1>2, ModType, CgMod
<1>6. t \in Nat
  BY <1>5, QAssumption DEF Zq
<1> HIDE DEF t
<1>7. Cong(a, a)
  BY DEF Cong
<1>8. Cong(t - a, v - a)
  BY <1>1, <1>2, <1>5, <1>7, CgMinus
<1>9. (t - a) % Q = 0 <=> c = 0
  BY <1>3, <1>4, <1>8 DEF Cong
<1> QED BY <1>5, <1>6, <1>9 DEF t, v, k

\* g^a * h^b, the commitment of the T and ST proofs.
LEMMA STMask ==
    ASSUME NEW h \in 1 .. Q - 1, NEW a \in Zq, NEW b \in Zq
    PROVE  LET al == Secp!Add(Secp!ScalarBaseMult(a), Secp!ScalarMult(h, b))
           IN  /\ 0 \in {a, b, (a + h * b) % Q} => al < 0
               /\ 0 \notin {a, b, (a + h * b) % Q} =>
                      /\ al = Sp(a + h * b) /\ al \in 1 .. Q - 1 /\ Cong(al, a + h * b)
                      /\ ~(al < 0)
<1> DEFINE hb == h * b
           v == a + hb
           al == Secp!Add(Secp!ScalarBaseMult(a), Secp!ScalarMult(h, b))
<1>1. h \in Int /\ a \in Nat /\ b \in Nat /\ a \in Int /\ b \in Int /\ h % Q # 0 /\ a % Q = a /\ b % Q = b
  BY SpSmall, ModSmall, QAssumption DEF Zq
<1>2. hb \in Int /\ v \in Int
  BY <1>1
<1>3. hb % Q = 0 <=> b = 0
  <2>1. (h * b) % Q = 0 <=> b % Q = 0
    BY <1>1, NoZeroDivisor, Zenon
  <2> QED BY <1>1, <2>1
<1>4. Secp!ScalarBaseMult(a) = Sp(a) /\ Secp!ScalarMult(h, b) = Sp(hb)
  BY <1>1, SecpBase, SecpMult
<1> HIDE DEF hb
<1>5. al = IF a % Q = 0 \/ hb % Q = 0 THEN -2 ELSE Sp(v)
  BY <1>1, <1>2, <1>4, SecpAdd
<1> HIDE DEF al, v
<1>6. 0 \in {a, b, v % Q} => al < 0
  <2>1. v % Q = 0 => Sp(v) = -1
    BY <1>2, SpIs
  <2> QED BY <1>1, <1>3, <1>5, <2>1
<1>7. 0 \notin {a, b, v % Q} => al = Sp(v) /\ al \in 1 .. Q - 1 /\ Cong(al, v)
  <2>1. v % Q # 0 => Sp(v) \in 1 .. Q - 1 /\ Cong(Sp(v), v)
    BY <1>2, SpIs
  <2> QED BY <1>1, <1>3, <1>5, <2>1
<1>8. al \in 1 .. Q - 1 => ~(al < 0)
  BY QAssumption
<1> QED BY <1>6, <1>7, <1>8 DEF al, v, hb

\* The check g^t * h^u = al * T^c of the two verifiers.
STVerdict(al, h, T, c, t, u) ==
    LET tGuH == Secp!Add(Secp!ScalarBaseMult(t), Secp!ScalarMult(h, u))
    IN  IF tGuH = Secp!Panic THEN "panic" ELSE Secp!AddThenSame(al, Secp!ScalarMult(T, c), tGuH)

\* What both sides of it are.
LEMMA STEquation ==
    ASSUME NEW h \in Int, NEW T \in Int, NEW sigma \in Int, NEW l \in Int, Cong(T, sigma + h * l),
           NEW a \in Int, NEW b \in Int, NEW c \in Int, NEW t \in Int, NEW u \in Int,
           Cong(t, a + c * sigma), Cong(u, b + c * l)
    PROVE  Cong((a + h * b) + T * c, t + h * u)
<1> DEFINE hl == h * l
           y == sigma + hl
           cs == c * sigma
           cl == c * l
           hcl == h * cl
           hb == h * b
           p == a + cs
           r == b + cl
           hr == h * r
           hu == h * u
           Tc == T * c
           yc == y * c
<1>1. hl \in Int /\ y \in Int /\ cs \in Int /\ cl \in Int /\ hb \in Int /\ p \in Int /\ r \in Int /\ hu \in Int /\ Tc \in Int
  OBVIOUS
<1>2. hr = hb + hcl /\ hcl \in Int /\ yc = cs + hcl
  <2>1. hr = h * b + h * (c * l)
    OBVIOUS
  <2>2. yc = c * sigma + h * (c * l)
    OBVIOUS
  <2> QED BY <2>1, <2>2
<1>3. Cong(T, y) /\ Cong(t, p) /\ Cong(u, r)
  OBVIOUS
<1>4. Cong(Tc, yc)
  <2> HIDE DEF y
  <2>1. Cong(c * T, c * y)
    BY <1>1, <1>3, CgFactor, Zenon
  <2>2. c * T = T * c /\ c * y = y * c
    BY <1>1
  <2> QED BY <2>1, <2>2
<1>5. Cong(hu, hr)
  <2> HIDE DEF r
  <2> QED BY <1>1, <1>3, CgFactor, Zenon
<1>6. hr \in Int /\ yc \in Int
  BY <1>1
<1> HIDE DEF hl, cs, cl, hcl, hb, p, hr, hu, Tc, yc
<1>7. Cong(t + hu, p + hr)
  BY <1>1, <1>3, <1>5, <1>6, CgPlus
<1>8. Cong((a + hb) + Tc, (a + hb) + yc)
  <2> DEFINE w == a + hb
  <2>1. w \in Int /\ Cong(w, w)
    BY <1>1 DEF Cong
  <2> HIDE DEF w
  <2>2. Cong(w + Tc, w + yc)
    BY <1>1, <1>4, <1>6, <2>1, CgPlus
  <2> QED BY <2>2 DEF w
<1>9. (a + hb) + yc = p + hr
  BY <1>1, <1>2, <1>6 DEF p
<1>10. Cong((a + hb) + Tc, t + hu)
  BY <1>7, <1>8, <1>9 DEF Cong
<1> QED BY <1>10 DEF hb, Tc, hu

LEMMA STCheck ==
    ASSUME NEW h \in 1 .. Q - 1, NEW T \in 1 .. Q - 1, NEW al \in 1 .. Q - 1, NEW c \in Zq, NEW t \in Zq, NEW u \in Zq,
           Cong(al + T * c, t + h * u)
    PROVE  /\ 0 \notin {t, u, c, (t + h * u) % Q} => STVerdict(al, h, T, c, t, u) = "accept"
           /\ STVerdict(al, h, T, c, t, u) = "reject" => (t + h * u) % Q = 0
<1> DEFINE hu == h * u
           Tc == T * c
           v == t + hu
           tGuH == Secp!Add(Secp!ScalarBaseMult(t), Secp!ScalarMult(h, u))
<1>1. /\ h \in Int /\ T \in Int /\ al \in Int /\ t \in Nat /\ u \in Nat /\ c \in Nat
      /\ h % Q # 0 /\ T % Q # 0 /\ al % Q # 0 /\ Sp(al) = al /\ t % Q = t /\ u % Q = u /\ c % Q = c
  BY SpSmall, ModSmall, QAssumption DEF Zq
<1>2. hu \in Int /\ Tc \in Int /\ v \in Int /\ t \in Int /\ u \in Int /\ c \in Int
  BY <1>1
<1>3. (hu % Q = 0 <=> u = 0) /\ (Tc % Q = 0 <=> c = 0)
  <2>1. (h * u) % Q = 0 <=> u % Q = 0
    BY <1>1, <1>2, NoZeroDivisor, Zenon
  <2>2. (T * c) % Q = 0 <=> c % Q = 0
    BY <1>1, <1>2, NoZeroDivisor, Zenon
  <2> QED BY <1>1, <2>1, <2>2
<1>4. Secp!ScalarBaseMult(t) = Sp(t) /\ Secp!ScalarMult(h, u) = Sp(hu) /\ Secp!ScalarMult(T, c) = Sp(Tc)
  BY <1>1, SecpBase, SecpMult
<1>5. Cong(al + Tc, v)
  OBVIOUS
<1> HIDE DEF hu, Tc
<1>6. tGuH = IF t % Q = 0 \/ hu % Q = 0 THEN -2 ELSE Sp(v)
  BY <1>1, <1>2, <1>4, SecpAdd
<1>7. STVerdict(al, h, T, c, t, u) = IF tGuH = -2 THEN "panic" ELSE Secp!AddThenSame(al, Sp(Tc), tGuH)
  BY <1>4 DEF STVerdict, Secp!Panic
<1> HIDE DEF tGuH, v
<1>8. Secp!AddThenSame(Sp(al), Sp(Tc), Sp(v)) =
             IF al % Q = 0 \/ Tc % Q = 0 THEN "panic"
             ELSE IF (al + Tc) % Q = 0 THEN "reject"
             ELSE IF v % Q = 0 THEN "panic"
             ELSE IF Cong(al + Tc, v) THEN "accept" ELSE "reject"
  BY <1>1, <1>2, SecpAddThenSame
<1>9. (al + Tc) % Q = v % Q
  BY <1>5 DEF Cong
<1>10. STVerdict(al, h, T, c, t, u) = IF t = 0 \/ u = 0 \/ c = 0 THEN "panic"
                                      ELSE IF v % Q = 0 THEN "reject" ELSE "accept"
  <2>1. CASE t = 0 \/ u = 0
    BY <1>1, <1>3, <1>6, <1>7, <2>1
  <2>2. CASE ~(t = 0 \/ u = 0)
    <3>1. tGuH = Sp(v)
      BY <1>1, <1>3, <1>6, <2>2
    <3>2. Sp(v) # -2
      <4>1. v % Q \in Zq
        BY <1>2, ModType
      <4> QED BY <4>1, QAssumption DEF Sp, Zq
    <3> QED BY <1>1, <1>3, <1>5, <1>7, <1>8, <1>9, <2>2, <3>1, <3>2
  <2> QED BY <2>1, <2>2
<1> QED BY <1>10 DEF v, hu

\* The check R^t = al * S^c, of al = R^a and S = R^sigma.
LEMMA STFirst ==
    ASSUME NEW R \in 1 .. Q - 1, NEW sigma \in 1 .. Q - 1, NEW a \in Zq, a # 0, NEW c \in Zq, NEW t \in Zq,
           Cong(t, a + c * sigma)
    PROVE  LET v == Secp!AddThenSame(Secp!ScalarMult(R, a), Secp!ScalarMult(Secp!ScalarMult(R, sigma), c),
                                     Secp!ScalarMult(R, t))
           IN  (0 \notin {t, c} => v = "accept") /\ (v = "reject" => t = 0)
<1> DEFINE Ra == R * a
           Rs == R * sigma
           S == Secp!ScalarMult(R, sigma)
           Sc == S * c
           Rt == R * t
           v == Secp!AddThenSame(Secp!ScalarMult(R, a), Secp!ScalarMult(S, c), Secp!ScalarMult(R, t))
<1>1. /\ R \in Int /\ sigma \in Int /\ sigma \in Nat /\ a \in Nat /\ t \in Nat /\ c \in Nat
      /\ R % Q # 0 /\ sigma % Q # 0 /\ a % Q = a /\ t % Q = t /\ c % Q = c
  BY SpSmall, ModSmall, QAssumption DEF Zq
<1>2. a \in Int /\ t \in Int /\ c \in Int
  BY <1>1
<1>3. Ra \in Int /\ Rs \in Int /\ Rt \in Int
  BY <1>1, <1>2
<1>4. Ra % Q # 0 /\ Rs % Q # 0 /\ (Rt % Q = 0 <=> t = 0)
  <2>1. (R * a) % Q = 0 <=> a % Q = 0
    BY <1>1, <1>2, NoZeroDivisor, Zenon
  <2>2. (R * sigma) % Q = 0 <=> sigma % Q = 0
    BY <1>1, <1>2, NoZeroDivisor, Zenon
  <2>3. (R * t) % Q = 0 <=> t % Q = 0
    BY <1>1, <1>2, NoZeroDivisor, Zenon
  <2> QED BY <1>1, <2>1, <2>2, <2>3
<1>5. Secp!ScalarMult(R, a) = Sp(Ra) /\ S = Sp(Rs) /\ Secp!ScalarMult(R, t) = Sp(Rt)
  BY <1>1, SecpMult
<1>6. Cong(R * t, R * (a + c * sigma))
  <2> DEFINE w == a + c * sigma
  <2>1. w \in Int /\ Cong(t, w)
    BY <1>1, <1>2
  <2> HIDE DEF w
  <2>2. Cong(R * t, R * w)
    BY <1>1, <1>2, <2>1, CgFactor, Zenon
  <2> QED BY <2>2 DEF w
<1>7. R * (a + c * sigma) = Ra + Rs * c
  BY <1>1, <1>2
<1>8. Cong(Rt, Ra + Rs * c)
  BY <1>6, <1>7
<1> HIDE DEF Ra, Rs, Rt, S
<1>9. S \in 1 .. Q - 1 /\ Cong(S, Rs)
  BY <1>3, <1>4, <1>5, SpIs
<1>10. S \in Int /\ S % Q # 0
  BY <1>9, SpSmall
<1>11. Sc \in Int /\ (Sc % Q = 0 <=> c = 0) /\ Secp!ScalarMult(S, c) = Sp(Sc)
  <2>1. (S * c) % Q = 0 <=> c % Q = 0
    BY <1>2, <1>10, NoZeroDivisor, Zenon
  <2>2. Sc \in Int /\ Secp!ScalarMult(S, c) = Sp(Sc)
    BY <1>1, <1>2, <1>9, <1>10, SecpMult
  <2> QED BY <1>1, <2>1, <2>2
<1>12. Cong(Ra + Sc, Rt)
  <2> DEFINE Rsc == Rs * c
  <2>1. Rsc \in Int
    BY <1>2, <1>3
  <2>2. Cong(Sc, Rsc)
    <3>1. Cong(c * S, c * Rs)
      BY <1>2, <1>3, <1>9, <1>10, CgFactor, Zenon
    <3>2. c * S = Sc /\ c * Rs = Rsc
      BY <1>2, <1>3, <1>10
    <3> QED BY <3>1, <3>2
  <2>3. Cong(Rt, Ra + Rsc)
    BY <1>8
  <2> HIDE DEF Rsc, Sc
  <2>4. Cong(Ra, Ra)
    BY DEF Cong
  <2>5. Cong(Ra + Sc, Ra + Rsc)
    BY <1>3, <1>11, <2>1, <2>2, <2>4, CgPlus
  <2> QED BY <2>3, <2>5 DEF Cong
<1> HIDE DEF Sc
<1>13. Secp!AddThenSame(Sp(Ra), Sp(Sc), Sp(Rt)) =
             IF Ra % Q = 0 \/ Sc % Q = 0 THEN "panic"
             ELSE IF (Ra + Sc) % Q = 0 THEN "reject"
             ELSE IF Rt % Q = 0 THEN "panic"
             ELSE IF Cong(Ra + Sc, Rt) THEN "accept" ELSE "reject"
  BY <1>3, <1>11, SecpAddThenSame
<1>14. (Ra + Sc) % Q = Rt % Q
  BY <1>12 DEF Cong
<1>15. v = IF c = 0 THEN "panic" ELSE IF t = 0 THEN "reject" ELSE "accept"
  BY <1>4, <1>5, <1>11, <1>12, <1>13, <1>14
<1> QED BY <1>15 DEF S

\* The T and ST proofs of an honest prover, whose commitment is not nil.
STGood(j, pf, v) ==
    /\ 0 \notin {j.a, j.b, (j.a + j.h * j.b) % Q, pf.t, (pf.t - j.a) % Q, (pf.t + j.h * pf.u) % Q, pf.u} =>
           v = "accept"
    /\ v = "reject" => 0 \in {pf.t, (pf.t + j.h * pf.u) % Q}

LEMMA STJob ==
    ASSUME NEW j \in STJobs, ~(STOut(j).T < 0)
    PROVE  STGood(j, STOut(j).pfT, STOut(j).verdictT) /\ STGood(j, STOut(j).pfST, STOut(j).verdictST)
<1> DEFINE o == STOut(j)
           sigma == j.sigma
           l == j.l
           a == j.a
           b == j.b
           h == j.h
           R == j.R
           salt == j.salt
           hl == h * l
           y == sigma + hl
           hb == h * b
           w == a + hb
           T == Secp!Add(sigma, Secp!ScalarMult(h, l))
           S == Secp!ScalarMult(R, sigma)
           al == Secp!Add(Secp!ScalarBaseMult(a), Secp!ScalarMult(h, b))
           ra == Secp!ScalarMult(R, a)
           c1 == Secp!Challenge(salt, <<T, h, Secp!Base, al>>)
           c2 == Secp!Challenge(salt, <<T, h, Secp!Base, ra, al>>)
           pfT == Secp!NewTProof(T, h, sigma, l, a, b, salt)
           pfST == Secp!NewSTProof(T, R, h, sigma, l, a, b, salt)
<1>1. /\ sigma \in 1 .. Q - 1 /\ h \in 1 .. Q - 1 /\ R \in 1 .. Q - 1
      /\ l \in Zq /\ a \in Zq /\ b \in Zq /\ salt \in Nat
  BY PointJobsAssumption DEF Points1
<1>2. /\ sigma \in Int /\ h \in Int /\ R \in Int /\ l \in Nat /\ a \in Nat /\ b \in Nat /\ l \in Int /\ a \in Int
      /\ b \in Int /\ h % Q # 0 /\ R % Q # 0 /\ l % Q = l /\ a % Q = a /\ sigma % Q # 0 /\ Sp(sigma) = sigma
  BY <1>1, SpSmall, ModSmall, QAssumption DEF Zq
<1>3. /\ o.T = T /\ o.pfT = pfT /\ o.pfST = pfST
      /\ o.verdictT = Verdict({T, pfT.alpha}, Secp!VerifyT(T, h, pfT, salt))
      /\ o.verdictST = Verdict({T, pfST.alpha, pfST.beta}, Secp!VerifyST(S, T, R, h, pfST, salt))
  BY DEF STOut
<1>4. pfT.alpha = al /\ pfT.t = (a + c1 * sigma) % Q /\ pfT.u = (b + c1 * l) % Q
  BY DEF Secp!NewTProof, Secp!calculateTAndU
<1>5. pfST.alpha = ra /\ pfST.beta = al /\ pfST.t = (a + c2 * sigma) % Q /\ pfST.u = (b + c2 * l) % Q
  BY DEF Secp!NewSTProof, Secp!calculateTAndU
<1>6. Secp!VerifyT(T, h, pfT, salt) = STVerdict(pfT.alpha, h, T, Secp!Challenge(salt, <<T, h, Secp!Base, pfT.alpha>>), pfT.t, pfT.u)
  BY DEF Secp!VerifyT, STVerdict
<1>7. Secp!VerifyST(S, T, R, h, pfST, salt) =
         LET c == Secp!Challenge(salt, <<T, h, Secp!Base, pfST.alpha, pfST.beta>>)
             first == Secp!AddThenSame(pfST.alpha, Secp!ScalarMult(S, c), Secp!ScalarMult(R, pfST.t))
         IN  IF first = "accept" THEN STVerdict(pfST.beta, h, T, c, pfST.t, pfST.u) ELSE first
  BY DEF Secp!VerifyST, Secp!AndThen, STVerdict
<1> HIDE DEF pfT, pfST, o
<1>8. hl \in Int /\ y \in Int
  BY <1>2
<1>9. T \in 1 .. Q - 1 /\ Cong(T, y)
  <2>1. Secp!ScalarMult(h, l) = Sp(hl)
    BY <1>1, <1>2, SecpMult
  <2>2. ~(T < 0)
    BY <1>3 DEF o
  <2> HIDE DEF sigma, hl
  <2>3. T = IF sigma % Q = 0 \/ hl % Q = 0 THEN -2 ELSE Sp(y)
    BY <1>2, <1>8, <2>1, SecpAdd
  <2> HIDE DEF T, y
  <2>4. T = Sp(y) /\ y % Q # 0
    BY <1>8, <2>2, <2>3, SpIs
  <2> QED BY <1>8, <2>4, SpIs
<1>10. T \in Int /\ ~(T < 0)
  BY <1>9, QAssumption
<1>11. 0 \in {a, b, w % Q} => al < 0
  BY <1>1, STMask
<1>12. 0 \notin {a, b, w % Q} => al \in 1 .. Q - 1 /\ Cong(al, w) /\ ~(al < 0)
  BY <1>1, STMask
<1>13. a = 0 => ra < 0
  <2>1. ra = Sp(R * a)
    BY <1>1, <1>2, SecpMult
  <2>2. a = 0 => (R * a) % Q = 0
    BY <1>2, QAssumption
  <2>3. R * a \in Int
    BY <1>2
  <2> DEFINE v == R * a
  <2> HIDE DEF v
  <2>4. a = 0 => Sp(v) = -1
    BY <2>2, <2>3, SpIs DEF v
  <2> QED BY <2>1, <2>4 DEF v
<1>14. a # 0 => ra \in 1 .. Q - 1 /\ ~(ra < 0)
  <2>1. ra = Sp(R * a)
    BY <1>1, <1>2, SecpMult
  <2>2. (R * a) % Q = 0 <=> a % Q = 0
    BY <1>2, NoZeroDivisor, Zenon
  <2>3. R * a \in Int
    BY <1>2
  <2> DEFINE v == R * a
  <2> HIDE DEF v
  <2>4. a # 0 => Sp(v) \in 1 .. Q - 1
    BY <1>2, <2>2, <2>3, SpIs DEF v
  <2>5. a # 0 => ra \in 1 .. Q - 1
    BY <2>1, <2>4 DEF v
  <2> QED BY <2>5, QAssumption
<1> HIDE DEF T, al, ra, S
<1>15. w \in Int
  <2>1. hb \in Int
    BY <1>2
  <2> HIDE DEF hb
  <2> QED BY <1>2, <2>1
\* One challenge c, with the commitment al.
<1>16. ASSUME NEW c \in Zq, NEW t, NEW u, t = (a + c * sigma) % Q, u = (b + c * l) % Q, 0 \notin {a, b, w % Q}
       PROVE  /\ t \in Zq /\ Cong(t, a + c * sigma) /\ ((t - a) % Q = 0 <=> c = 0)
              /\ 0 \notin {t, u, c, (t + h * u) % Q} => STVerdict(al, h, T, c, t, u) = "accept"
              /\ STVerdict(al, h, T, c, t, u) = "reject" => (t + h * u) % Q = 0
  <2>0. c \in Int
    BY QAssumption DEF Zq
  <2>1. t \in Zq /\ t \in Nat /\ Cong(t, a + c * sigma) /\ ((t - a) % Q = 0 <=> c = 0)
    BY <1>1, <1>16, SameAsMask
  <2>2. u \in Zq /\ u \in Int /\ Cong(u, b + c * l)
    <3> DEFINE v == b + c * l
    <3>1. v \in Int /\ u = v % Q
      BY <1>2, <1>16, <2>0
    <3> HIDE DEF v
    <3>2. u \in Zq /\ u \in Int /\ Cong(u, v)
      BY <3>1, ModType, CgMod
    <3> QED BY <3>2 DEF v
  <2>3. Cong((a + h * b) + T * c, t + h * u)
    <3>1. t \in Int /\ Cong(T, sigma + h * l)
      BY <1>9, <2>1
    <3> HIDE DEF sigma, l, a, b, h
    <3> QED BY <1>2, <1>10, <2>0, <2>1, <2>2, <3>1, STEquation
  <2> DEFINE Tc == T * c
  <2>4. Tc \in Int /\ al \in 1 .. Q - 1 /\ Cong(al, w) /\ al \in Int /\ Cong(w + Tc, t + h * u)
    <3>1. al \in 1 .. Q - 1 /\ Cong(al, w) /\ al \in Int
      BY <1>12, <1>16, QAssumption
    <3> QED BY <1>10, <2>0, <2>3, <3>1
  <2>5. Cong(al + Tc, t + h * u)
    <3> HIDE DEF Tc, w
    <3>1. Cong(Tc, Tc)
      BY DEF Cong
    <3>2. Cong(al + Tc, w + Tc)
      BY <1>15, <2>4, <3>1, CgPlus
    <3> QED BY <2>4, <3>2 DEF Cong
  <2> HIDE DEF h
  <2>6. /\ 0 \notin {t, u, c, (t + h * u) % Q} => STVerdict(al, h, T, c, t, u) = "accept"
        /\ STVerdict(al, h, T, c, t, u) = "reject" => (t + h * u) % Q = 0
    BY <1>1, <1>9, <2>1, <2>2, <2>4, <2>5, STCheck
  <2> QED BY <2>1, <2>6
<1>17. STGood(j, o.pfT, o.verdictT)
  <2> DEFINE t == pfT.t
             u == pfT.u
             z == (t + h * u) % Q
  <2>1. CASE 0 \in {a, b, w % Q}
    <3>1. \E p \in {T, pfT.alpha} : p < 0
      BY <1>4, <1>11, <2>1
    <3>2. o.verdictT = "nil point"
      BY <1>3, <3>1 DEF Verdict
    <3> QED BY <2>1, <3>2 DEF STGood
  <2>2. CASE 0 \notin {a, b, w % Q}
    <3>0. al \in 1 .. Q - 1 /\ ~(al < 0)
      BY <1>12, <2>2
    <3>1. c1 \in Zq
      <4>1. <<T, h, Secp!Base, al>> \in Seq(Int)
        <5>1. al \in Int
          BY <3>0, QAssumption
        <5> QED BY <1>2, <1>10, <5>1 DEF Secp!Base
      <4> QED BY <1>1, <4>1, SecpChallenge
    <3>2. ~(\E p \in {T, pfT.alpha} : p < 0)
      BY <1>4, <1>10, <3>0
    <3>3. o.verdictT = STVerdict(al, h, T, c1, t, u)
      BY <1>3, <1>4, <1>6, <3>2 DEF Verdict
    <3> HIDE DEF c1
    <3>4. /\ ((t - a) % Q = 0 <=> c1 = 0)
          /\ 0 \notin {t, u, c1, z} => STVerdict(al, h, T, c1, t, u) = "accept"
          /\ STVerdict(al, h, T, c1, t, u) = "reject" => z = 0
      BY <1>4, <1>16, <2>2, <3>1
    <3>5. /\ 0 \notin {a, b, w % Q, t, (t - a) % Q, z, u} => o.verdictT = "accept"
          /\ o.verdictT = "reject" => 0 \in {t, z}
      <4> HIDE DEF z
      <4> QED BY <3>3, <3>4
    <3> QED BY <1>3, <3>5 DEF STGood
  <2> QED BY <2>1, <2>2
<1>18. STGood(j, o.pfST, o.verdictST)
  <2> DEFINE t == pfST.t
             u == pfST.u
             z == (t + h * u) % Q
             first == Secp!AddThenSame(ra, Secp!ScalarMult(S, c2), Secp!ScalarMult(R, t))
  <2>1. CASE 0 \in {a, b, w % Q}
    <3>1. \E p \in {T, pfST.alpha, pfST.beta} : p < 0
      BY <1>5, <1>11, <2>1
    <3>2. o.verdictST = "nil point"
      BY <1>3, <3>1 DEF Verdict
    <3> QED BY <2>1, <3>2 DEF STGood
  <2>2. CASE 0 \notin {a, b, w % Q}
    <3>0. al \in 1 .. Q - 1 /\ ~(al < 0) /\ ra \in 1 .. Q - 1 /\ ~(ra < 0) /\ a # 0
      BY <1>12, <1>14, <2>2
    <3>1. c2 \in Zq
      <4>1. <<T, h, Secp!Base, ra, al>> \in Seq(Int)
        <5>1. al \in Int /\ ra \in Int
          BY <3>0, QAssumption
        <5> QED BY <1>2, <1>10, <5>1 DEF Secp!Base
      <4> QED BY <1>1, <4>1, SecpChallenge
    <3>2. ~(\E p \in {T, pfST.alpha, pfST.beta} : p < 0)
      BY <1>5, <1>10, <3>0
    <3>3. o.verdictST = IF first = "accept" THEN STVerdict(al, h, T, c2, t, u) ELSE first
      BY <1>3, <1>5, <1>7, <3>2 DEF Verdict
    <3> HIDE DEF c2
    <3>4. /\ t \in Zq /\ Cong(t, a + c2 * sigma) /\ ((t - a) % Q = 0 <=> c2 = 0)
          /\ 0 \notin {t, u, c2, z} => STVerdict(al, h, T, c2, t, u) = "accept"
          /\ STVerdict(al, h, T, c2, t, u) = "reject" => z = 0
      BY <1>5, <1>16, <2>2, <3>1
    <3>5. (0 \notin {t, c2} => first = "accept") /\ (first = "reject" => t = 0)
      <4> HIDE DEF t, R, sigma, a
      <4> QED BY <1>1, <3>0, <3>1, <3>4, STFirst DEF S, ra
    <3> HIDE DEF first
    <3>6. /\ 0 \notin {a, b, w % Q, t, (t - a) % Q, z, u} => o.verdictST = "accept"
          /\ o.verdictST = "reject" => 0 \in {t, z}
      <4> HIDE DEF z
      <4> QED BY <3>3, <3>4, <3>5
    <3> QED BY <1>3, <3>6 DEF STGood
  <2> QED BY <2>1, <2>2
<1> QED BY <1>17, <1>18 DEF o

\* The Schnorr, Diffie-Hellman, T and ST proofs of crypto/zkp, whatever the witness,
\* the nonces and the hash function: an honest Schnorr or Diffie-Hellman proof is
\* accepted exactly if no number of it is 0 mod the order of the group (the point at
\* infinity of secp256k1 has no affine coordinates; on edwards25519 it always is),
\* an honest T or ST proof if no point of it is nil, and it is rejected only for
\* a nil point.  For every prime order Q.
THEOREM PointProofsCompleteHolds == Spec => []PointProofsComplete
<1>1. Inv => PointProofsComplete
  <2> SUFFICES ASSUME Inv PROVE PointProofsComplete
    OBVIOUS
  <2>1. Done("dlog") =>
         (out.verdict = "accept" <=>
            job.edwards \/ 0 \notin {job.x, job.a, (out.pf.t - job.a) % Q, out.pf.t})
    <3> SUFFICES ASSUME Done("dlog")
                 PROVE  out.verdict = "accept" <=>
                          job.edwards \/ 0 \notin {job.x, job.a, (out.pf.t - job.a) % Q, out.pf.t}
      OBVIOUS
    <3>1. job \in DLogJobs /\ out = DLogOut(job) /\ DLogX(job) # Nil
      BY DEF Inv, JobInv, DLogInv, Done
    <3> QED BY <3>1, DLogJob, Zenon
  <2>2. Done("ddh") =>
         (out.verdict = "accept" <=> 0 \notin {job.s, (out.pf.z - job.s) % Q, out.pf.z % Q})
    <3> SUFFICES ASSUME Done("ddh")
                 PROVE  out.verdict = "accept" <=> 0 \notin {job.s, (out.pf.z - job.s) % Q, out.pf.z % Q}
      OBVIOUS
    <3>1. job \in DDHJobs /\ out = DDHOut(job)
      BY DEF Inv, JobInv, DDHInv, Done
    <3> QED BY <3>1, DDHJob, Zenon
  <2>3. Done("st") => STGood(job, out.pfT, out.verdictT) /\ STGood(job, out.pfST, out.verdictST)
    <3> SUFFICES ASSUME Done("st")
                 PROVE  STGood(job, out.pfT, out.verdictT) /\ STGood(job, out.pfST, out.verdictST)
      OBVIOUS
    <3>1. job \in STJobs /\ out = STOut(job) /\ ~(STOut(job).T < 0)
      BY DEF Inv, JobInv, STInv, Done
    <3> QED BY <3>1, STJob
  <2> QED BY <2>1, <2>2, <2>3 DEF PointProofsComplete, STGood
<1> QED BY <1>1, Invariance, PTL

-----------------------------------------------------------------------------
(* What accepted proofs about points show.                                 *)

LEMMA Different ==
    ASSUME NEW a \in Zq, NEW b \in Zq, a # b PROVE (a - b) % Q # 0 /\ a - b \in Int
<1>1. a \in Int /\ b \in Int /\ a % Q = a /\ b % Q = b /\ 0 \in Int
  BY ModSmall, QAssumption DEF Zq
<1>2. a - b \in Int
  BY <1>1
<1>3. ASSUME (a - b) % Q = 0 PROVE FALSE
  <2> DEFINE d == a - b
  <2>1. Cong(d, 0) /\ Cong(b, b)
    <3>1. 0 % Q = 0
      BY QAssumption
    <3> QED BY <1>3, <3>1 DEF Cong
  <2>2. d + b = a /\ 0 + b = b
    BY <1>1
  <2>3. d \in Int
    BY <1>2
  <2> HIDE DEF d
  <2>4. Cong(d + b, 0 + b)
    BY <1>1, <2>1, <2>3, CgPlus
  <2> QED BY <1>1, <2>2, <2>4 DEF Cong
<1> QED BY <1>2, <1>3

\* s / d mod Q.
LEMMA Divide ==
    ASSUME NEW y \in Int, NEW d \in Int, NEW s \in Int, d % Q # 0, Cong(y * d, s)
    PROVE  LET w == (s * ModInverse(d)) % Q IN w \in Zq /\ w \in Nat /\ Cong(w, y)
<1> DEFINE m == ModInverse(d)
           yd == y * d
           sm == s * m
           w == sm % Q
           dm == d * m
<1>1. m \in Int /\ Cong(dm, 1)
  BY InverseIs
<1> HIDE DEF m
<1>2. yd \in Int /\ sm \in Int /\ dm \in Int /\ Cong(yd, s)
  BY <1>1
<1>3. Cong(sm, m * yd)
  <2> HIDE DEF yd
  <2>1. Cong(m * yd, m * s)
    BY <1>1, <1>2, CgFactor, Zenon
  <2>2. m * s = sm
    BY <1>1
  <2> QED BY <2>1, <2>2 DEF Cong
<1>4. m * yd = y * dm
  BY <1>1
<1>5. Cong(y * dm, y * 1)
  <2> HIDE DEF dm
  <2>0. 1 \in Int
    OBVIOUS
  <2> QED BY <1>1, <1>2, <2>0, CgFactor, Zenon
<1>6. y * 1 = y
  OBVIOUS
<1> HIDE DEF yd, dm, sm
<1>7. w \in Zq /\ w \in Int /\ Cong(w, sm)
  BY <1>2, ModType, CgMod
<1>8. w \in Nat
  BY <1>7, QAssumption DEF Zq
<1>9. Cong(w, y)
  BY <1>3, <1>4, <1>5, <1>6, <1>7 DEF Cong
<1> QED BY <1>7, <1>8, <1>9 DEF sm, m

\* Two answers, with the same commitment.
LEMMA Subtract ==
    ASSUME NEW n \in Nat, n > 0, NEW al \in Int, NEW X \in Int, NEW c \in Int, NEW b \in Int,
           NEW t \in Int, NEW u \in Int, Eqm(al + X * c, t, n), Eqm(al + X * b, u, n)
    PROVE  Eqm(X * (c - b), t - u, n)
<1> DEFINE Xc == X * c
           Xb == X * b
           p == al + Xc
           r == al + Xb
<1>1. Xc \in Int /\ Xb \in Int /\ p \in Int /\ r \in Int /\ n \in Int
  OBVIOUS
<1>2. X * (c - b) = Xc - Xb
  OBVIOUS
<1>3. Eqm(p, t, n) /\ Eqm(r, u, n)
  OBVIOUS
<1> HIDE DEF Xc, Xb
<1>4. Xc - Xb = p - r
  BY <1>1
<1> HIDE DEF p, r
<1>5. Eqm(p - r, t - u, n)
  BY <1>1, <1>3, EqmPlus
<1> QED BY <1>2, <1>4, <1>5

LEMMA SecpForge ==
    ASSUME NEW X \in 1 .. Q - 1, NEW al \in 1 .. Q - 1, NEW t \in Zq, NEW u \in Zq, NEW salt \in Nat, NEW salt2 \in Nat,
           Secp!VerifyDLog(X, [alpha |-> al, t |-> t], salt) = "accept",
           Secp!VerifyDLog(X, [alpha |-> al, t |-> u], salt2) = "accept",
           NEW c, NEW b, c = Secp!Challenge(salt, <<X, Secp!Base, al>>),
           b = Secp!Challenge(salt2, <<X, Secp!Base, al>>), c # b
    PROVE  Secp!ScalarBaseMult(((t - u) * ModInverse(c - b)) % Q) = X
<1>1. X \in Int /\ al \in Int /\ t \in Int /\ u \in Int /\ Q \in Nat /\ Q > 0 /\ Sp(X) = X
  BY SpSmall, QAssumption DEF Zq
<1>2. c \in Zq /\ Cong(al + X * c, t)
  <2> DEFINE pf == [alpha |-> al, t |-> t]
  <2>1. pf.alpha = al /\ pf.t = t
    OBVIOUS
  <2>2. Secp!VerifyDLog(X, pf, salt) = "accept"
    OBVIOUS
  <2> HIDE DEF pf
  <2> QED BY <2>1, <2>2, SecpVerdict
<1>3. b \in Zq /\ Cong(al + X * b, u)
  <2> DEFINE pf == [alpha |-> al, t |-> u]
  <2>1. pf.alpha = al /\ pf.t = u
    OBVIOUS
  <2>2. Secp!VerifyDLog(X, pf, salt2) = "accept"
    OBVIOUS
  <2> HIDE DEF pf
  <2> QED BY <2>1, <2>2, SecpVerdict
<1>4. c \in Int /\ b \in Int
  BY <1>2, <1>3, QAssumption DEF Zq
<1> DEFINE d == c - b
           s == t - u
           Xd == X * d
<1>5. d \in Int /\ d % Q # 0 /\ s \in Int
  BY <1>1, <1>2, <1>3, Different
<1>6. Cong(Xd, s)
  <2> DEFINE p == al + X * c
             r == al + X * b
  <2>1. p \in Int /\ r \in Int
    BY <1>1, <1>4
  <2>2. Eqm(p, t, Q) /\ Eqm(r, u, Q)
    <3>1. p % Q = t % Q /\ r % Q = u % Q
      BY <1>2, <1>3 DEF Cong
    <3> HIDE DEF p, r
    <3> QED BY <1>1, <2>1, <3>1, EqmMod
  <2>3. Eqm(X * (c - b), t - u, Q)
    BY <1>1, <1>4, <2>2, Subtract, Zenon
  <2>4. Xd \in Int
    BY <1>1, <1>5
  <2>5. Eqm(Xd, s, Q)
    BY <2>3
  <2> HIDE DEF Xd, s
  <2> QED BY <1>1, <1>5, <2>4, <2>5, EqmMod DEF Cong
<1> DEFINE w == (s * ModInverse(d)) % Q
<1> HIDE DEF d, s
<1>7. w \in Zq /\ w \in Nat /\ Cong(w, X)
  BY <1>1, <1>5, <1>6, Divide
<1> HIDE DEF w
<1>8. Secp!ScalarBaseMult(w) = Sp(w)
  BY <1>7, SecpBase
<1>9. Secp!ScalarBaseMult(w) = X
  BY <1>1, <1>7, <1>8, SpCong
<1> QED BY <1>9 DEF w, s, d

\* EightInvEight gives a multiple of 8.
LEMMA EightIs ==
    ASSUME NEW X \in Edw!Point
    PROVE  LET E == Edw!EightInvEight(X)
           IN  E \in Nat /\ E \in 0 .. 8 * Q - 1 /\ \E y \in Nat : Eqm(E, 8 * y, 8 * Q)
<1> DEFINE n == 8 * Q
           i == Edw!Inverse(8, Q)
           k == IF i < 0 THEN 1 ELSE i
           M == Edw!ScalarMult(X, 8)
           E == Edw!ScalarMult(M, i)
           y == X * k
<1>1. n \in Nat /\ n > 0 /\ n \in Int /\ X \in Nat /\ X \in Int /\ 8 \in Nat /\ 8 \in Int
  BY EdwIs
<1>2. i = -1 \/ i \in 0 .. Q - 1
  <2>1. i = Ar!Inverse(8, Q)
    BY EdwInverse, Zenon
  <2>2. Q \in Nat /\ Q > 0
    BY QAssumption
  <2>3. CASE Unit(8, Q)
    BY <1>1, <2>1, <2>2, <2>3, InverseOf
  <2>4. CASE ~Unit(8, Q)
    BY <1>1, <2>1, <2>2, <2>4, NoInverse
  <2> QED BY <2>3, <2>4
<1>3. M \in Nat /\ Eqm(M, X * 8, n)
  BY <1>1, EdwMult
<1> HIDE DEF i, M
<1>4. k \in Nat /\ k \in Int
  BY <1>2, QAssumption
<1>5. E = Edw!ScalarMult(M, k)
  <2>1. CASE i = -1
    <3>1. (IF i < 0 THEN -i ELSE i) = 1 /\ k = 1 /\ (IF k < 0 THEN -k ELSE k) = 1
      <4>1. ~(1 < 0) /\ \A x \in Int : x + 1 = 0 => -x = 1 /\ x < 0
        OBVIOUS
      <4>2. i \in Int /\ i + 1 = 0
        BY <2>1
      <4>4. i < 0 /\ -i = 1
        BY <4>1, <4>2, Zenon
      <4>3. k = 1
        BY <4>4
      <4> QED BY <4>1, <4>4, <4>3, Zenon
    <3> QED BY <3>1, Zenon DEF Edw!ScalarMult
  <2>2. CASE i # -1
    <3>1. k = i
      BY <1>2, <2>2, QAssumption
    <3> QED BY <3>1
  <2> QED BY <2>1, <2>2
<1> HIDE DEF k
<1>6. E \in Nat /\ E \in 0 .. 8 * Q - 1 /\ Eqm(E, M * k, n)
  BY <1>3, <1>4, <1>5, EdwMult
<1>7. y \in Nat
  BY <1>1, <1>4
<1>8. Eqm(M * k, (X * 8) * k, n)
  <2> DEFINE x8 == X * 8
  <2>1. x8 \in Int /\ M \in Int /\ Eqm(M, x8, n)
    BY <1>1, <1>3
  <2> HIDE DEF x8, n
  <2>2. Eqm(M * k, x8 * k, n)
    BY <1>1, <1>4, <2>1, EqmScale, Zenon
  <2> QED BY <2>2 DEF x8
<1>9. (X * 8) * k = 8 * y /\ M * k \in Int /\ 8 * y \in Int /\ E \in Int
  BY <1>1, <1>3, <1>4, <1>6
<1>10. Eqm(E, 8 * y, n)
  <2>1. Eqm(M * k, 8 * y, n)
    BY <1>8, <1>9
  <2> HIDE DEF E, n
  <2> QED BY <1>1, <1>6, <1>9, <2>1, EqmTrans, Zenon
<1>11. Edw!EightInvEight(X) = E
  BY DEF Edw!EightInvEight, M, i
<1> QED BY <1>6, <1>7, <1>10, <1>11

LEMMA EdwForge ==
    ASSUME NEW X \in Nat, X \in 0 .. 8 * Q - 1, NEW y \in Nat, Eqm(X, 8 * y, 8 * Q), NEW al \in Nat,
           NEW t \in Zq, NEW u \in Zq, NEW salt \in Nat, NEW salt2 \in Nat,
           Edw!VerifyDLog(X, [alpha |-> al, t |-> t], salt) = "accept",
           Edw!VerifyDLog(X, [alpha |-> al, t |-> u], salt2) = "accept",
           NEW c, NEW b, c = Edw!Challenge(salt, <<X, Edw!Base, al>>),
           b = Edw!Challenge(salt2, <<X, Edw!Base, al>>), c # b
    PROVE  Edw!ScalarBaseMult(((t - u) * ModInverse(c - b)) % Q) = X
<1> DEFINE n == 8 * Q
           d == c - b
           s == t - u
           yd == y * d
           w == (s * ModInverse(d)) % Q
<1>1. X \in Int /\ al \in Int /\ t \in Int /\ u \in Int /\ y \in Int /\ Q \in Nat /\ Q > 0 /\ Q \in Int
  BY QAssumption DEF Zq
<1>2. n \in Nat /\ n > 0 /\ n \in Int /\ Edw!Base = 8
  BY EdwIs
<1>3. c \in Zq /\ b \in Zq /\ c \in Int /\ b \in Int
  <2>1. <<X, Edw!Base, al>> \in Seq(Int)
    BY <1>1, <1>2
  <2>2. c \in Zq /\ b \in Zq
    BY <2>1, EdwChallenge
  <2> QED BY <2>2, QAssumption DEF Zq
<1>4. Eqm(al + X * c, 8 * t, n)
  <2> DEFINE pf == [alpha |-> al, t |-> t]
  <2>1. pf.alpha = al /\ pf.t = t
    OBVIOUS
  <2>2. Edw!VerifyDLog(X, pf, salt) = "accept"
    OBVIOUS
  <2> HIDE DEF pf
  <2> QED BY <2>1, <2>2, EdwVerdict
<1>5. Eqm(al + X * b, 8 * u, n)
  <2> DEFINE pf == [alpha |-> al, t |-> u]
  <2>1. pf.alpha = al /\ pf.t = u
    OBVIOUS
  <2>2. Edw!VerifyDLog(X, pf, salt2) = "accept"
    OBVIOUS
  <2> HIDE DEF pf
  <2> QED BY <2>1, <2>2, EdwVerdict
<1>6. d \in Int /\ d % Q # 0 /\ s \in Int
  BY <1>1, <1>3, Different
<1>7. yd \in Int
  BY <1>1, <1>6
<1>8. Eqm(X * d, 8 * s, n)
  <2> DEFINE t8 == 8 * t
             u8 == 8 * u
  <2>1. t8 \in Int /\ u8 \in Int /\ t8 - u8 = 8 * s /\ Eqm(al + X * c, t8, n) /\ Eqm(al + X * b, u8, n)
    BY <1>1, <1>4, <1>5
  <2> HIDE DEF t8, u8, n
  <2>2. Eqm(X * (c - b), t8 - u8, n)
    BY <1>1, <1>2, <1>3, <2>1, Subtract, Zenon
  <2> QED BY <2>1, <2>2
<1>9. Eqm(X * d, 8 * yd, n)
  <2> DEFINE y8 == 8 * y
  <2>1. y8 \in Int /\ Eqm(X, y8, n) /\ y8 * d = 8 * yd
    BY <1>1, <1>6
  <2> HIDE DEF y8, n, d
  <2>2. Eqm(X * d, y8 * d, n)
    BY <1>1, <1>2, <1>6, <2>1, EqmScale, Zenon
  <2> QED BY <2>1, <2>2
<1>10. Cong(yd, s)
  <2> DEFINE y8 == 8 * yd
             s8 == 8 * s
             Xd == X * d
  <2>1. y8 \in Int /\ s8 \in Int /\ Xd \in Int /\ Eqm(Xd, y8, n) /\ Eqm(Xd, s8, n)
    BY <1>1, <1>6, <1>7, <1>8, <1>9
  <2>2. Eqm(8 * yd, 8 * s, 8 * Q) <=> Eqm(yd, s, Q)
    BY <1>6, <1>7, EightTimes
  <2> HIDE DEF Xd, y8, s8, n
  <2>3. Eqm(y8, Xd, n)
    BY <1>2, <2>1, EqmSym
  <2>4. Eqm(y8, s8, n)
    BY <1>2, <2>1, <2>3, EqmTrans, Zenon
  <2>5. Eqm(yd, s, Q)
    BY <2>2, <2>4 DEF y8, s8, n
  <2> HIDE DEF yd, s
  <2> QED BY <1>1, <1>6, <1>7, <2>5, EqmMod DEF Cong
<1> HIDE DEF d, s
<1>11. w \in Zq /\ w \in Nat /\ w \in Int /\ Cong(w, y)
  <2>1. w \in Zq /\ w \in Nat /\ Cong(w, y)
    BY <1>1, <1>6, <1>10, Divide
  <2> QED BY <2>1
<1> HIDE DEF w
<1>12. Edw!ScalarBaseMult(w) = X
  <2> DEFINE B == Edw!ScalarMult(8, w)
             w8 == 8 * w
             y8 == 8 * y
  <2>1. B \in 0 .. n - 1 /\ Eqm(B, w8, n)
    BY <1>11, EdwMult
  <2>2. Eqm(w, y, Q)
    BY <1>1, <1>11, EqmMod DEF Cong
  <2>3. Eqm(w8, y8, n)
    BY <1>1, <1>11, <2>2, EightTimes
  <2>4. w8 \in Int /\ y8 \in Int /\ B \in Int /\ X \in 0 .. n - 1 /\ Eqm(X, y8, n)
    BY <1>1, <1>2, <1>11, <2>1
  <2> HIDE DEF B, w8, y8, n
  <2>5. B % n = w8 % n /\ w8 % n = y8 % n /\ X % n = y8 % n
    BY <1>1, <1>2, <2>1, <2>3, <2>4, EqmMod
  <2>6. B % n = B /\ X % n = X
    BY <1>2, <2>1, <2>4, SmallMod
  <2> QED BY <1>2, <2>5, <2>6 DEF Edw!ScalarBaseMult, B
<1> QED BY <1>12 DEF w, s, d

\* Of a statement that is no Diffie-Hellman tuple, one challenge can be answered.
LEMMA DDHUnique ==
    ASSUME NEW G2 \in 1 .. Q - 1, NEW H1 \in 1 .. Q - 1, NEW H2 \in 1 .. Q - 1, H2 # (G2 * H1) % Q,
           NEW s1 \in Int, NEW s2 \in Int, NEW z \in Int, NEW y \in Int, NEW e \in Int, NEW f \in Int,
           Cong(H1 * e + s1, z), Cong(H2 * e + s2, G2 * z),
           Cong(H1 * f + s1, y), Cong(H2 * f + s2, G2 * y)
    PROVE  e % Q = f % Q
<1> DEFINE g == G2 * H1
           k == g - H2
           d == e - f
<1>1. G2 \in Int /\ H1 \in Int /\ H2 \in Int /\ H2 % Q = H2 /\ d \in Int /\ 0 \in Int /\ 0 % Q = 0
  BY QAssumption
<1>2. g \in Int /\ g % Q # H2
  BY <1>1
<1>3. k \in Int /\ k % Q # 0
  <2> HIDE DEF g
  <2>1. k \in Int
    BY <1>1, <1>2
  <2>2. ASSUME k % Q = 0 PROVE FALSE
    <3>1. Cong(k, 0) /\ Cong(H2, H2)
      BY <1>1, <2>2 DEF Cong
    <3>2. k + H2 = g /\ 0 + H2 = H2
      BY <1>1, <1>2
    <3> HIDE DEF k
    <3>3. Cong(k + H2, 0 + H2)
      BY <1>1, <2>1, <3>1, CgPlus
    <3> QED BY <1>1, <1>2, <3>2, <3>3 DEF Cong
  <2> QED BY <2>1, <2>2
\* Multiplied by G2, the first equation has the right side of the second.
<1>4. ASSUME NEW a \in Int, NEW w \in Int, Cong(H1 * a + s1, w), Cong(H2 * a + s2, G2 * w)
      PROVE  Cong(k * a, s2 - G2 * s1)
  <2> DEFINE p == H1 * a + s1
             r == H2 * a + s2
             Gp == G2 * p
             Gw == G2 * w
             Gs == G2 * s1
             Hw == H2 * a
  <2>1. p \in Int /\ r \in Int /\ Gw \in Int /\ Gs \in Int /\ Hw \in Int /\ g * a \in Int
    BY <1>1, <1>2
  <2>2. Cong(Gp, Gw)
    <3>1. Cong(p, w)
      BY <1>4
    <3> HIDE DEF p
    <3> QED BY <1>1, <2>1, <3>1, CgFactor, Zenon
  <2>3. Gp = g * a + Gs /\ k * a = g * a - Hw
    BY <1>1
  <2> DEFINE ga == g * a
  <2>4. Gp \in Int /\ Gp = ga + Gs /\ k * a = ga - Hw /\ r = Hw + s2 /\ Cong(Gp, Gw) /\ Cong(r, Gw) /\ ga \in Int
    BY <1>1, <1>4, <2>1, <2>2, <2>3
  <2> HIDE DEF Gp, Gw, Gs, Hw, ga, r
  <2>5. Cong(Gp, r)
    BY <2>4 DEF Cong
  <2>6. Cong(Hw + Gs, Hw + Gs)
    BY DEF Cong
  <2> DEFINE m == Hw + Gs
  <2>7. m \in Int /\ Cong(m, m) /\ Gp - m = ga - Hw /\ r - m = s2 - Gs
    BY <2>1, <2>4, <2>6
  <2> HIDE DEF m
  <2>8. Cong(Gp - m, r - m)
    BY <2>1, <2>4, <2>5, <2>7, CgMinus
  <2> QED BY <2>4, <2>7, <2>8 DEF Gs
<1>5. Cong(k * e, s2 - G2 * s1) /\ Cong(k * f, s2 - G2 * s1)
  BY <1>4
<1> HIDE DEF k
<1>6. Cong(k * d, 0)
  <2> DEFINE ke == k * e
             kf == k * f
  <2>1. ke \in Int /\ kf \in Int /\ k * d = ke - kf
    BY <1>3
  <2>2. Cong(ke, kf) /\ Cong(kf, kf)
    BY <1>5 DEF Cong
  <2> HIDE DEF ke, kf
  <2>3. Cong(ke - kf, kf - kf) /\ kf - kf = 0
    BY <2>1, <2>2, CgMinus
  <2> QED BY <2>1, <2>3
<1>7. d % Q = 0
  <2>1. Cong(d, 0)
    BY <1>1, <1>3, <1>6, Cancel
  <2> QED BY <1>1, <2>1 DEF Cong
<1>8. Cong(d + f, 0 + f)
  <2>1. Cong(d, 0) /\ Cong(f, f)
    BY <1>1, <1>7 DEF Cong
  <2> HIDE DEF d
  <2> QED BY <1>1, <2>1, CgPlus
<1>9. d + f = e /\ 0 + f = f
  OBVIOUS
<1> QED BY <1>8, <1>9 DEF Cong

LEMMA ForgeDDHJob ==
    ASSUME NEW j \in ForgeDDHJobs, j.H2 # (j.G2 * j.H1) % Q
    PROVE  Cardinality(DDHAnswered(j)) <= 1
<1> DEFINE G2 == j.G2
           H1 == j.H1
           H2 == j.H2
           s1 == j.s1
           s2 == j.s2
           st == [G2 |-> G2, H1 |-> H1, H2 |-> H2]
           e(salt) == Secp!ECDDHHash(salt, st, s1, s2)
           A == DDHAnswered(j)
<1>1. G2 \in 1 .. Q - 1 /\ H1 \in 1 .. Q - 1 /\ H2 \in 1 .. Q - 1 /\ s1 \in 1 .. Q - 1 /\ s2 \in 1 .. Q - 1
  BY ForgeJobsAssumption DEF Points1
<1>2. H2 # (G2 * H1) % Q
  OBVIOUS
<1>3. A = {e(salt) % Q : salt \in {v \in Salts : DDHAccepted(j, v)}}
  BY DEF DDHAnswered
<1>4. ASSUME NEW salt
      PROVE  DDHAccepted(j, salt) =
               \E z \in Zq : Secp!VerifyECDDH(st, [a1 |-> s1, a2 |-> s2, z |-> z], salt) = "accept"
  BY DEF DDHAccepted
<1>5. st.G2 = G2 /\ st.H1 = H1 /\ st.H2 = H2
  OBVIOUS
<1>6. s1 \in Int /\ s2 \in Int /\ G2 \in Int /\ H1 \in Int /\ H2 \in Int
  BY <1>1, QAssumption
<1> HIDE DEF G2, H1, H2, s1, s2, st, A
<1>7. ASSUME NEW salt \in Nat PROVE e(salt) \in Nat /\ e(salt) \in Int
  <2>1. e(salt) \in Nat
    BY <1>5, <1>6, SecpHashNat
  <2> QED BY <2>1
<1>8. ASSUME NEW salt \in Nat, DDHAccepted(j, salt)
      PROVE  \E z \in Int : Cong(H1 * e(salt) + s1, z) /\ Cong(H2 * e(salt) + s2, G2 * z)
  <2>1. PICK z \in Zq : Secp!VerifyECDDH(st, [a1 |-> s1, a2 |-> s2, z |-> z], salt) = "accept"
    BY <1>4, <1>8
  <2>2. z \in Nat /\ z \in Int
    BY QAssumption DEF Zq
  <2> DEFINE pf == [a1 |-> s1, a2 |-> s2, z |-> z]
  <2>3. pf.a1 = s1 /\ pf.a2 = s2 /\ pf.z = z /\ Secp!VerifyECDDH(st, pf, salt) = "accept"
    BY <2>1
  <2> HIDE DEF pf
  <2>4. Secp!VerifyECDDH(st, pf, salt) = "accept" <=>
              DDHEquations(st.G2, st.H1, st.H2, pf.a1, pf.a2, pf.z, Secp!ECDDHHash(salt, st, pf.a1, pf.a2))
    BY <1>1, <1>5, <2>2, <2>3, DDHVerdict
  <2>5. DDHEquations(G2, H1, H2, s1, s2, z, e(salt))
    BY <1>5, <2>3, <2>4
  <2>6. Cong(H1 * e(salt) + s1, z) /\ Cong(H2 * e(salt) + s2, G2 * z)
    BY <2>5, Zenon DEF DDHEquations
  <2> QED BY <2>2, <2>6
<1>9. ASSUME NEW salt \in Nat, DDHAccepted(j, salt), NEW salt2 \in Nat, DDHAccepted(j, salt2)
      PROVE  e(salt) % Q = e(salt2) % Q
  <2> DEFINE a == e(salt)
             b == e(salt2)
  <2>1. a \in Int /\ b \in Int
    BY <1>7
  <2>2. PICK z \in Int : Cong(H1 * a + s1, z) /\ Cong(H2 * a + s2, G2 * z)
    BY <1>8, <1>9
  <2>3. PICK y \in Int : Cong(H1 * b + s1, y) /\ Cong(H2 * b + s2, G2 * y)
    BY <1>8, <1>9
  <2> HIDE DEF a, b
  <2>4. a % Q = b % Q
    BY <1>1, <1>2, <1>6, <2>1, <2>2, <2>3, DDHUnique
  <2> QED BY <2>4 DEF a, b
<1>10. \A x, y \in A : x = y
  <2> SUFFICES ASSUME NEW x \in A, NEW y \in A PROVE x = y
    OBVIOUS
  <2>1. PICK v \in Salts : DDHAccepted(j, v) /\ x = e(v) % Q
    BY <1>3
  <2>2. PICK u \in Salts : DDHAccepted(j, u) /\ y = e(u) % Q
    BY <1>3
  <2>3. v \in Nat /\ u \in Nat
    BY SaltsAssumption
  <2> QED BY <1>9, <2>1, <2>2, <2>3
<1>11. CASE A = {}
  <2>1. Cardinality(A) = 0
    BY <1>11, FS_EmptySet
  <2> QED BY <2>1 DEF A
<1>12. CASE A # {}
  <2>1. PICK x \in A : TRUE
    BY <1>12
  <2>2. A = {x}
    BY <1>10, <2>1
  <2>3. Cardinality({x}) = 1
    BY FS_Singleton
  <2> QED BY <2>2, <2>3 DEF A
<1> QED BY <1>11, <1>12

ForgeGood(j, c, t, salt) ==
    LET other == AnswerDLog(j, t, salt)
        w == ((j.t - t) * ModInverse(c - other.c)) % Q
    IN  (other.verdict = "accept" /\ other.c # c) =>
            IF j.edwards THEN Edw!ScalarBaseMult(w) = Edw!EightInvEight(j.X)
            ELSE Secp!ScalarBaseMult(w) = j.X

LEMMA ForgeJob ==
    ASSUME NEW j \in ForgeJobs, AnswerDLog(j, j.t, j.salt).verdict = "accept", NEW t \in Zq, NEW salt \in Salts
    PROVE  ForgeGood(j, AnswerDLog(j, j.t, j.salt).c, t, salt)
<1> DEFINE o == AnswerDLog(j, j.t, j.salt)
           other == AnswerDLog(j, t, salt)
           al == j.alpha
           w == ((j.t - t) * ModInverse(o.c - other.c)) % Q
<1>1. j.edwards \in BOOLEAN /\ j.t \in Zq /\ j.salt \in Nat /\ salt \in Nat
  BY ForgeJobsAssumption, SaltsAssumption
<1> SUFFICES ASSUME other.verdict = "accept", other.c # o.c
             PROVE  IF j.edwards THEN Edw!ScalarBaseMult(w) = Edw!EightInvEight(j.X)
                    ELSE Secp!ScalarBaseMult(w) = j.X
  BY DEF ForgeGood
<1>2. CASE j.edwards
  <2> DEFINE X == Edw!EightInvEight(j.X)
             c == Edw!Challenge(j.salt, <<X, Edw!Base, al>>)
             b == Edw!Challenge(salt, <<X, Edw!Base, al>>)
  <2>1. j.X \in Edw!Point /\ al \in Edw!Point
    BY <1>2, ForgeJobsAssumption
  <2>2. al \in Nat
    BY <2>1, EdwIs
  <2>3. X \in Nat /\ X \in 0 .. 8 * Q - 1 /\ \E y \in Nat : Eqm(X, 8 * y, 8 * Q)
    BY <2>1, EightIs
  <2>4. /\ o.c = c /\ o.verdict = Edw!VerifyDLog(X, [alpha |-> al, t |-> j.t], j.salt)
        /\ other.c = b /\ other.verdict = Edw!VerifyDLog(X, [alpha |-> al, t |-> t], salt)
    BY <1>2 DEF AnswerDLog
  <2>5. PICK y \in Nat : Eqm(X, 8 * y, 8 * Q)
    BY <2>3
  <2>6. c # b /\ Edw!VerifyDLog(X, [alpha |-> al, t |-> j.t], j.salt) = "accept"
        /\ Edw!VerifyDLog(X, [alpha |-> al, t |-> t], salt) = "accept"
    BY <2>4
  <2> HIDE DEF X, al
  <2>7. Edw!ScalarBaseMult(((j.t - t) * ModInverse(c - b)) % Q) = X
    BY <1>1, <2>2, <2>3, <2>5, <2>6, EdwForge
  <2> QED BY <1>2, <2>4, <2>7 DEF X
<1>3. CASE ~j.edwards
  <2> DEFINE X == j.X
             c == Secp!Challenge(j.salt, <<X, Secp!Base, al>>)
             b == Secp!Challenge(salt, <<X, Secp!Base, al>>)
  <2>1. X \in Secp!Point /\ al \in Secp!Point
    BY <1>3, ForgeJobsAssumption
  <2>2. X \in 1 .. Q - 1 /\ al \in 1 .. Q - 1
    BY <2>1, QAssumption DEF Secp!Point, Secp!Order
  <2>4. /\ o.c = c /\ o.verdict = Secp!VerifyDLog(X, [alpha |-> al, t |-> j.t], j.salt)
        /\ other.c = b /\ other.verdict = Secp!VerifyDLog(X, [alpha |-> al, t |-> t], salt)
    BY <1>3 DEF AnswerDLog
  <2>6. c # b /\ Secp!VerifyDLog(X, [alpha |-> al, t |-> j.t], j.salt) = "accept"
        /\ Secp!VerifyDLog(X, [alpha |-> al, t |-> t], salt) = "accept"
    BY <2>4
  <2> HIDE DEF X, al
  <2>7. Secp!ScalarBaseMult(((j.t - t) * ModInverse(c - b)) % Q) = X
    BY <1>1, <2>2, <2>6, SecpForge
  <2> QED BY <1>3, <2>4, <2>7 DEF X
<1> QED BY <1>1, <1>2, <1>3

\* What an accepted proof shows of any prover: two answers to one Schnorr
\* commitment under different challenges give the discrete logarithm that the
\* verifier is to be convinced of, on edwards25519 up to a component of small order
\* that round 3 clears; the verifier of the Diffie-Hellman proof accepts at most
\* one challenge for a tuple that is none.  For every order and all hash functions.
THEOREM PointProofsSoundHolds == Spec => []PointProofsSound
<1>1. Inv => PointProofsSound
  <2> SUFFICES ASSUME Inv PROVE PointProofsSound
    OBVIOUS
  <2>1. ASSUME Done("forge"), out.verdict = "accept", NEW t \in Zq, NEW salt \in Salts
        PROVE  ForgeGood(job, out.c, t, salt)
    <3>1. job \in ForgeJobs /\ out = AnswerDLog(job, job.t, job.salt)
      BY <2>1 DEF Inv, JobInv, ForgeInv, Done
    <3> QED BY <2>1, <3>1, ForgeJob
  <2>2. ASSUME Done("ddhforge"), job.H2 # (job.G2 * job.H1) % Q PROVE Cardinality(out.answered) <= 1
    <3>1. job \in ForgeDDHJobs /\ out = [answered |-> DDHAnswered(job)]
      BY <2>2 DEF Inv, JobInv, DDHForgeInv, Done
    <3>2. out.answered = DDHAnswered(job)
      BY <3>1
    <3> QED BY <2>2, <3>1, <3>2, ForgeDDHJob
  <2> QED BY <2>1, <2>2 DEF PointProofsSound, ForgeGood
<1> QED BY <1>1, Invariance, PTL

-----------------------------------------------------------------------------
(* The proofs about moduli.                                                *)

\* Exponents may be reduced mod k if the k-th power is 1.
LEMMA PwOrderUp ==
    ASSUME NEW x \in Int, NEW n \in Int, NEW k \in Nat, Eqm(Pw(x, k), 1, n), NEW b \in Nat, NEW m \in Nat
    PROVE  Eqm(Pw(x, b + k * m), Pw(x, b), n)
<1> DEFINE z == Pw(x, k)
           y == Pw(x, b)
           zm == Pw(z, m)
           km == k * m
<1>1. z \in Int /\ y \in Int /\ km \in Nat
  BY PwDef
<1>2. Pw(x, b + km) = y * Pw(x, km)
  BY <1>1, PwPlus
<1>3. Pw(x, km) = zm
  BY PwTimes
<1>4. Eqm(z, 1, n)
  OBVIOUS
<1> HIDE DEF z, y, km
<1>5. zm \in Int /\ Eqm(zm, Pw(1, m), n) /\ Pw(1, m) = 1
  BY <1>1, <1>4, PwDef, PwEqm, PwOfOne
<1> HIDE DEF zm
<1>6. Eqm(zm * y, 1 * y, n)
  <2>1. Eqm(zm, 1, n) /\ 1 \in Int
    BY <1>5
  <2> QED BY <1>1, <1>5, <2>1, EqmScale, Zenon
<1>7. 1 * y = y /\ zm * y = y * zm
  BY <1>1, <1>5
<1>8. Eqm(Pw(x, b + km), y, n)
  BY <1>2, <1>3, <1>6, <1>7
<1> QED BY <1>8 DEF y, km

LEMMA PwOrder ==
    ASSUME NEW x \in Int, NEW n \in Int, NEW k \in Nat, Eqm(Pw(x, k), 1, n), NEW a \in Nat, NEW b \in Nat,
           Eqm(a, b, k)
    PROVE  Eqm(Pw(x, a), Pw(x, b), n)
<1>1. PICK m \in Int : a = b + k * m
  BY DEF Eqm
<1>2. CASE m >= 0
  <2>1. m \in Nat
    BY <1>2
  <2>2. Eqm(Pw(x, b + k * m), Pw(x, b), n)
    BY <2>1, PwOrderUp
  <2> QED BY <1>1, <2>2
<1>3. CASE m < 0
  <2> DEFINE i == -m
  <2>1. i \in Nat
    BY <1>3
  <2>2. a + k * i = b
    BY <1>1
  <2> HIDE DEF i
  <2>3. Eqm(Pw(x, a + k * i), Pw(x, a), n)
    BY <2>1, PwOrderUp
  <2>4. Pw(x, a) \in Int /\ Pw(x, b) \in Int
    BY PwDef
  <2>5. Eqm(Pw(x, b), Pw(x, a), n)
    BY <2>2, <2>3
  <2> QED BY <2>4, <2>5, EqmSym
<1> QED BY <1>2, <1>3

\* The proof that N is a Paillier modulus: roots exist, and are found.
LEMMA PaiProofJob ==
    ASSUME NEW j \in PaiProofJobs
    PROVE  Pai!VerifyProof(j.P * j.R, j.xs, Pai!Proof(Pai!KeyPair(j.P, j.R), j.xs), j.prms)
<1> DEFINE P == j.P
           R == j.R
           N == P * R
           xs == j.xs
           sk == Pai!KeyPair(P, R)
           phi == sk.PhiN
           M == Pai!Inverse(N, phi)
           pf == Pai!Proof(sk, xs)
<1>1. KeyOk(P, R) /\ (\A prm \in j.prms : N % prm # 0) /\ j.iters \in Nat /\ xs \in Pai!GenerateXs(N, j.iters)
  BY PaiProofJobsAssumption
<1> HIDE DEF P, R, xs
<1>2. sk.N = N /\ N \in Nat /\ N > 1 /\ phi \in Nat /\ phi > 0 /\ Unit(N, phi) /\ phi = (P - 1) * (R - 1)
      /\ P \in Nat /\ R \in Nat /\ P > 1 /\ R > 1
  BY <1>1, KeyIs
<1>3. IsPrime(P) /\ IsPrime(R) /\ P # R
  BY <1>1 DEF KeyOk
<1>4. pf = [i \in DOMAIN xs |-> Pai!Exp(xs[i], M, N)]
  BY <1>2 DEF Pai!Proof
<1> HIDE DEF sk, pf
<1>5. M \in Nat /\ Eqm(M * N, 1, phi)
  <2>1. N \in Int
    BY <1>2
  <2> HIDE DEF N, phi
  <2>2. Ar!Inverse(N, phi) \in 0 .. phi - 1 /\ Eqm(N * Ar!Inverse(N, phi), 1, phi)
    BY <1>2, <2>1, InverseOf
  <2>3. M = Ar!Inverse(N, phi)
    BY PaiInverse, Zenon
  <2> HIDE DEF M
  <2>4. M \in Nat /\ Eqm(N * M, 1, phi)
    BY <1>2, <2>2, <2>3
  <2>5. N * M = M * N
    BY <2>1, <2>4
  <2> QED BY <2>4, <2>5
<1> HIDE DEF M
<1>6. ASSUME NEW i \in DOMAIN xs PROVE xs[i] % N = Pai!Exp(pf[i], N, N)
  <2> DEFINE x == xs[i]
             y == Pai!Exp(x, M, N)
             w == Pai!Exp(y, N, N)
  <2>1. x \in Nat /\ x \in Int /\ Unit(x, N)
    <3>1. x \in Pai!RandomPositiveRelativelyPrimeInt(N)
      BY <1>1 DEF Pai!GenerateXs
    <3>2. x \in Nat /\ Pai!GCD(x, N) = 1
      BY <3>1 DEF Pai!RandomPositiveRelativelyPrimeInt, Pai!RandomPositiveInt, Pai!IsNumberInMultiplicativeGroup
    <3>3. Unit(x, N)
      <4> HIDE DEF N, x
      <4> QED BY <1>2, <3>2, PaiGcd, GcdUnit
    <3> QED BY <3>2, <3>3
  <2>2. pf[i] = y
    BY <1>4
  <2> HIDE DEF x
  <2>3. Eqm(Pw(x, phi), 1, N)
    <3>1. P - 1 \in Nat /\ R - 1 \in Nat /\ (P - 1) * (R - 1) = (R - 1) * (P - 1)
      BY <1>2
    <3> HIDE DEF phi
    <3>2. (\E u \in Nat : phi = (P - 1) * u) /\ (\E u \in Nat : phi = (R - 1) * u)
      BY <1>2, <3>1
    <3> QED BY <1>2, <1>3, <2>1, <3>2, PowerIsOne
  <2> HIDE DEF phi, N
  <2>4. N \in Int /\ N > 0
    BY <1>2
  <2>5. y \in Int /\ Eqm(y, Pw(x, M), N) /\ Pw(x, M) \in Int
    BY <1>2, <1>5, <2>1, <2>4, PaiExpIs
  <2> HIDE DEF y
  <2>6. w \in 0 .. N - 1 /\ w \in Int /\ Eqm(w, Pw(y, N), N) /\ Pw(y, N) \in Int
    BY <1>2, <2>4, <2>5, PaiExpIs
  <2>7. Eqm(Pw(y, N), Pw(Pw(x, M), N), N) /\ Pw(Pw(x, M), N) \in Int
    BY <1>2, <2>4, <2>5, PwEqm, PwDef
  <2>8. Pw(Pw(x, M), N) = Pw(x, M * N)
    BY <1>2, <1>5, <2>1, PwTimes
  <2>9. Eqm(Pw(x, M * N), Pw(x, 1), N) /\ Pw(x, 1) = x
    <3>1. M * N \in Nat /\ 1 \in Nat
      BY <1>2, <1>5
    <3>2. Eqm(Pw(x, M * N), Pw(x, 1), N)
      BY <1>2, <1>5, <2>1, <2>3, <2>4, <3>1, PwOrder
    <3> QED BY <2>1, <3>2, PwOne
  <2> HIDE DEF w
  <2>10. Eqm(w, x, N)
    <3>1. Eqm(w, Pw(Pw(x, M), N), N)
      BY <2>4, <2>6, <2>7, EqmTrans, Zenon
    <3>2. Eqm(Pw(Pw(x, M), N), x, N)
      BY <2>8, <2>9
    <3> QED BY <2>1, <2>4, <2>6, <2>7, <3>1, <3>2, EqmTrans, Zenon
  <2>11. w % N = x % N /\ w % N = w
    BY <1>2, <2>1, <2>4, <2>6, <2>10, EqmMod, SmallMod
  <2> QED BY <2>2, <2>11 DEF w, x
<1> QED BY <1>1, <1>6 DEF Pai!VerifyProof, N, P, R, xs, pf, sk

\* One round of the proof that g is the power x of h, for the challenge b.
RoundOk(n, h, g, k, a, x, b) ==
    LET t == (a + b * x) % k
    IN  t \in Nat /\ t < k /\ Dln!Exp(h, t, n) = Dln!MulMod(Dln!Exp(h, a, n), Dln!Exp(g, b, n), n)

LEMMA DlnRound ==
    ASSUME NEW n \in Nat, n > 0, NEW h \in Int, NEW g \in Int, NEW k \in Nat, k > 0, Eqm(Pw(h, k), 1, n),
           NEW a \in Nat, NEW x \in Nat, NEW b \in Nat, Eqm(g, Pw(h, x), n)
    PROVE  RoundOk(n, h, g, k, a, x, b)
<1> DEFINE v == a + b * x
           w == b * x + a
           t == v % k
           A == Pw(h, a)
           X == Pw(h, x)
           B == Pw(X, b)
           G == Pw(g, b)
           l == Pai!Exp(h, t, n)
           r == Pai!MulMod(Pai!Exp(h, a, n), Pai!Exp(g, b, n), n)
<1>1. v \in Nat /\ v = w /\ n \in Int
  OBVIOUS
<1>2. A \in Int /\ X \in Int
  BY PwDef
<1>3. Pw(h, w) = B * A
  BY PwLinear
<1> HIDE DEF v, w
<1>4. t \in Nat /\ t < k /\ Eqm(t, v, k)
  <2>1. v \in Int
    BY <1>1
  <2>2. v % k \in Nat /\ v % k \in 0 .. k - 1 /\ Eqm(v % k, v, k)
    BY <2>1, ModIs
  <2>3. t \in Nat /\ t \in 0 .. k - 1 /\ Eqm(t, v, k)
    BY <2>2
  <2> HIDE DEF t
  <2> QED BY <2>3
<1> HIDE DEF t
<1>5. Eqm(Pw(h, t), Pw(h, v), n)
  BY <1>1, <1>4, PwOrder
<1> HIDE DEF A, X
<1>6. B \in Int /\ G \in Int /\ Eqm(G, B, n)
  <2>1. Eqm(g, X, n)
    BY DEF X
  <2> QED BY <1>1, <1>2, <2>1, PwDef, PwEqm
<1>7. l \in 0 .. n - 1 /\ l \in Int /\ Eqm(l, Pw(h, t), n) /\ Pw(h, t) \in Int
  BY <1>4, PaiExpIs
<1>8. r \in 0 .. n - 1 /\ r \in Int /\ Eqm(r, Pw(h, a) * Pw(g, b), n)
  BY ExpProd
<1> HIDE DEF B, G, l, r
<1> DEFINE AG == A * G
           BA == B * A
<1>9. AG \in Int /\ BA \in Int /\ Eqm(r, AG, n)
  BY <1>2, <1>6, <1>8 DEF A, G
<1>10. Eqm(BA, AG, n)
  <2>1. Eqm(B, G, n)
    BY <1>1, <1>6, EqmSym
  <2>2. Eqm(B * A, G * A, n)
    BY <1>1, <1>2, <1>6, <2>1, EqmScale, Zenon
  <2>3. G * A = AG
    BY <1>2, <1>6
  <2> QED BY <2>2, <2>3
<1>11. Eqm(l, BA, n)
  <2>1. Eqm(Pw(h, t), BA, n)
    BY <1>1, <1>3, <1>5
  <2> HIDE DEF BA
  <2> QED BY <1>1, <1>7, <1>9, <2>1, EqmTrans, Zenon
<1>12. l = r
  <2> HIDE DEF AG, BA
  <2> QED BY <1>7, <1>8, <1>9, <1>10, <1>11, SameProduct
<1>13. Dln!Exp(h, t, n) = l /\ Dln!MulMod(Dln!Exp(h, a, n), Dln!Exp(g, b, n), n) = r
  BY DlnExp, DlnMul DEF l, r
<1> QED BY <1>4, <1>12, <1>13 DEF RoundOk, t, v

\* A challenge bit.
LEMMA BitIs == ASSUME NEW c \in Nat, NEW i \in 1 .. Dln!Iterations PROVE Dln!Bit(c, i) \in Nat
<1>1. 2 ^ (i - 1) \in {1, 2}
  <2>0. i \in {1, 2}
    BY DEF Dln!Iterations
  <2>1. CASE i = 1
    <3>1. i - 1 = 0
      BY <2>1
    <3>2. 2 ^ (i - 1) = 2 ^ 0
      BY <3>1, Zenon
    <3> QED BY <3>2
  <2>2. CASE i = 2
    <3>1. i - 1 = 1
      BY <2>2
    <3>2. 2 ^ (i - 1) = 2 ^ 1
      BY <3>1, Zenon
    <3> QED BY <3>2
  <2> QED BY <2>0, <2>1, <2>2
<1> DEFINE x == 2 ^ (i - 1)
<1> HIDE DEF x
<1>2. (c \div x) % 2 \in Nat
  <2>1. x \in {1, 2}
    BY <1>1 DEF x
  <2> QED BY <2>1
<1> QED BY <1>2 DEF x, Dln!Bit

\* Verify, on what NewProof made of h and the exponent x of g.
LEMMA DlnProofIs ==
    ASSUME NEW n \in Nat, n > 1, NEW h \in 0 .. n - 1, NEW g \in 0 .. n - 1, Unit(h, n), Unit(g, n),
           NEW p \in Nat, NEW q \in Nat, p * q > 0, p * q < n, Eqm(Pw(h, p * q), 1, n),
           NEW a \in [1 .. Dln!Iterations -> Nat], NEW x \in Nat, Eqm(g, Pw(h, x), n), NEW salt \in Nat
    PROVE  LET pf == Dln!NewProof(h, g, x, p, q, n, a, salt)
           IN  Dln!VerifyDln(h, g, n, pf, salt) <=>
                 /\ h # 1 /\ g # 1 /\ h # g
                 /\ \A i \in 1 .. Dln!Iterations : pf.t[i] > 1 /\ pf.alpha[i] > 1
<1> DEFINE k == p * q
           I == 1 .. Dln!Iterations
           al == [i \in I |-> Dln!Exp(h, a[i], n)]
           c == Dln!SHA512_256i(salt, <<h, g, n>> \o al)
           t == [i \in I |-> (a[i] + Dln!Bit(c, i) * x) % k]
           pf == Dln!NewProof(h, g, x, p, q, n, a, salt)
<1>1. pf.alpha = al /\ pf.t = t
  BY DEF Dln!NewProof
<1>2. k \in Nat /\ k > 0 /\ k < n /\ n > 0 /\ h \in Int /\ g \in Int /\ h \in Nat /\ g \in Nat /\ Dln!Iterations \in Nat
  BY DEF Dln!Iterations
<1>3. Dln!VerifyDln(h, g, n, pf, salt) <=>
        /\ h % n > 1 /\ g % n > 1 /\ h % n # g % n
        /\ \A i \in I : pf.t[i] % n > 1 /\ pf.alpha[i] % n > 1
        /\ \A i \in I : Dln!Exp(h, pf.t[i], n) =
             Dln!MulMod(pf.alpha[i], Dln!Exp(g, Dln!Bit(Dln!SHA512_256i(salt, <<h, g, n>> \o pf.alpha), i), n), n)
  BY DEF Dln!VerifyDln, Dln!InOpenInterval
<1> HIDE DEF pf
<1>4. ASSUME NEW i \in I PROVE al[i] = Dln!Exp(h, a[i], n) /\ al[i] \in 0 .. n - 1 /\ al[i] \in Int
  <2>1. a[i] \in Nat
    OBVIOUS
  <2>2. Dln!Exp(h, a[i], n) = Pai!Exp(h, a[i], n)
    BY DlnExp, Zenon
  <2>3. Pai!Exp(h, a[i], n) \in 0 .. n - 1 /\ Pai!Exp(h, a[i], n) \in Int
    BY <1>2, <2>1, PaiExpIs
  <2> QED BY <2>2, <2>3
<1>5. al \in [I -> Int]
  BY <1>4
<1> HIDE DEF al
<1>6. c \in Nat
  <2>1. al \in Seq(Int)
    BY <1>2, <1>5, FunSeq
  <2>2. <<h, g, n>> \o al \in Seq(Int)
    BY <1>2, <2>1
  <2>3. Ha!SHA512_256i(salt, <<h, g, n>> \o al) \in Nat
    BY <2>2, HashIs
  <2> QED BY <2>3, DlnHashInts
<1> HIDE DEF c
<1>7. ASSUME NEW i \in I
      PROVE  /\ t[i] \in Nat /\ t[i] < n
             /\ Dln!Exp(h, t[i], n) = Dln!MulMod(al[i], Dln!Exp(g, Dln!Bit(c, i), n), n)
  <2> DEFINE b == Dln!Bit(c, i)
             ai == a[i]
             ti == (ai + b * x) % k
  <2>1. b \in Nat /\ ai \in Nat
    BY <1>6, BitIs
  <2>2. t[i] = ti
    OBVIOUS
  <2>3. al[i] = Dln!Exp(h, ai, n)
    BY <1>4
  <2> HIDE DEF b, ai
  <2>4. ti \in Nat /\ ti < k /\ Dln!Exp(h, ti, n) = Dln!MulMod(Dln!Exp(h, ai, n), Dln!Exp(g, b, n), n)
    <3>1. Eqm(Pw(h, k), 1, n)
      OBVIOUS
    <3>2. ti = (ai + b * x) % k
      OBVIOUS
    <3> HIDE DEF k, ti
    <3>3. n > 0 /\ h \in Int /\ g \in Int /\ k \in Nat /\ k > 0 /\ Eqm(g, Pw(h, x), n)
      BY <1>2
    <3>4. RoundOk(n, h, g, k, ai, x, b)
      BY <2>1, <3>1, <3>3, DlnRound
    <3> QED BY <3>2, <3>4 DEF RoundOk
  <2> HIDE DEF ti, t
  <2> QED BY <1>2, <2>2, <2>3, <2>4 DEF b
<1> HIDE DEF t
<1>8. ASSUME NEW i \in I PROVE t[i] % n = t[i] /\ al[i] % n = al[i]
  <2>1. t[i] \in 0 .. n - 1 /\ al[i] \in 0 .. n - 1
    BY <1>4, <1>7
  <2> QED BY <2>1, SmallMod
<1>9. h % n = h /\ g % n = g /\ h # 0 /\ g # 0
  BY <1>2, UnitNonZero
<1>10. (\A i \in I : pf.t[i] % n > 1 /\ pf.alpha[i] % n > 1) <=> (\A i \in I : pf.t[i] > 1 /\ pf.alpha[i] > 1)
  BY <1>1, <1>8
<1>11. \A i \in I : Dln!Exp(h, pf.t[i], n) =
             Dln!MulMod(pf.alpha[i], Dln!Exp(g, Dln!Bit(Dln!SHA512_256i(salt, <<h, g, n>> \o pf.alpha), i), n), n)
  BY <1>1, <1>7 DEF c
<1>12. h % n > 1 /\ g % n > 1 /\ h % n # g % n <=> h # 1 /\ g # 1 /\ h # g
  BY <1>2, <1>9
<1>13. Dln!VerifyDln(h, g, n, pf, salt) <=>
         h # 1 /\ g # 1 /\ h # g /\ \A i \in I : pf.t[i] > 1 /\ pf.alpha[i] > 1
  BY <1>3, <1>10, <1>11, <1>12
<1> QED BY <1>13 DEF pf

DlnGood(j, o) ==
    LET good(pf) == \A i \in 1 .. Dln!Iterations : pf.t[i] > 1 /\ pf.alpha[i] > 1
        bases == o.pp.H1i # 1 /\ o.pp.H2i # 1 /\ o.pp.H1i # o.pp.H2i
    IN  o.ok1 = (bases /\ good(o.pf1)) /\ o.ok2 = (bases /\ good(o.pf2))

\* The two proofs about h1 and h2.
LEMMA DlnJob ==
    ASSUME NEW j \in DlnJobs, DlnParams(j).Beta # Nil
    PROVE  DlnGood(j, DlnOut(j))
<1> DEFINE p == j.p
           q == j.q
           P == 2 * p + 1
           R == 2 * q + 1
           n == P * R
           k == p * q
           f == j.f1
           x == j.alpha
           a == j.a
           salt == j.salt
           pp == DlnParams(j)
           h == Dln!MulMod(f, f, n)
           g == Dln!Exp(h, x, n)
           y == Dln!Inverse(x, k)
           o == DlnOut(j)
<1>1. /\ IsPrime(p) /\ IsPrime(q) /\ p # q /\ IsPrime(P) /\ IsPrime(R)
      /\ InGroup(n, {f, x}) /\ a \in [1 .. Dln!Iterations -> Draw(k)] /\ salt \in Nat
  BY DlnJobsAssumption
<1>2. pp.NTildei = n /\ pp.H1i = h /\ pp.H2i = g /\ pp.Alpha = x /\ pp.Beta = y
  BY DEF DlnParams, Dln!PreParams
<1>3. /\ o.pp = pp
      /\ o.pf1 = Dln!NewProof(pp.H1i, pp.H2i, pp.Alpha, p, q, pp.NTildei, a, salt)
      /\ o.pf2 = Dln!NewProof(pp.H2i, pp.H1i, pp.Beta, p, q, pp.NTildei, a, salt)
      /\ o.ok1 = Dln!VerifyDln(pp.H1i, pp.H2i, pp.NTildei, o.pf1, salt)
      /\ o.ok2 = Dln!VerifyDln(pp.H2i, pp.H1i, pp.NTildei, o.pf2, salt)
  BY DEF DlnOut
<1>4. y # -1
  BY <1>2 DEF Nil
<1> HIDE DEF p, q, f, x, a, salt, pp, o
<1>5. p \in Nat /\ p > 1 /\ q \in Nat /\ q > 1 /\ P \in Nat /\ R \in Nat /\ P # R /\ P - 1 = 2 * p /\ R - 1 = 2 * q
  BY <1>1 DEF IsPrime
<1>6. k \in Nat /\ k > 0 /\ n \in Nat /\ n > 1 /\ k < n /\ n \in Int /\ n > 0
  <2>1. k \in Nat /\ k > 0
    BY <1>5
  <2>2. n = 4 * k + 2 * p + 2 * q + 1
    BY <1>5
  <2> HIDE DEF k, n, P, R
  <2> QED BY <1>5, <2>1, <2>2
<1>7. f \in Int /\ Unit(f, n) /\ x \in Nat /\ x \in Int
  <2>1. f \in {f, x} /\ x \in {f, x}
    OBVIOUS
  <2> HIDE DEF n
  <2> QED BY <1>1, <1>6, <2>1, GroupIs
<1>8. a \in [1 .. Dln!Iterations -> Nat]
  <2>1. Draw(k) \subseteq Nat
    BY <1>6 DEF Draw, Pai!RandomPositiveInt
  <2> QED BY <1>1, <2>1
\* h1 = f1^2 has an order that divides p*q.
<1> DEFINE k2 == k + k
<1>9. Eqm(Pw(f, k2), 1, n)
  <2>1. k2 \in Nat /\ k2 = (P - 1) * q /\ k2 = (R - 1) * p
    BY <1>5, <1>6
  <2>2. (\E u \in Nat : k2 = (P - 1) * u) /\ (\E u \in Nat : k2 = (R - 1) * u)
    <3> HIDE DEF k2
    <3> QED BY <1>5, <2>1
  <2> HIDE DEF k2
  <2> QED BY <1>1, <1>5, <1>7, <2>1, <2>2, PowerIsOne
<1> HIDE DEF n, k, P, R
<1> DEFINE ff == f * f
<1>10. ff \in Int /\ Unit(ff, n)
  BY <1>6, <1>7, UnitProd
<1>11. h \in 0 .. n - 1 /\ h \in Int /\ Eqm(h, ff, n)
  <2>1. h = Pai!MulMod(f, f, n)
    BY DlnMul, Zenon
  <2> QED BY <1>6, <1>7, <2>1, PaiMulIs
<1>12. Unit(h, n)
  <2> HIDE DEF h, ff
  <2> QED BY <1>6, <1>10, <1>11, UnitEqm
<1>13. Pw(ff, k) = Pw(f, k2) /\ Pw(ff, k) \in Int
  <2>1. Pw(f * f, k) = Pw(f, k) * Pw(f, k)
    BY <1>6, <1>7, PwProd
  <2>2. Pw(f, k + k) = Pw(f, k) * Pw(f, k)
    BY <1>6, <1>7, PwPlus
  <2>3. Pw(ff, k) \in Int
    BY <1>6, <1>10, PwDef
  <2> QED BY <2>1, <2>2, <2>3
<1> HIDE DEF h, ff, k2
<1>14. Eqm(Pw(h, k), 1, n) /\ Pw(h, k) \in Int
  <2>1. Eqm(Pw(h, k), Pw(ff, k), n) /\ Pw(h, k) \in Int
    BY <1>6, <1>10, <1>11, PwEqm, PwDef
  <2>2. Eqm(Pw(ff, k), 1, n) /\ 1 \in Int
    BY <1>9, <1>13
  <2> QED BY <1>6, <1>13, <2>1, <2>2, EqmTrans, Zenon
\* So has h2 = h1^alpha.
<1> DEFINE hx == Pw(h, x)
<1>15. hx \in Int /\ Unit(hx, n)
  BY <1>6, <1>7, <1>11, <1>12, PwDef, UnitPw
<1>16. g \in 0 .. n - 1 /\ g \in Int /\ Eqm(g, hx, n)
  <2>1. g = Pai!Exp(h, x, n)
    BY DlnExp, Zenon
  <2> QED BY <1>6, <1>7, <1>11, <2>1, PaiExpIs
<1> HIDE DEF g
<1>17. Unit(g, n)
  <2> HIDE DEF hx
  <2> QED BY <1>6, <1>15, <1>16, UnitEqm
<1>18. Eqm(Pw(g, k), 1, n)
  <2>1. Eqm(Pw(g, k), Pw(hx, k), n) /\ Pw(g, k) \in Int /\ Pw(hx, k) \in Int
    <3> HIDE DEF hx
    <3> QED BY <1>6, <1>15, <1>16, PwEqm, PwDef
  <2>2. Pw(hx, k) = Pw(Pw(h, k), x)
    <3>1. Pw(Pw(h, x), k) = Pw(h, x * k)
      BY <1>6, <1>7, <1>11, PwTimes, Zenon
    <3>2. Pw(Pw(h, k), x) = Pw(h, k * x)
      BY <1>6, <1>7, <1>11, PwTimes, Zenon
    <3>3. x * k = k * x
      BY <1>6, <1>7
    <3> QED BY <3>1, <3>2, <3>3, Zenon
  <2>3. Eqm(Pw(Pw(h, k), x), Pw(1, x), n) /\ Pw(1, x) = 1
    BY <1>6, <1>7, <1>14, PwEqm, PwOfOne
  <2>4. Eqm(Pw(hx, k), 1, n) /\ 1 \in Int
    BY <2>2, <2>3
  <2> QED BY <1>6, <2>1, <2>4, EqmTrans, Zenon
\* And h1 = h2^beta.
<1>19. y \in Nat /\ Eqm(x * y, 1, k)
  <2>1. y = Ar!Inverse(x, k)
    BY DlnInverse, Zenon
  <2>2. Unit(x, k)
    BY <1>4, <1>6, <1>7, <2>1, NoInverse
  <2>3. Ar!Inverse(x, k) \in 0 .. k - 1 /\ Eqm(x * Ar!Inverse(x, k), 1, k)
    BY <1>6, <1>7, <2>2, InverseOf
  <2> HIDE DEF y
  <2> QED BY <1>6, <2>1, <2>3
<1> HIDE DEF y
<1>20. Eqm(h, Pw(g, y), n)
  <2>1. Eqm(Pw(g, y), Pw(hx, y), n) /\ Pw(g, y) \in Int /\ Pw(hx, y) \in Int
    <3> HIDE DEF hx
    <3> QED BY <1>6, <1>15, <1>16, <1>19, PwEqm, PwDef
  <2>2. Pw(hx, y) = Pw(h, x * y) /\ x * y \in Nat
    BY <1>7, <1>11, <1>19, PwTimes
  <2>3. Eqm(Pw(h, x * y), Pw(h, 1), n) /\ Pw(h, 1) = h
    BY <1>6, <1>11, <1>14, <1>19, <2>2, PwOrder, PwOne
  <2>4. Eqm(Pw(hx, y), h, n)
    BY <2>2, <2>3
  <2>5. Eqm(Pw(g, y), h, n)
    BY <1>6, <1>11, <2>1, <2>4, EqmTrans, Zenon
  <2> QED BY <1>6, <1>11, <2>1, <2>5, EqmSym
<1> HIDE DEF hx
<1> DEFINE good(pf) == \A i \in 1 .. Dln!Iterations : pf.t[i] > 1 /\ pf.alpha[i] > 1
<1>21. p * q > 0 /\ p * q < n /\ Eqm(Pw(h, p * q), 1, n) /\ Eqm(Pw(g, p * q), 1, n)
  BY <1>6, <1>14, <1>18 DEF k
<1>22. o.ok1 <=> h # 1 /\ g # 1 /\ h # g /\ good(o.pf1)
  <2>1. Eqm(g, Pw(h, x), n)
    BY <1>16 DEF hx
  <2> DEFINE pf == Dln!NewProof(h, g, x, p, q, n, a, salt)
  <2>2. Dln!VerifyDln(h, g, n, pf, salt) <=> h # 1 /\ g # 1 /\ h # g /\ good(pf)
    BY <1>1, <1>5, <1>6, <1>7, <1>8, <1>11, <1>12, <1>16, <1>17, <1>21, <2>1, DlnProofIs
  <2> QED BY <1>2, <1>3, <2>2
<1>23. o.ok2 <=> g # 1 /\ h # 1 /\ g # h /\ good(o.pf2)
  <2> DEFINE pf == Dln!NewProof(g, h, y, p, q, n, a, salt)
  <2>2. Dln!VerifyDln(g, h, n, pf, salt) <=> g # 1 /\ h # 1 /\ g # h /\ good(pf)
    BY <1>1, <1>5, <1>6, <1>19, <1>8, <1>11, <1>12, <1>16, <1>17, <1>20, <1>21, DlnProofIs
  <2> QED BY <1>2, <1>3, <2>2
<1>24. o.ok1 \in BOOLEAN /\ o.ok2 \in BOOLEAN
  BY <1>3 DEF Dln!VerifyDln
<1> HIDE DEF good
<1>25. o.ok1 = (o.pp.H1i # 1 /\ o.pp.H2i # 1 /\ o.pp.H1i # o.pp.H2i /\ good(o.pf1))
  BY <1>2, <1>3, <1>22, <1>24, Zenon
<1>26. o.ok2 = (o.pp.H1i # 1 /\ o.pp.H2i # 1 /\ o.pp.H1i # o.pp.H2i /\ good(o.pf2))
  BY <1>2, <1>3, <1>23, <1>24, Zenon
<1> QED BY <1>25, <1>26 DEF DlnGood, good, o

-----------------------------------------------------------------------------
(* Points of the group of order QMta.                                      *)

\* The point with the logarithm v, nil for infinity.
Sq(v) == IF v % QMta = 0 THEN -1 ELSE v % QMta

LEMMA SqIs ==
    ASSUME NEW v \in Int
    PROVE  /\ Sq(v) \in Int /\ v % QMta \in 0 .. QMta - 1 /\ Eqm(v % QMta, v, QMta)
           /\ v % QMta = 0 => Sq(v) = -1
           /\ v % QMta # 0 => Sq(v) = v % QMta /\ Sq(v) \in 1 .. QMta - 1
<1>1. QMta \in Nat /\ QMta > 1 /\ QMta > 0
  BY QMtaAssumption DEF IsPrime
<1> DEFINE r == v % QMta
<1>2. r \in 0 .. QMta - 1 /\ r \in Int
  BY <1>1
<1>3. r % QMta = v % QMta
  <2>1. \A z \in 0 .. QMta - 1 : z % QMta = z
    BY <1>1
  <2> QED BY <1>2, <2>1
<1> HIDE DEF r
<1>4. Eqm(r, v, QMta)
  BY <1>1, <1>2, <1>3, EqmMod
<1>5. Sq(v) = IF r = 0 THEN -1 ELSE r
  BY DEF Sq, r
<1>6. Sq(v) \in Int /\ (r = 0 => Sq(v) = -1) /\ (r # 0 => Sq(v) = r /\ Sq(v) \in 1 .. QMta - 1)
  BY <1>1, <1>2, <1>5
<1> QED BY <1>2, <1>4, <1>6 DEF r

LEMMA SqEqm == ASSUME NEW v \in Int, NEW w \in Int, Eqm(v, w, QMta) PROVE Sq(v) = Sq(w)
<1>1. QMta \in Nat /\ QMta > 0
  BY QMtaAssumption DEF IsPrime
<1>2. v % QMta = w % QMta
  BY <1>1, EqmMod
<1> QED BY <1>2 DEF Sq

LEMMA SmlNew == ASSUME NEW v \in Int PROVE Sml!NewECPoint(v % QMta) = Sq(v)
<1>1. QMta \in Nat /\ QMta > 1
  BY QMtaAssumption DEF IsPrime
<1>2. Sml!Point = 1 .. QMta - 1
  BY <1>1 DEF Sml!Point, Sml!Order
<1> DEFINE r == v % QMta
<1>3. r \in 0 .. QMta - 1
  BY <1>1
<1> HIDE DEF r
<1>4. Sml!NewECPoint(r) = IF r = 0 THEN -1 ELSE r
  BY <1>1, <1>2, <1>3 DEF Sml!NewECPoint, Sml!Nil
<1> QED BY <1>4 DEF Sq, r

LEMMA SmlMult ==
    ASSUME NEW p \in 1 .. QMta - 1, NEW k \in Int
    PROVE  /\ k >= 0 => Sml!ScalarMult(p, k) = Sq(p * k)
           /\ k < 0 => Sml!ScalarMult(p, k) = Sq(p * (-k))
<1>1. QMta \in Nat /\ QMta > 1 /\ QMta > 0 /\ QMta \in Int /\ p \in Int /\ ~(p < 0)
  BY QMtaAssumption DEF IsPrime
<1> DEFINE m == IF k < 0 THEN -k ELSE k
           r == m % QMta
           a == p * r
           b == p * m
<1>2. m \in Nat /\ m \in Int
  OBVIOUS
<1>3. r \in Int /\ Eqm(r, m, QMta)
  <2> HIDE DEF m
  <2>1. r \in 0 .. QMta - 1
    BY <1>1, <1>2
  <2> QED BY <1>1, <1>2, <2>1, SqIs
<1>4. Sml!Order = QMta
  BY <1>1 DEF Sml!Order
<1>5. Sml!ScalarMult(p, k) = Sml!NewECPoint(a % QMta)
  BY <1>1, <1>4 DEF Sml!ScalarMult
<1> HIDE DEF m, r
<1>6. a \in Int /\ b \in Int
  BY <1>1, <1>2, <1>3
<1>7. Eqm(a, b, QMta)
  <2>1. Eqm(p, p, QMta)
    BY <1>1, EqmRefl
  <2> QED BY <1>1, <1>2, <1>3, <2>1, EqmTimes
<1> HIDE DEF a, b
<1>8. Sml!ScalarMult(p, k) = Sq(b)
  BY <1>5, <1>6, <1>7, SmlNew, SqEqm
<1>9. (k >= 0 => b = p * k) /\ (k < 0 => b = p * (-k))
  BY DEF b, m
<1> QED BY <1>8, <1>9

LEMMA SmlAdd ==
    ASSUME NEW a \in Int, NEW b \in Int
    PROVE  Sml!Add(Sq(a), Sq(b)) = IF a % QMta = 0 \/ b % QMta = 0 THEN -2 ELSE Sq(a + b)
<1>0. QMta \in Nat /\ QMta > 1 /\ QMta \in Int
  BY QMtaAssumption DEF IsPrime
<1>1. CASE a % QMta = 0 \/ b % QMta = 0
  <2>1. Sq(a) = -1 \/ Sq(b) = -1
    BY <1>1 DEF Sq
  <2> QED BY <1>1, <2>1 DEF Sml!Add, Sml!Panic
<1>2. CASE a % QMta # 0 /\ b % QMta # 0
  <2> DEFINE x == Sq(a)
             y == Sq(b)
  <2>1. x \in 1 .. QMta - 1 /\ y \in 1 .. QMta - 1 /\ Eqm(x, a, QMta) /\ Eqm(y, b, QMta)
    BY <1>2, SqIs
  <2>2. Sml!Order = QMta
    BY <1>0 DEF Sml!Order
  <2> HIDE DEF x, y
  <2>3. x \in Int /\ y \in Int /\ ~(x < 0) /\ ~(y < 0)
    BY <1>0, <2>1
  <2>4. Sml!Add(x, y) = Sml!NewECPoint((x + y) % QMta)
    BY <2>2, <2>3 DEF Sml!Add
  <2>5. x + y \in Int /\ a + b \in Int /\ Eqm(x + y, a + b, QMta)
    BY <1>0, <2>1, <2>3, EqmPlus
  <2>6. Sml!NewECPoint((x + y) % QMta) = Sq(x + y)
    BY <2>5, SmlNew
  <2>7. Sml!Add(x, y) = Sq(a + b)
    BY <2>4, <2>5, <2>6, SqEqm
  <2> QED BY <1>2, <2>7 DEF x, y
<1> QED BY <1>1, <1>2

LEMMA SqZero ==
    ASSUME NEW a \in Int, NEW b \in Int, a % QMta # 0 PROVE (a * b) % QMta = 0 <=> b % QMta = 0
<1>0. QMta \in Nat /\ QMta > 1 /\ QMta > 0 /\ QMta \in Int /\ IsPrime(QMta) /\ 0 \in Int
  BY QMtaAssumption DEF IsPrime
<1> DEFINE c == a * b
<1>1. 0 % QMta = 0 /\ c \in Int /\ a * 0 = 0
  BY <1>0
<1>2. ASSUME c % QMta = 0 PROVE b % QMta = 0
  <2> HIDE DEF c
  <2>1. Eqm(c, 0, QMta)
    BY <1>0, <1>1, <1>2, EqmMod
  <2>2. Unit(a, QMta)
    BY <1>0, PrimeUnit
  <2>3. Eqm(a * b, a * 0, QMta)
    BY <1>1, <2>1 DEF c
  <2>4. Eqm(b, 0, QMta)
    BY <1>0, <2>2, <2>3, UnitCancel, Zenon
  <2> QED BY <1>0, <1>1, <2>4, EqmMod
<1>3. ASSUME b % QMta = 0 PROVE c % QMta = 0
  <2>1. Eqm(b, 0, QMta) /\ Eqm(a, a, QMta)
    BY <1>0, <1>1, <1>3, EqmMod, EqmRefl
  <2>2. Eqm(a * b, a * 0, QMta)
    BY <1>0, <2>1, EqmTimes, Zenon
  <2>3. Eqm(c, 0, QMta)
    BY <1>1, <2>2
  <2> HIDE DEF c
  <2> QED BY <1>0, <1>1, <2>3, EqmMod
<1> QED BY <1>2, <1>3

\* The equation about points of the verification: the commitment G*alpha against
\* G*s1 - Y*e, computed with the absolute value of q - e.
LEMMA PDLPoint ==
    ASSUME NEW G \in 1 .. QMta - 1, NEW x \in 1 .. QMta - 1, NEW e \in Nat, NEW a \in Nat
    PROVE  LET Y == Sml!ScalarMult(G, x)
               u == Sml!ScalarMult(G, a)
               s == e * x + a
               t == Sml!Add(Sml!ScalarMult(G, s), Sml!ScalarMult(Y, QMta - e))
           IN  /\ Y \in Int /\ u \in Int
               /\ Sml!Equals(u, t) <=> 0 < e /\ e < QMta /\ a % QMta # 0 /\ s % QMta # 0
<1> DEFINE q == QMta
           Y == Sml!ScalarMult(G, x)
           u == Sml!ScalarMult(G, a)
           ex == e * x
           s == ex + a
           d == IF q - e < 0 THEN -(q - e) ELSE q - e
           Gx == G * x
           Gs == G * s
           Ga == G * a
           Yd == Y * d
           t == Sml!Add(Sml!ScalarMult(G, s), Sml!ScalarMult(Y, q - e))
<1>0. q \in Nat /\ q > 2 /\ q > 0 /\ q \in Int
  <2>1. QMta \in Nat /\ QMta > 1 /\ QMta # 2
    BY QMtaAssumption DEF IsPrime
  <2> QED BY <2>1
<1>1. G \in Int /\ x \in Int /\ G % q # 0 /\ x % q # 0 /\ 2 % q # 0
  <2>1. \A z \in 1 .. q - 1 : z % q = z /\ z # 0 /\ z \in Int
    BY <1>0
  <2>2. 2 \in 1 .. q - 1
    BY <1>0
  <2> QED BY <2>1, <2>2
<1>2. ex \in Nat /\ s \in Nat /\ s \in Int /\ a \in Int /\ e \in Int /\ d \in Nat /\ d \in Int /\ q - e \in Int
  <2>1. ex \in Nat
    BY <1>1
  <2> HIDE DEF ex
  <2> QED BY <1>0, <2>1
<1>3. Gx \in Int /\ Gx % q # 0
  <2>1. Gx \in Int
    BY <1>1
  <2> QED BY <1>1, <2>1, SqZero
<1>4. Y = Sq(Gx) /\ Y \in 1 .. q - 1 /\ Y \in Int /\ Eqm(Y, Gx, q)
  <2>1. Y = Sq(Gx)
    BY <1>1, SmlMult
  <2> HIDE DEF Y, Gx
  <2>2. Y = Gx % q /\ Y \in 1 .. q - 1
    BY <1>3, <2>1, SqIs
  <2>3. Eqm(Y, Gx, q)
    BY <1>3, <2>2, SqIs
  <2> QED BY <1>0, <2>1, <2>2, <2>3
<1>5. u = Sq(Ga) /\ Ga \in Int /\ u \in Int
  <2>1. u = Sq(Ga) /\ Ga \in Int
    BY <1>1, <1>2, SmlMult
  <2> HIDE DEF u, Ga
  <2> QED BY <2>1, SqIs
<1> HIDE DEF Y
<1>6. Sml!ScalarMult(G, s) = Sq(Gs) /\ Gs \in Int
  <2> HIDE DEF s
  <2> QED BY <1>1, <1>2, SmlMult
<1>7. Sml!ScalarMult(Y, q - e) = Sq(Yd) /\ Yd \in Int
  BY <1>2, <1>4, SmlMult
<1>8. Y % q # 0
  <2>1. \A z \in 1 .. q - 1 : z % q = z /\ z # 0
    BY <1>0
  <2> QED BY <1>4, <2>1
<1>9. Ga % q = 0 <=> a % q = 0
  BY <1>1, <1>2, SqZero
<1>10. Gs % q = 0 <=> s % q = 0
  <2> HIDE DEF s
  <2> QED BY <1>1, <1>2, SqZero
<1>11. Yd % q = 0 <=> d % q = 0
  <2> HIDE DEF d
  <2> QED BY <1>2, <1>4, <1>8, SqZero
<1>12. d % q = 0 <=> e % q = 0
  <2>1. Eqm(d, 0, q) <=> Eqm(e, 0, q)
    <3>1. ASSUME NEW k \in Int, d = 0 + q * k PROVE Eqm(e, 0, q)
      <4>1. e = 0 + q * (1 - k) \/ e = 0 + q * (1 + k)
        BY <1>0, <1>2, <3>1
      <4> QED BY <4>1 DEF Eqm
    <3>2. ASSUME NEW k \in Int, e = 0 + q * k PROVE Eqm(d, 0, q)
      <4>1. d = 0 + q * (1 - k) \/ d = 0 + q * (k - 1)
        BY <1>0, <1>2, <3>2
      <4> QED BY <4>1 DEF Eqm
    <3> QED BY <3>1, <3>2 DEF Eqm
  <2>2. 0 % q = 0 /\ 0 \in Int
    BY <1>0
  <2>3. (Eqm(d, 0, q) <=> d % q = 0 % q) /\ (Eqm(e, 0, q) <=> e % q = 0 % q)
    <3> HIDE DEF d
    <3> QED BY <1>0, <1>2, <2>2, EqmMod
  <2> QED BY <2>1, <2>2, <2>3
<1>13. t = IF Gs % q = 0 \/ Yd % q = 0 THEN -2 ELSE Sq(Gs + Yd)
  <2> HIDE DEF Gs, Yd
  <2> QED BY <1>6, <1>7, SmlAdd
<1>14. PICK k \in Int : Y = Gx + q * k
  BY <1>4 DEF Eqm
<1>15. e <= q => Eqm(Gs + Yd, Ga, q)
  <2> SUFFICES ASSUME e <= q PROVE Eqm(Gs + Yd, Ga, q)
    OBVIOUS
  <2>1. Yd = (G * x + q * k) * (q - e)
    BY <1>0, <1>2, <1>14
  <2> DEFINE w == G * x + q * k - k * e
  <2>2. G * (e * x + a) + (G * x + q * k) * (q - e) = G * a + q * w
    <3>1. G \in Int /\ x \in Int /\ e \in Int /\ a \in Int /\ q \in Int /\ k \in Int
      BY <1>0, <1>1, <1>2, <1>14
    <3> HIDE DEF q
    <3> QED BY <3>1
  <2>3. w \in Int
    <3>1. G * x \in Int /\ q * k \in Int /\ k * e \in Int
      BY <1>0, <1>1, <1>2
    <3> QED BY <3>1
  <2>4. Gs + Yd = Ga + q * w
    BY <2>1, <2>2, Zenon
  <2> HIDE DEF w, Gs, Yd, Ga
  <2> QED BY <2>3, <2>4 DEF Eqm
<1>16. e > q /\ e % q # 0 => ~Eqm(Gs + Yd, Ga, q)
  <2> SUFFICES ASSUME e > q, e % q # 0, Eqm(Gs + Yd, Ga, q) PROVE FALSE
    OBVIOUS
  <2>0. d = e - q
    BY <1>0, <1>2
  <2>1. Yd = (G * x + q * k) * (e - q)
    BY <1>14, <2>0
  <2> DEFINE w == k * e - G * x - q * k
             g2 == 2 * (G * x)
             v == g2 * e
  <2>2. G * (e * x + a) + (G * x + q * k) * (e - q) = G * a + (2 * (G * x)) * e + q * w
    <3>1. G \in Int /\ x \in Int /\ e \in Int /\ a \in Int /\ q \in Int /\ k \in Int
      BY <1>0, <1>1, <1>2, <1>14
    <3> HIDE DEF q
    <3> QED BY <3>1
  <2>3. w \in Int /\ g2 \in Int
    <3>1. G * x \in Int /\ q * k \in Int /\ k * e \in Int
      BY <1>0, <1>1, <1>2
    <3> QED BY <3>1
  <2>4. Gs + Yd = Ga + v + q * w
    BY <2>1, <2>2, Zenon
  <2>5. g2 % q # 0
    BY <1>1, <1>3, SqZero
  <2> HIDE DEF g2
  <2>6. v \in Int /\ v % q # 0
    BY <1>2, <2>3, <2>5, SqZero
  <2> HIDE DEF w, Gs, Yd, Ga, v
  <2>7. PICK l \in Int : Gs + Yd = Ga + q * l
    BY DEF Eqm
  <2>8. v = 0 + q * (l - w) /\ l - w \in Int
    <3>1. Ga + v + q * w = Ga + q * l
      BY <2>4, <2>7
    <3>2. q * w \in Int /\ q * l \in Int /\ q * (l - w) = q * l - q * w
      BY <1>0, <2>3
    <3> HIDE DEF q
    <3> QED BY <1>0, <1>5, <2>3, <2>6, <3>1, <3>2
  <2>9. Eqm(v, 0, q)
    BY <2>8 DEF Eqm
  <2>10. v % q = 0 % q /\ 0 % q = 0
    BY <1>0, <2>6, <2>9, EqmMod
  <2> QED BY <2>6, <2>10
<1>17. Sml!Equals(u, t) <=> 0 < e /\ e < q /\ a % q # 0 /\ s % q # 0
  <2> HIDE DEF u, t, s, Gs, Yd, Ga, d, Gx
  <2>1. CASE a % q = 0
    <3>1. u = -1
      BY <1>5, <1>9, <2>1, SqIs
    <3> QED BY <2>1, <3>1 DEF Sml!Equals
  <2>2. CASE s % q = 0 \/ e % q = 0
    <3>1. t = -2
      BY <1>10, <1>11, <1>12, <1>13, <2>2
    <3>2. e % q = 0 => ~(0 < e /\ e < q)
      <4>1. \A z \in 1 .. q - 1 : z % q # 0
        BY <1>0
      <4> QED BY <1>0, <1>2, <4>1
    <3> QED BY <2>2, <3>1, <3>2 DEF Sml!Equals
  <2>3. CASE a % q # 0 /\ s % q # 0 /\ e % q # 0
    <3>1. t = Sq(Gs + Yd) /\ Gs + Yd \in Int
      BY <1>6, <1>7, <1>10, <1>11, <1>12, <1>13, <2>3
    <3>2. u = Ga % q /\ u \in 1 .. q - 1
      BY <1>5, <1>9, <2>3, SqIs
    <3>3. e # 0 /\ e # q
      BY <1>0, <2>3
    <3>4. CASE e <= q
      <4>1. t = u
        BY <1>5, <1>15, <3>1, <3>4, SqEqm
      <4>2. Sml!Equals(u, t)
        BY <1>0, <3>2, <4>1 DEF Sml!Equals
      <4> QED BY <1>0, <1>2, <2>3, <3>3, <3>4, <4>2
    <3>5. CASE e > q
      <4>1. (Gs + Yd) % q # Ga % q
        BY <1>0, <1>5, <1>16, <2>3, <3>1, <3>5, EqmMod
      <4>2. t # u
        BY <1>0, <3>1, <3>2, <4>1, SqIs
      <4> QED BY <1>0, <1>2, <3>5, <4>2 DEF Sml!Equals
    <3> QED BY <1>0, <1>2, <3>4, <3>5
  <2> QED BY <2>1, <2>2, <2>3
<1> QED BY <1>4, <1>5, <1>17 DEF Y

\* commitmentUnknownOrder, as the operator the lemmas are about.
LEMMA SmlCommit ==
    ASSUME NEW g, NEW h, NEW n, NEW x, NEW r
    PROVE  Sml!commitmentUnknownOrder(g, h, n, x, r) = Pai!MulMod(Pai!Exp(g, x, n), Pai!Exp(h, r, n), n)
BY SmlMul, SmlExp DEF Sml!commitmentUnknownOrder

\* A commitment divided by a power.
LEMMA SmlDivided ==
    ASSUME NEW v \in Int, NEW y \in Int, NEW k \in Nat, NEW n \in Nat, n > 0, NEW u \in 0 .. n - 1,
           Unit(y, n), Eqm(v, Pw(y, k) * u, n)
    PROVE  Sml!commitmentUnknownOrder(v, y, n, 1, -k) = u
<1> DEFINE x == Pai!Exp(v, 1, n)
           r == Pw(y, k) * u
<1>1. x \in Int /\ Eqm(x, Pw(v, 1), n) /\ Pw(v, 1) = v
  BY PaiExpIs, PwOne
<1>2. u \in Int /\ n \in Int
  OBVIOUS
<1>3. r \in Int
  <2>1. Pw(y, k) \in Int
    BY PwDef
  <2> QED BY <1>2, <2>1
<1> HIDE DEF x, r
<1>4. Eqm(x, r, n)
  BY <1>1, <1>2, <1>3, EqmTrans DEF r
<1>5. Pai!MulMod(x, Pai!Exp(y, -k, n), n) = u
  BY <1>1, <1>4, DividedIs DEF r
<1> QED BY <1>5, SmlCommit DEF x

\* The equation about ciphertexts of the verification.
PDLCipherOk(N, c, x, r, b, e, a) ==
    LET u == Sml!commitmentUnknownOrder(N + 1, b, N * N, a, N)
        s == Sml!commitmentUnknownOrder(r, b, N, e, 1)
        v == Sml!commitmentUnknownOrder(N + 1, s, N * N, e * x + a, N)
    IN  /\ u \in Nat /\ Unit(u, N) /\ u # 0
        /\ s \in Nat /\ Unit(s, N) /\ s # 0
        /\ Sml!commitmentUnknownOrder(v, c, N * N, 1, -e) = u

LEMMA PDLCipher ==
    ASSUME NEW N \in Nat, N > 1, NEW c \in Int, NEW x \in Nat, NEW r \in Int, NEW b \in Int,
           NEW e \in Nat, NEW a \in Nat, Unit(r, N), Unit(b, N),
           Eqm(c, Pw(N + 1, x) * Pw(r, N), N * N)
    PROVE  PDLCipherOk(N, c, x, r, b, e, a)
<1> DEFINE M == N * N
           g == N + 1
           u == Sml!commitmentUnknownOrder(g, b, M, a, N)
           s == Sml!commitmentUnknownOrder(r, b, N, e, 1)
           ex == e * x
           k == ex + a
           v == Sml!commitmentUnknownOrder(g, s, M, k, N)
<1>1. M \in Nat /\ M > 0 /\ M > 1 /\ M \in Int /\ N \in Int /\ N > 0 /\ 1 \in Nat
  BY SquarePos
<1>2. ex \in Nat /\ k \in Nat
  <2>1. ex \in Nat
    OBVIOUS
  <2> HIDE DEF ex
  <2> QED BY <2>1
<1>3. g \in Int /\ Unit(g, M)
  BY GammaUnit
<1>4. u \in 0 .. M - 1 /\ u \in Int /\ u # 0 /\ Eqm(u, Pw(g, a) * Pw(b, N), M)
  BY MaskCipher, SmlCommit
<1>5. Unit(u, N)
  <2>1. Cipher(u, a, N)
    <3> HIDE DEF u
    <3> QED BY <1>4 DEF Cipher
  <2> QED BY <1>4, <2>1, CipherUnit
<1>6. s \in 0 .. N - 1 /\ s \in Int /\ Eqm(s, Pw(r, e) * Pw(b, 1), N) /\ Unit(s, N)
  BY <1>1, ExpProd, SmlCommit
<1>7. Eqm(s, Pw(r, e) * b, N)
  BY <1>6, PwOne
<1> HIDE DEF u, s, ex
<1>8. s # 0
  BY <1>6, UnitNonZero
<1>9. v \in Int /\ Eqm(v, Pw(g, k) * Pw(s, N), M)
  <2> HIDE DEF M, g, k
  <2>1. v = Pai!MulMod(Pai!Exp(g, k, M), Pai!Exp(s, N, M), M)
    BY SmlCommit
  <2> HIDE DEF v
  <2> QED BY <1>1, <1>2, <1>3, <1>6, <2>1, ExpProd
<1> HIDE DEF v
<1>10. Eqm(Pw(g, k) * Pw(s, N), Pw(c, e) * u, M)
  BY <1>3, <1>4, <1>6, <1>7, CipherResponse DEF ex
<1>11. Unit(c, M)
  <2>1. Cipher(c, x, N)
    BY DEF Cipher
  <2> QED BY <2>1, CipherUnit
<1> DEFINE p1 == Pw(g, k) * Pw(s, N)
           p2 == Pw(c, e) * u
<1>12. p1 \in Int /\ p2 \in Int
  <2>1. Pw(g, k) \in Int /\ Pw(s, N) \in Int /\ Pw(c, e) \in Int
    BY <1>2, <1>3, <1>6, PwDef
  <2> QED BY <1>4, <2>1
<1>13. Eqm(v, p2, M)
  <2>1. Eqm(v, p1, M) /\ Eqm(p1, p2, M)
    BY <1>9, <1>10
  <2> HIDE DEF p1, p2, M
  <2> QED BY <1>1, <1>9, <1>12, <2>1, EqmTrans
<1> HIDE DEF M, g, k
<1>14. Sml!commitmentUnknownOrder(v, c, M, 1, -e) = u
  BY <1>1, <1>4, <1>9, <1>11, <1>13, SmlDivided
<1> QED BY <1>1, <1>4, <1>5, <1>6, <1>8, <1>14 DEF PDLCipherOk, M, g, k, u, s, v, ex

\* The equation about commitments of the verification.
PDLCommitOk(n, h1, h2, x, r, e, a, b) ==
    LET z == Sml!commitmentUnknownOrder(h1, h2, n, x, r)
        u == Sml!commitmentUnknownOrder(h1, h2, n, a, b)
        v == Sml!commitmentUnknownOrder(h1, h2, n, e * x + a, e * r + b)
    IN  z \in Int /\ u \in Int /\ Sml!commitmentUnknownOrder(v, z, n, 1, -e) = u

LEMMA PDLCommit ==
    ASSUME NEW n \in Nat, n > 1, NEW h1 \in Int, NEW h2 \in Int, Unit(h1, n), Unit(h2, n),
           NEW x \in Nat, NEW r \in Nat, NEW e \in Nat, NEW a \in Nat, NEW b \in Nat
    PROVE  PDLCommitOk(n, h1, h2, x, r, e, a, b)
<1> DEFINE z == Sml!commitmentUnknownOrder(h1, h2, n, x, r)
           u == Sml!commitmentUnknownOrder(h1, h2, n, a, b)
           k == e * x + a
           l == e * r + b
           v == Sml!commitmentUnknownOrder(h1, h2, n, k, l)
<1>1. n > 0 /\ n \in Int
  OBVIOUS
<1>2. k \in Nat /\ l \in Nat
  <2>1. e * x \in Nat /\ e * r \in Nat
    OBVIOUS
  <2> QED BY <2>1
<1>3. z \in Int /\ Unit(z, n) /\ Eqm(z, Pw(h1, x) * Pw(h2, r), n)
  BY <1>1, ExpProd, SmlCommit
<1>4. u \in 0 .. n - 1 /\ u \in Int /\ Eqm(u, Pw(h1, a) * Pw(h2, b), n)
  BY <1>1, ExpProd, SmlCommit
<1> DEFINE p1 == Pw(h1, k) * Pw(h2, l)
           p2 == Pw(z, e) * u
<1>5. v \in Int /\ Eqm(v, p1, n)
  <2> HIDE DEF k, l
  <2> QED BY <1>1, <1>2, ExpProd, SmlCommit
<1> HIDE DEF z, u, v
<1>6. Eqm(p1, p2, n)
  BY <1>1, <1>3, <1>4, CommitResponse
<1>7. p1 \in Int /\ p2 \in Int
  <2>1. Pw(h1, k) \in Int /\ Pw(h2, l) \in Int /\ Pw(z, e) \in Int
    BY <1>2, <1>3, PwDef
  <2> QED BY <1>4, <2>1
<1>8. Eqm(v, p2, n)
  <2> HIDE DEF p1, p2
  <2> QED BY <1>1, <1>5, <1>6, <1>7, EqmTrans
<1>9. Sml!commitmentUnknownOrder(v, z, n, 1, -e) = u
  BY <1>1, <1>3, <1>4, <1>5, <1>8, SmlDivided
<1> QED BY <1>3, <1>4, <1>9 DEF PDLCommitOk, z, u, v

PDLGood(j, o) ==
    LET e == (o.pf.s1 - j.rnd.alpha) \div j.x
    IN  o.verdict = "accept" <=>
           /\ 0 < e /\ e < QMta
           /\ j.rnd.alpha % QMta # 0 /\ o.pf.s1 % QMta # 0
           /\ Pai!GCD(j.rnd.beta, j.P * j.R) = 1

\* The proof about a Paillier ciphertext and a point.
LEMMA PDLJob == ASSUME NEW j \in PDLJobs PROVE PDLGood(j, PDLOut(j))
<1> DEFINE N == j.P * j.R
           NT == j.NTilde
           h1 == j.h1
           h2 == j.h2
           G == j.G
           x == j.x
           r == j.r
           a == j.rnd.alpha
           b == j.rnd.beta
           gm == j.rnd.gamma
           rho == j.rnd.rho
           Y == Sml!ScalarMult(G, x)
           c == Pai!EncryptWithChosenRandomness(N, x, r)
           z == Sml!commitmentUnknownOrder(h1, h2, NT, x, rho)
           u1 == Sml!ScalarMult(G, a)
           u2 == Sml!commitmentUnknownOrder(N + 1, b, N * N, a, N)
           u3 == Sml!commitmentUnknownOrder(h1, h2, NT, a, gm)
           e == Sml!SHA512_256i(j.salt, <<G, Y, c, z, u1, u2, u3>>)
           s1 == e * x + a
           s2 == Sml!commitmentUnknownOrder(r, b, N, e, 1)
           s3 == e * rho + gm
           st == PDLStatement(j)
           pf == [z |-> z, u1 |-> u1, u2 |-> u2, u3 |-> u3, s1 |-> s1, s2 |-> s2, s3 |-> s3]
           t1 == Sml!Add(Sml!ScalarMult(G, s1), Sml!ScalarMult(Y, QMta - e))
           t2 == Sml!commitmentUnknownOrder(
                     Sml!commitmentUnknownOrder(N + 1, s2, N * N, s1, N), c, N * N, 1, -e)
           t3 == Sml!commitmentUnknownOrder(
                     Sml!commitmentUnknownOrder(h1, h2, NT, s1, s3), z, NT, 1, -e)
           o == PDLOut(j)
<1>1. st = [N |-> N, NTilde |-> NT, h1 |-> h1, h2 |-> h2, G |-> G, Y |-> Y, c |-> c]
  BY DEF PDLStatement
<1> HIDE DEF st
<1>2. Sml!NewPDLwSlackProof(st, x, r, j.rnd, j.salt) = pf
  BY <1>1 DEF Sml!NewPDLwSlackProof, Sml!PDLHash, Sml!NSquare, Sml!Gamma
<1>3. Sml!PDLHash(j.salt, st, pf) = e
  BY <1>1 DEF Sml!PDLHash
<1> HIDE DEF e
<1>4. Sml!VerifyPDL(st, pf, j.salt) =
        IF t1 = -2 THEN "panic"
        ELSE IF /\ t1 # -1
                /\ s2 # 0 /\ Sml!GCD(s2, N) = 1
                /\ u2 # 0 /\ Sml!GCD(u2, N) = 1
                /\ Sml!Equals(u1, t1) /\ u2 = t2 /\ u3 = t3
             THEN "accept" ELSE "reject"
  BY <1>1, <1>3 DEF Sml!VerifyPDL, Sml!NSquare, Sml!Gamma, Sml!Panic, Sml!Nil
<1>5. o.pf = pf /\ o.verdict = IF u1 < 0 THEN "nil point" ELSE Sml!VerifyPDL(st, pf, j.salt)
  BY <1>2 DEF PDLOut, st, Verdict
<1> HIDE DEF o
<1> DEFINE ex == e * x
<1>5a. o.pf.s1 = ex + a /\ ex + a = s1
  <2>1. pf.s1 = s1
    <3> HIDE DEF z, u1, u2, u3, s1, s2, s3
    <3> QED OBVIOUS
  <2>2. s1 = ex + a
    OBVIOUS
  <2> HIDE DEF pf, s1, ex
  <2> QED BY <1>5, <2>1, <2>2
<1> HIDE DEF pf
<1>6. /\ KeyOk(j.P, j.R) /\ NT \in Nat /\ NT > 1 /\ InGroup(NT, {h1, h2})
      /\ x \in 1 .. QMta - 1 /\ QMta <= N /\ G \in 1 .. QMta - 1 /\ InGroup(N, {r}) /\ j.salt \in Nat
      /\ j.rnd \in [alpha : Draw(Mt!q3), beta : 1 .. N - 1, gamma : Draw(Mt!q3 * NT), rho : Draw(QMta * NT)]
  BY PDLJobsAssumption DEF ParOk
<1>7. QMta \in Nat /\ QMta > 1 /\ N \in Nat /\ N > 1 /\ N \in Int /\ N > 0
  <2>1. QMta \in Nat /\ QMta > 1
    BY QMtaAssumption DEF IsPrime
  <2>2. N \in Nat /\ N > 1
    BY <1>6, KeyIs
  <2> HIDE DEF N
  <2> QED BY <2>1, <2>2
<1>8. a \in Nat /\ b \in Nat /\ b \in Int /\ gm \in Nat /\ rho \in Nat
  <2>1. \A n : Draw(n) \subseteq Nat
    BY DEF Draw, Pai!RandomPositiveInt
  <2>2. a \in Draw(Mt!q3) /\ b \in 1 .. N - 1 /\ gm \in Draw(Mt!q3 * NT) /\ rho \in Draw(QMta * NT)
    BY <1>6
  <2>3. b \in Nat
    <3> HIDE DEF N, b
    <3> QED BY <1>7, <2>2
  <2> QED BY <2>1, <2>2, <2>3
<1>9. x \in Nat /\ x \in Int /\ x > 0 /\ x \in 0 .. N - 1
  <2> HIDE DEF N
  <2> QED BY <1>6, <1>7
<1>10. r \in Int /\ r # 0 /\ Unit(r, N)
  <2> HIDE DEF N
  <2> QED BY <1>6, <1>7, GroupIs
<1>11. h1 \in Int /\ Unit(h1, NT) /\ h2 \in Int /\ Unit(h2, NT)
  BY <1>6, GroupIs
<1>12. c \in Int /\ Eqm(c, Pw(N + 1, x) * Pw(r, N), N * N)
  <2> HIDE DEF N
  <2> QED BY <1>7, <1>9, <1>10, EncryptIs
<1> HIDE DEF h1, h2, NT, r, b, gm, rho, a, x, G, c
<1>13. z \in Int /\ u3 \in Int
  <2>1. 0 \in Nat
    OBVIOUS
  <2>2. PDLCommitOk(NT, h1, h2, x, rho, 0, a, gm)
    BY <1>6, <1>8, <1>9, <1>11, <2>1, PDLCommit
  <2> QED BY <2>2 DEF PDLCommitOk
<1>14. u2 \in Int /\ u2 \in Nat
  <2> DEFINE M == N * N
             g == N + 1
  <2>1. M \in Nat /\ M > 0 /\ g \in Int
    BY <1>7, SquarePos
  <2>2. u2 = Pai!MulMod(Pai!Exp(g, a, M), Pai!Exp(b, N, M), M)
    BY SmlCommit
  <2> HIDE DEF M, g, N, u2
  <2>3. u2 \in 0 .. M - 1
    BY <1>7, <1>8, <2>1, <2>2, ExpProd
  <2> QED BY <2>1, <2>3
<1>15. Y \in Int /\ u1 \in Int
  <2>1. 0 \in Nat
    OBVIOUS
  <2> QED BY <1>6, <1>8, <2>1, PDLPoint
<1>16. e \in Nat
  <2>1. G \in Int
    BY <1>6, <1>7
  <2> HIDE DEF Y, z, u1, u2, u3
  <2>2. <<G, Y, c, z, u1, u2, u3>> \in Seq(Int)
    BY <1>12, <1>13, <1>14, <1>15, <2>1
  <2>3. e = Ha!SHA512_256i(j.salt, <<G, Y, c, z, u1, u2, u3>>)
    BY SmlHashInts DEF e
  <2> QED BY <1>6, <2>2, <2>3, HashIs
<1>17. Sml!Equals(u1, t1) <=> 0 < e /\ e < QMta /\ a % QMta # 0 /\ s1 % QMta # 0
  BY <1>6, <1>8, <1>16, PDLPoint
<1>18. u3 = t3
  <2>1. PDLCommitOk(NT, h1, h2, x, rho, e, a, gm)
    BY <1>6, <1>8, <1>9, <1>11, <1>16, PDLCommit
  <2> QED BY <2>1 DEF PDLCommitOk
<1>19. ASSUME Unit(b, N)
       PROVE  s2 # 0 /\ Sml!GCD(s2, N) = 1 /\ u2 # 0 /\ Sml!GCD(u2, N) = 1 /\ u2 = t2
  <2>1. /\ u2 \in Nat /\ Unit(u2, N) /\ u2 # 0
        /\ s2 \in Nat /\ Unit(s2, N) /\ s2 # 0
        /\ t2 = u2
    <3>1. PDLCipherOk(N, c, x, r, b, e, a)
      <4> HIDE DEF N
      <4> QED BY <1>7, <1>8, <1>9, <1>10, <1>12, <1>16, <1>19, PDLCipher
    <3> QED BY <3>1 DEF PDLCipherOk
  <2> HIDE DEF N, u2, s2, t2
  <2>2. Ar!GCD(u2, N) = 1 /\ Ar!GCD(s2, N) = 1
    BY <1>7, <2>1, GcdUnit
  <2> QED BY <2>1, <2>2, SmlGcd
<1>20. ASSUME Sml!GCD(s2, N) = 1 PROVE Unit(b, N)
  <2> HIDE DEF N
  <2> DEFINE v == Pw(r, e) * b
  <2>1. s2 = Pai!MulMod(Pai!Exp(r, e, N), Pai!Exp(b, 1, N), N)
    BY SmlCommit
  <2>2. s2 \in 0 .. N - 1 /\ s2 \in Int /\ Eqm(s2, Pw(r, e) * Pw(b, 1), N)
    BY <1>7, <1>8, <1>10, <1>16, <2>1, ExpProd
  <2>3. Eqm(s2, v, N) /\ v \in Int
    <3>1. Pw(b, 1) = b
      BY <1>8, PwOne
    <3>2. Pw(r, e) \in Int
      BY <1>10, <1>16, PwDef
    <3> QED BY <1>8, <2>2, <3>1, <3>2
  <2> HIDE DEF s2
  <2>4. Unit(s2, N)
    <3>1. Ar!GCD(s2, N) = 1 /\ s2 \in Nat
      BY <1>7, <1>20, <2>2, SmlGcd
    <3> QED BY <1>7, <3>1, GcdUnit
  <2> HIDE DEF v
  <2>5. Eqm(v, s2, N)
    BY <1>7, <2>2, <2>3, EqmSym
  <2>6. Unit(v, N)
    BY <1>7, <2>2, <2>3, <2>4, <2>5, UnitEqm
  <2>7. Pw(r, e) \in Int
    BY <1>10, <1>16, PwDef
  <2> QED BY <1>7, <1>8, <2>6, <2>7, UnitFactor DEF v
<1>21. Pai!GCD(b, N) = 1 <=> Unit(b, N)
  <2> HIDE DEF N
  <2> QED BY <1>7, <1>8, GcdUnit, PaiGcd
<1>22. Sml!Equals(u1, t1) => ~(u1 < 0) /\ t1 # -2 /\ t1 # -1
  BY <1>15 DEF Sml!Equals
<1>23. (o.pf.s1 - a) \div x = e
  <2>1. o.pf.s1 - a = e * x
    <3>1. ex \in Int
      BY <1>9, <1>16
    <3> HIDE DEF ex
    <3> QED BY <1>8, <1>5a, <3>1 DEF ex
  <2>2. (e * x) \div x = e
    BY <1>9, <1>16
  <2> QED BY <2>1, <2>2
<1> HIDE DEF u1, t1, u2, t2, u3, t3, s2, s1, N
<1>24. o.verdict = "accept" <=>
         /\ 0 < e /\ e < QMta /\ a % QMta # 0 /\ s1 % QMta # 0
         /\ Pai!GCD(b, N) = 1
  BY <1>4, <1>5, <1>17, <1>18, <1>19, <1>20, <1>21, <1>22
<1> QED BY <1>23, <1>24, <1>5a DEF PDLGood, a, b, x, N, o

\* The proofs about moduli (crypto/zkp/pdl_w_slack_proof.go, crypto/dlnp, the proof of
\* crypto/paillier): for every key, statement and randomness an honest PDL proof
\* passes exactly under the four conditions the property names, the two DLN proofs
\* of key generation pass unless a number of theirs is 0 or 1, and the proof of a
\* Paillier modulus always passes.
THEOREM ModulusProofsCompleteHolds == Spec => []ModulusProofsComplete
<1>1. ASSUME Inv PROVE ModulusProofsComplete
  <2>1. ASSUME Done("pdl") PROVE PDLGood(job, out)
    <3>1. job.kind = "pdl"
      BY <2>1 DEF Done
    <3>2. job \in PDLJobs /\ out = PDLOut(job)
      BY <1>1, <2>1, <3>1 DEF Inv, JobInv, PDLInv
    <3> QED BY <3>2, PDLJob
  <2>2. ASSUME Done("dln") PROVE DlnGood(job, out)
    <3>1. job.kind = "dln"
      BY <2>2 DEF Done
    <3>2. job \in DlnJobs /\ out = DlnOut(job) /\ DlnParams(job).Beta # Nil
      BY <1>1, <2>2, <3>1 DEF Inv, JobInv, DlnInv
    <3> QED BY <3>2, DlnJob
  <2>3. ASSUME Done("paiproof") PROVE out.ok
    <3>1. job.kind = "paiproof"
      BY <2>3 DEF Done
    <3>2. job \in PaiProofJobs
          /\ out = [ok |-> Pai!VerifyProof(job.P * job.R, job.xs,
                                           Pai!Proof(Pai!KeyPair(job.P, job.R), job.xs), job.prms)]
      BY <1>1, <2>3, <3>1 DEF Inv, JobInv, PaiProofInv
    <3>3. out.ok = Pai!VerifyProof(job.P * job.R, job.xs,
                                   Pai!Proof(Pai!KeyPair(job.P, job.R), job.xs), job.prms)
      BY <3>2
    <3> QED BY <3>2, <3>3, PaiProofJob
  <2> QED BY <2>1, <2>2, <2>3 DEF ModulusProofsComplete, PDLGood, DlnGood
<1> QED BY <1>1, Invariance, PTL

\* Both together: the verifiers of crypto/zkp, crypto/dlnp and crypto/paillier refuse
\* an honest proof only where a number of it is degenerate.
THEOREM ProofsCompleteHolds == Spec => []ProofsComplete
BY PointProofsCompleteHolds, ModulusProofsCompleteHolds, PTL DEF ProofsComplete
=============================================================================
