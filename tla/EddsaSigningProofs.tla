------------------------- MODULE EddsaSigningProofs -------------------------
(***************************************************************************)
(* Proofs about EddsaSigning, for every number of signers, group order,    *)
(* set of faulty parties, key and nonces.  The first part shows that       *)
(* modInt.Inverse (the extended Euclidean algorithm of ModArith) returns   *)
(* an inverse, which clearing the component of small order rests on.       *)
(***************************************************************************)
EXTENDS EddsaSigning, FeldmanVssProofs

-----------------------------------------------------------------------------
(* The extended Euclidean algorithm.                                       *)

Pairs == Nat \X Nat
Triple == Int \X Int \X Int

\* The pair of the recursive call, and one unfolding of the recursion.
Smaller(p) == <<p[2], p[1] % p[2]>>
GcdStep(p, r) ==
    IF p[2] = 0 THEN <<p[1], 1, 0>> ELSE <<r[1], r[3], r[2] - (p[1] \div p[2]) * r[3]>>

\* The functions that follow the recursion on the pairs whose second number is
\* below n.
Below(n) == {p \in Pairs : p[2] < n}
Solves(n) == {g \in [Below(n) -> Triple] : \A p \in Below(n) : g[p] = GcdStep(p, g[Smaller(p)])}

LEMMA SmallerIs ==
    ASSUME NEW p \in Pairs, p[2] # 0
    PROVE  /\ Smaller(p) \in Pairs /\ Smaller(p)[2] < p[2] /\ Smaller(p)[2] \in Nat
           /\ p[1] \div p[2] \in Int /\ p[1] = p[2] * (p[1] \div p[2]) + Smaller(p)[2]
           /\ Smaller(p)[1] = p[2]
<1> DEFINE a == p[1]
           b == p[2]
<1>1. a \in Nat /\ b \in Nat /\ b > 0
  BY DEF Pairs
<1> HIDE DEF a, b
<1>2. a % b \in Nat /\ a % b < b /\ a \div b \in Int /\ a = b * (a \div b) + (a % b)
  BY <1>1
<1>3. Smaller(p) = <<b, a % b>>
  BY DEF Smaller, a, b
<1>4. Smaller(p)[1] = b /\ Smaller(p)[2] = a % b
  BY <1>3
<1>5. Smaller(p) \in Pairs
  BY <1>1, <1>2, <1>3 DEF Pairs
<1> QED BY <1>2, <1>4, <1>5 DEF a, b

LEMMA GcdStepType ==
    ASSUME NEW p \in Pairs, NEW r, p[2] # 0 => r \in Triple PROVE GcdStep(p, r) \in Triple
<1>1. CASE p[2] = 0
  BY <1>1 DEF GcdStep, Pairs, Triple
<1>2. CASE p[2] # 0
  <2> DEFINE k == p[1] \div p[2]
  <2>1. k \in Int
    BY <1>2, SmallerIs
  <2>2. GcdStep(p, r) = <<r[1], r[3], r[2] - (k * r[3])>>
    BY <1>2 DEF GcdStep
  <2>3. r[1] \in Int /\ r[2] \in Int /\ r[3] \in Int
    BY <1>2 DEF Triple
  <2> HIDE DEF k
  <2>4. r[2] - (k * r[3]) \in Int
    BY <2>1, <2>3
  <2> QED BY <2>2, <2>3, <2>4 DEF Triple
<1> QED BY <1>1, <1>2

\* Two such functions agree where both are defined.
LEMMA SolvesAgree ==
    ASSUME NEW n \in Nat, NEW m \in Nat, NEW g \in Solves(n), NEW h \in Solves(m),
           NEW x \in Below(n) \cap Below(m)
    PROVE  g[x] = h[x]
<1> DEFINE P == {k \in Nat : \A p \in Below(n) \cap Below(m) : p[2] < k => g[p] = h[p]}
<1>1. 0 \in P
  BY DEF Below, Pairs
<1>2. ASSUME NEW k \in Nat, k \in P PROVE k + 1 \in P
  <2> SUFFICES ASSUME NEW p \in Below(n) \cap Below(m), p[2] < k + 1 PROVE g[p] = h[p]
    OBVIOUS
  <2>1. p \in Pairs /\ g[p] = GcdStep(p, g[Smaller(p)]) /\ h[p] = GcdStep(p, h[Smaller(p)])
    BY DEF Solves, Below
  <2>2. CASE p[2] = 0
    BY <2>1, <2>2 DEF GcdStep
  <2>3. CASE p[2] # 0
    <3>1. Smaller(p) \in Pairs /\ Smaller(p)[2] < p[2] /\ Smaller(p)[2] \in Nat /\ p[2] \in Nat
      BY <2>1, <2>3, SmallerIs DEF Pairs
    <3>2. p[2] < n /\ p[2] < m
      BY DEF Below
    <3>3. Smaller(p)[2] < n /\ Smaller(p)[2] < m /\ Smaller(p)[2] < k
      BY <3>1, <3>2
    <3>4. Smaller(p) \in Below(n) \cap Below(m)
      BY <3>1, <3>3 DEF Below
    <3>5. g[Smaller(p)] = h[Smaller(p)]
      BY <1>2, <3>3, <3>4
    <3> QED BY <2>1, <3>5
  <2> QED BY <2>2, <2>3
<1>3. \A k \in Nat : k \in P
  <2> HIDE DEF P
  <2> QED BY <1>1, <1>2, Induction
<1>4. n \in P /\ x[2] < n
  BY <1>3 DEF Below
<1> QED BY <1>4

LEMMA SolvesExist == \A n \in Nat : Solves(n) # {}
<1> DEFINE P == {n \in Nat : Solves(n) # {}}
<1>1. 0 \in P
  <2>1. Below(0) = {}
    BY DEF Below, Pairs
  <2>2. [p \in Below(0) |-> <<0, 0, 0>>] \in Solves(0)
    BY <2>1 DEF Solves
  <2> QED BY <2>2
<1>2. ASSUME NEW n \in Nat, n \in P PROVE n + 1 \in P
  <2>1. PICK g : g \in Solves(n)
    BY <1>2
  <2> DEFINE h == [p \in Below(n + 1) |-> GcdStep(p, g[Smaller(p)])]
  <2>2. \A p \in Below(n + 1) : p \in Pairs /\ (p[2] # 0 => Smaller(p) \in Below(n) \cap Below(n + 1))
    <3> SUFFICES ASSUME NEW p \in Below(n + 1), p[2] # 0
                 PROVE  Smaller(p) \in Below(n) \cap Below(n + 1)
      BY DEF Below
    <3>1. p \in Pairs /\ p[2] < n + 1 /\ p[2] \in Nat
      BY DEF Below, Pairs
    <3>2. Smaller(p) \in Pairs /\ Smaller(p)[2] < p[2] /\ Smaller(p)[2] \in Nat
      BY <3>1, SmallerIs
    <3>3. Smaller(p)[2] < n /\ Smaller(p)[2] < n + 1
      BY <3>1, <3>2
    <3> QED BY <3>2, <3>3 DEF Below
  <2>3. \A p \in Below(n + 1) : GcdStep(p, g[Smaller(p)]) \in Triple
    <3>1. \A p \in Below(n) : g[p] \in Triple
      BY <2>1 DEF Solves
    <3> QED BY <2>2, <3>1, GcdStepType
  <2>4. h \in [Below(n + 1) -> Triple]
    BY <2>3
  <2>5. \A p \in Below(n) : p \in Below(n + 1) /\ h[p] = g[p]
    <3>1. \A p \in Below(n) : p \in Below(n + 1)
      BY DEF Below, Pairs
    <3>2. \A p \in Below(n) : g[p] = GcdStep(p, g[Smaller(p)])
      BY <2>1 DEF Solves
    <3> QED BY <3>1, <3>2
  <2>6. \A p \in Below(n + 1) : h[p] = GcdStep(p, h[Smaller(p)])
    <3> SUFFICES ASSUME NEW p \in Below(n + 1) PROVE h[p] = GcdStep(p, h[Smaller(p)])
      OBVIOUS
    <3>1. h[p] = GcdStep(p, g[Smaller(p)])
      OBVIOUS
    <3> HIDE DEF h
    <3>2. CASE p[2] = 0
      BY <3>1, <3>2 DEF GcdStep
    <3>3. CASE p[2] # 0
      BY <2>2, <2>5, <3>1, <3>3
    <3> QED BY <3>2, <3>3
  <2> HIDE DEF h
  <2>7. h \in Solves(n + 1)
    BY <2>4, <2>6 DEF Solves
  <2> QED BY <2>7
<1> HIDE DEF P
<1>3. \A n \in Nat : n \in P
  BY <1>1, <1>2, Induction
<1> QED BY <1>3 DEF P

\* The recursion has a solution, and xgcd is one.
LEMMA XgcdIs ==
    /\ \A p \in Pairs : Ec!xgcd[p] \in Triple
    /\ \A p \in Pairs : Ec!xgcd[p] = GcdStep(p, Ec!xgcd[Smaller(p)])
<1> DEFINE G(n) == CHOOSE g \in Solves(n) : TRUE
           f == [p \in Pairs |-> G(p[2] + 1)[p]]
<1>1. \A n \in Nat : G(n) \in Solves(n)
  BY SolvesExist
<1>2. \A p \in Pairs : p[2] \in Nat /\ p[2] + 1 \in Nat /\ p \in Below(p[2] + 1)
  BY DEF Pairs, Below
<1>3. \A p \in Pairs : f[p] = G(p[2] + 1)[p]
  OBVIOUS
<1> HIDE DEF G
<1>4. \A p \in Pairs : f[p] \in Triple
  BY <1>1, <1>2, <1>3 DEF Solves
<1> HIDE DEF f
<1>5. \A p \in Pairs : f[p] = GcdStep(p, f[Smaller(p)])
  <2> SUFFICES ASSUME NEW p \in Pairs PROVE f[p] = GcdStep(p, f[Smaller(p)])
    OBVIOUS
  <2> DEFINE n == p[2] + 1
             s == Smaller(p)
             m == s[2] + 1
  <2>1. n \in Nat /\ G(n) \in Solves(n) /\ p \in Below(n)
    BY <1>1, <1>2
  <2>2. f[p] = GcdStep(p, G(n)[s])
    BY <1>3, <2>1 DEF Solves
  <2>3. CASE p[2] = 0
    BY <2>2, <2>3 DEF GcdStep
  <2>4. CASE p[2] # 0
    <3>1. s \in Pairs /\ s[2] < p[2] /\ s[2] \in Nat /\ p[2] \in Nat
      BY <2>4, SmallerIs DEF Pairs
    <3> HIDE DEF s
    <3>2. m \in Nat /\ G(m) \in Solves(m) /\ s \in Below(m) /\ f[s] = G(m)[s]
      BY <1>1, <1>2, <1>3, <3>1
    <3>3. s \in Below(n)
      BY <3>1 DEF Below
    <3> HIDE DEF n, m
    <3>4. G(n)[s] = G(m)[s]
      BY <2>1, <3>2, <3>3, SolvesAgree
    <3> QED BY <2>2, <3>2, <3>4 DEF s
  <2> QED BY <2>3, <2>4
<1>6. f = [p \in Nat \X Nat |->
              IF p[2] = 0 THEN <<p[1], 1, 0>>
              ELSE LET r == f[<<p[2], p[1] % p[2]>>]
                   IN  <<r[1], r[3], r[2] - (p[1] \div p[2]) * r[3]>>]
  <2>1. f = [p \in Pairs |-> f[p]]
    BY DEF f
  <2>2. \A p \in Pairs : f[p] =
              IF p[2] = 0 THEN <<p[1], 1, 0>>
              ELSE LET r == f[<<p[2], p[1] % p[2]>>]
                   IN  <<r[1], r[3], r[2] - (p[1] \div p[2]) * r[3]>>
    BY <1>5 DEF GcdStep, Smaller
  <2> QED BY <2>1, <2>2, Zenon DEF Pairs
<1>7. Ec!xgcd = [p \in Nat \X Nat |->
              IF p[2] = 0 THEN <<p[1], 1, 0>>
              ELSE LET r == Ec!xgcd[<<p[2], p[1] % p[2]>>]
                   IN  <<r[1], r[3], r[2] - (p[1] \div p[2]) * r[3]>>]
  BY <1>6, Zenon DEF Ec!xgcd
<1> DEFINE x == Ec!xgcd
<1> HIDE DEF x
<1>8. x = [p \in Pairs |-> GcdStep(p, x[Smaller(p)])]
  BY <1>7, Zenon DEF x, GcdStep, Smaller, Pairs
<1>9. \A p \in Pairs : x[p] = GcdStep(p, x[Smaller(p)])
  <2> DEFINE e(p) == GcdStep(p, x[Smaller(p)])
  <2>1. x = [p \in Pairs |-> e(p)]
    BY <1>8
  <2> HIDE DEF e
  <2>2. \A p \in Pairs : x[p] = e(p)
    BY <2>1
  <2> QED BY <2>2 DEF e
<1> DEFINE P == {k \in Nat : \A p \in Pairs : p[2] < k => x[p] \in Triple}
<1>10. 0 \in P
  BY DEF Pairs
<1>11. ASSUME NEW k \in Nat, k \in P PROVE k + 1 \in P
  <2> SUFFICES ASSUME NEW p \in Pairs, p[2] < k + 1 PROVE x[p] \in Triple
    OBVIOUS
  <2>1. ASSUME p[2] # 0 PROVE x[Smaller(p)] \in Triple
    <3>1. Smaller(p) \in Pairs /\ Smaller(p)[2] < p[2] /\ Smaller(p)[2] \in Nat /\ p[2] \in Nat
      BY <2>1, SmallerIs DEF Pairs
    <3>2. Smaller(p)[2] < k
      BY <3>1
    <3> QED BY <1>11, <3>1, <3>2
  <2> QED BY <1>9, <2>1, GcdStepType
<1>12. \A k \in Nat : k \in P
  <2> HIDE DEF P
  <2> QED BY <1>10, <1>11, Induction
<1>13. \A p \in Pairs : x[p] \in Triple
  <2> TAKE p \in Pairs
  <2>1. p[2] + 1 \in P /\ p[2] < p[2] + 1
    BY <1>2, <1>12
  <2> QED BY <2>1
<1> QED BY <1>9, <1>13 DEF x

\* What the algorithm returns: a common divisor and its Bezout coefficients.
Bezout(p, r) ==
    /\ r[1] >= 0
    /\ r[1] = r[2] * p[1] + r[3] * p[2]
    /\ \E u, v \in Int : p[1] = r[1] * u /\ p[2] = r[1] * v

LEMMA BezoutStep ==
    ASSUME NEW a \in Int, NEW b \in Int, NEW c \in Int, NEW k \in Int,
           NEW s \in Int, NEW t \in Int, a = b * k + c
    PROVE  s * b + t * c = t * a + (s - k * t) * b
<1> DEFINE A == t * a
           B == (s - k * t) * b
           C == t * (b * k)
           D == t * c
           E == s * b
<1>1. A = C + D
  OBVIOUS
<1>2. B = E - C
  <2>1. B = E - (k * t) * b /\ (k * t) * b = C
    OBVIOUS
  <2> QED BY <2>1
<1>3. A \in Int /\ B \in Int /\ C \in Int /\ D \in Int /\ E \in Int
  OBVIOUS
<1> HIDE DEF A, B, C, D, E
<1>4. E + D = A + B
  BY <1>1, <1>2, <1>3
<1> QED BY <1>4 DEF A, B, D, E

LEMMA DividesStep ==
    ASSUME NEW g \in Int, NEW u \in Int, NEW v \in Int, NEW k \in Int
    PROVE  (g * u) * k + g * v = g * (u * k + v) /\ u * k + v \in Int
<1>1. (g * u) * k = g * (u * k) /\ u * k \in Int
  OBVIOUS
<1>2. g * (u * k + v) = g * (u * k) + g * v
  OBVIOUS
<1> QED BY <1>1, <1>2

LEMMA XgcdBezout == \A p \in Pairs : Bezout(p, Ec!xgcd[p])
<1> DEFINE x == Ec!xgcd
           P == {k \in Nat : \A p \in Pairs : p[2] < k => Bezout(p, x[p])}
<1>0. \A p \in Pairs : x[p] \in Triple /\ x[p] = GcdStep(p, x[Smaller(p)])
  BY XgcdIs
<1> HIDE DEF x
<1>1. 0 \in P
  BY DEF Pairs
<1>2. ASSUME NEW k \in Nat, k \in P PROVE k + 1 \in P
  <2> SUFFICES ASSUME NEW p \in Pairs, p[2] < k + 1 PROVE Bezout(p, x[p])
    OBVIOUS
  <2>0. p[1] \in Nat /\ p[2] \in Nat
    BY DEF Pairs
  <2>1. CASE p[2] = 0
    <3>1. x[p] = <<p[1], 1, 0>>
      BY <1>0, <2>1 DEF GcdStep
    <3>2. x[p][1] = p[1] /\ x[p][2] = 1 /\ x[p][3] = 0
      BY <3>1
    <3>3. p[1] = p[1] * 1 /\ p[2] = p[1] * 0 /\ p[1] = 1 * p[1] + 0 * p[2]
      BY <2>0, <2>1
    <3> QED BY <2>0, <3>2, <3>3 DEF Bezout
  <2>2. CASE p[2] # 0
    <3> DEFINE s == Smaller(p)
               r == x[s]
               d == p[1] \div p[2]
    <3>1. s \in Pairs /\ s[2] < p[2] /\ s[2] \in Nat /\ d \in Int /\ p[1] = p[2] * d + s[2]
          /\ s[1] = p[2]
      BY <2>2, SmallerIs
    <3>2. x[p] = <<r[1], r[3], r[2] - d * r[3]>>
      BY <1>0, <2>2 DEF GcdStep
    <3>3. r[1] \in Int /\ r[2] \in Int /\ r[3] \in Int
      BY <1>0, <3>1 DEF Triple
    <3>4. Bezout(s, r)
      <4>1. s[2] < k
        BY <2>0, <3>1
      <4> QED BY <1>2, <3>1, <4>1
    <3> HIDE DEF s, r, d
    <3>5. r[1] = r[2] * p[2] + r[3] * s[2]
      BY <3>1, <3>4 DEF Bezout
    <3>6. PICK u \in Int, v \in Int : p[2] = r[1] * u /\ s[2] = r[1] * v
      BY <3>1, <3>4 DEF Bezout
    <3>7. p[1] \in Int /\ p[2] \in Int /\ s[2] \in Int
      BY <2>0, <3>1
    <3>8. /\ r[1] = r[3] * p[1] + (r[2] - d * r[3]) * p[2]
          /\ \E y, z \in Int : p[1] = r[1] * y /\ p[2] = r[1] * z
      <4> DEFINE a == p[1]
                 b == p[2]
                 c == s[2]
                 g == r[1]
                 l == r[2]
                 m == r[3]
      <4>1. a \in Int /\ b \in Int /\ c \in Int /\ g \in Int /\ l \in Int /\ m \in Int
        BY <3>3, <3>7
      <4>2. a = b * d + c /\ g = l * b + m * c /\ b = g * u /\ c = g * v
        BY <3>1, <3>5, <3>6
      <4> HIDE DEF a, b, c, g, l, m
      <4>3. l * b + m * c = m * a + (l - d * m) * b
        BY <3>1, <4>1, <4>2, BezoutStep
      <4>4. a = g * (u * d + v) /\ u * d + v \in Int
        BY <3>1, <4>1, <4>2, DividesStep
      <4>5. g = m * a + (l - d * m) * b /\ \E y, z \in Int : a = g * y /\ b = g * z
        BY <4>2, <4>3, <4>4
      <4> QED BY <4>5 DEF a, b, c, g, l, m
    <3>9. r[1] >= 0
      BY <3>4 DEF Bezout
    <3>10. x[p][1] = r[1] /\ x[p][2] = r[3] /\ x[p][3] = r[2] - d * r[3]
      BY <3>2
    <3> QED BY <3>8, <3>9, <3>10 DEF Bezout
  <2> QED BY <2>1, <2>2
<1>3. \A k \in Nat : k \in P
  <2> HIDE DEF P
  <2> QED BY <1>1, <1>2, Induction
<1>4. ASSUME NEW p \in Pairs PROVE Bezout(p, x[p])
  <2>1. p[2] \in Nat /\ p[2] + 1 \in P /\ p[2] < p[2] + 1
    BY <1>3 DEF Pairs
  <2> QED BY <2>1
<1> QED BY <1>4 DEF x

\* Q is not 2, so 8 is not 0 mod Q.
LEMMA EightNotZero == ASSUME Q # 2 PROVE 8 % Q \in Zq /\ 8 % Q # 0
<1>1. 8 % Q \in Zq
  BY ModType
<1>2. ASSUME 8 % Q = 0 PROVE FALSE
  <2>1. Q \in Nat /\ Q > 2
    BY QAssumption
  <2>2. 2 \in Zq /\ 2 % Q # 0
    BY <2>1, ModSmall DEF Zq
  <2>3. Cong(2 * 4, 0)
    BY <1>2, <2>1 DEF Cong
  <2>4. Cong(4, 0)
    BY <2>2, <2>3, Cancel
  <2>5. Cong(2 * 2, 0)
    BY <2>4
  <2>6. Cong(2, 0)
    BY <2>2, <2>5, Cancel
  <2> QED BY <2>2, <2>6, <2>1 DEF Cong
<1> QED BY <1>1, <1>2

\* A divisor of Q and of a smaller number other than 0 is 1.
LEMMA Coprime ==
    ASSUME NEW g \in Nat, NEW u \in Int, NEW v \in Int, NEW a \in Zq, a # 0,
           a = g * u, Q = g * v
    PROVE  g = 1
<1>1. Q \in Nat /\ Q > 1 /\ a \in 1 .. Q - 1
  BY QAssumption DEF Zq
<1>2. g > 0 /\ v > 0
  BY <1>1
<1>3. u > 0
  BY <1>1, <1>2
<1>4. g <= a
  BY <1>1, <1>2, <1>3
<1>5. g \in Zq /\ g % Q # 0
  BY <1>1, <1>2, <1>4, ModSmall DEF Zq
<1>6. Cong(g * v, 0)
  BY <1>1 DEF Cong
<1>7. Cong(v, 0)
  BY <1>5, <1>6, Cancel
<1>8. v <= Q
  BY <1>1, <1>2
<1>9. v = Q
  <2>1. CASE v < Q
    <3>1. v \in Zq
      BY <1>2, <2>1 DEF Zq
    <3>2. v % Q = v /\ 0 % Q = 0
      BY <3>1, <1>1, ModSmall
    <3> QED BY <1>2, <1>7, <3>2 DEF Cong
  <2> QED BY <1>8, <2>1, <1>1
<1> QED BY <1>1, <1>2, <1>9

\* modInt.Inverse(8) is an inverse.
LEMMA EightInverse ==
    ASSUME Q # 2
    PROVE  Ec!Inverse(8, Q) \in Zq /\ Ec!Inverse(8, Q) \in Int /\ Cong(8 * Ec!Inverse(8, Q), 1)
<1> DEFINE a == 8 % Q
           p == <<a, Q>>
           r == Ec!xgcd[p]
<1>1. a \in Zq /\ a # 0 /\ Q \in Nat /\ Q > 1 /\ a \in Nat
  BY EightNotZero, QAssumption DEF Zq
<1>2. p \in Pairs /\ p[1] = a /\ p[2] = Q
  BY <1>1 DEF Pairs
<1>3. r \in Triple /\ Bezout(p, r)
  BY <1>2, XgcdIs, XgcdBezout
<1>4. Ec!Inverse(8, Q) = IF r[1] = 1 THEN r[2] % Q ELSE Ec!Nil
  BY DEF Ec!Inverse
<1>5. 8 \in Int /\ Cong(8, a) /\ Cong(a, 8)
  BY CgMod
<1> HIDE DEF r, a, p
<1> DEFINE g == r[1]
           s == r[2]
           t == r[3]
<1>6. g \in Int /\ s \in Int /\ t \in Int /\ g >= 0 /\ g = s * a + t * Q
  BY <1>2, <1>3 DEF Bezout, Triple
<1>7. PICK u \in Int, v \in Int : a = g * u /\ Q = g * v
  BY <1>2, <1>3 DEF Bezout
<1> HIDE DEF g, s, t
<1>8. g = 1
  <2>1. g \in Nat
    BY <1>6
  <2> QED BY <1>1, <1>7, <2>1, Coprime
<1>9. s % Q \in Zq /\ s % Q \in Int /\ Cong(s % Q, s)
  BY <1>6, ModType, CgMod
<1>10. Ec!Inverse(8, Q) = s % Q
  BY <1>4, <1>8 DEF g, s
<1>11. Cong(s * a, 1)
  <2>1. s * a = 1 + Q * (-t) /\ s * a \in Int /\ -t \in Int
    BY <1>1, <1>6, <1>8
  <2>2. (1 + Q * (-t)) % Q = 1 % Q
    BY <2>1, ModPlusMultiple
  <2> QED BY <2>1, <2>2 DEF Cong
<1> DEFINE i == s % Q
<1>12. i \in Int /\ Cong(i, s)
  BY <1>9
<1> HIDE DEF i
<1>13. Cong(8 * i, a * s)
  BY <1>1, <1>5, <1>6, <1>12, CgTimes
<1>14. a * s = s * a
  BY <1>1, <1>6
<1>15. Cong(8 * i, 1)
  BY <1>11, <1>13, <1>14, CgTrans
<1> QED BY <1>9, <1>10, <1>15 DEF i

-----------------------------------------------------------------------------
(* Points.  Those of the subgroup are the multiples of 8 mod 8*Q.          *)

LEMMA ModOf ==
    ASSUME NEW n \in Nat, n > 0, NEW a \in Int, NEW k \in Int, NEW r \in 0 .. n - 1, a = n * k + r
    PROVE  a % n = r
OBVIOUS

LEMMA OrderIs == Ec!Order = 8 * Q /\ 8 * Q \in Nat /\ 8 * Q > 8 /\ Ec!Base = 8
BY QAssumption DEF Ec!Order, Ec!Base

LEMMA OrderMod == ASSUME NEW a \in Int PROVE a % (8 * Q) \in 0 .. 8 * Q - 1 /\ a % (8 * Q) \in Nat
<1> DEFINE n == 8 * Q
<1>1. n \in Nat /\ n > 0
  BY QAssumption
<1> HIDE DEF n
<1>2. a % n \in 0 .. n - 1 /\ a % n \in Nat
  BY <1>1
<1> QED BY <1>2 DEF n

LEMMA EightMod == ASSUME NEW x \in Int PROVE (8 * x) % (8 * Q) = 8 * (x % Q) /\ 8 * (x % Q) \in Nat
<1> DEFINE m == x % Q
<1>1. m \in 0 .. Q - 1 /\ m \in Int
  BY ModType DEF Zq
<1>2. PICK k \in Int : x = (Q * k) + m
  BY ModDiv
<1> HIDE DEF m
<1>3. 8 * m \in 0 .. 8 * Q - 1 /\ 8 * x \in Int /\ 8 * Q \in Nat /\ 8 * Q > 0
  BY <1>1, QAssumption
<1>4. 8 * x = (8 * Q) * k + 8 * m
  <2> DEFINE y == Q * k
  <2>1. y \in Int /\ (8 * Q) * k = 8 * y /\ x = y + m
    BY <1>2, QAssumption
  <2> HIDE DEF y
  <2> QED BY <1>1, <2>1
<1>5. (8 * x) % (8 * Q) = 8 * m
  BY <1>3, <1>4, ModOf
<1> QED BY <1>3, <1>5 DEF m

LEMMA OrderThenQ == ASSUME NEW a \in Int PROVE Cong(a % (8 * Q), a)
<1> DEFINE n == 8 * Q
           m == a % n
           d == a \div n
<1>1. n \in Nat /\ n > 0
  BY QAssumption
<1>2. m \in Int
  BY OrderMod
<1>3. d \in Int /\ a = n * d + m
  <2> HIDE DEF n
  <2> QED BY <1>1
<1> HIDE DEF m, d
<1>4. a = m + Q * (8 * d) /\ 8 * d \in Int
  <2>1. n * d = Q * (8 * d) /\ n * d \in Int
    BY <1>3, QAssumption
  <2> HIDE DEF n
  <2> QED BY <1>2, <1>3, <2>1
<1>5. (m + Q * (8 * d)) % Q = m % Q
  BY <1>2, <1>4, ModPlusMultiple
<1> QED BY <1>4, <1>5 DEF Cong, m, n

LEMMA AddIs == ASSUME NEW a \in Nat, NEW b \in Nat PROVE Ec!Add(a, b) = (a + b) % (8 * Q)
<1>1. (a + b) % (8 * Q) \in Ec!Point
  <2>1. a + b \in Int
    OBVIOUS
  <2> QED BY <2>1, OrderMod, OrderIs DEF Ec!Point
<1>2. ~(a < 0 \/ b < 0)
  OBVIOUS
<1> QED BY <1>1, <1>2, OrderIs DEF Ec!Add, Ec!NewECPoint

LEMMA MultIs ==
    ASSUME NEW p \in Nat, NEW k \in Nat
    PROVE  Ec!ScalarMult(p, k) = (p * (k % (8 * Q))) % (8 * Q)
<1> DEFINE m == k % (8 * Q)
<1>1. m \in Nat
  BY OrderMod
<1>2. ~(p < 0) /\ (IF k < 0 THEN -k ELSE k) = k
  OBVIOUS
<1>3. (p * m) % (8 * Q) \in Ec!Point
  <2> HIDE DEF m
  <2>1. p * m \in Int
    BY <1>1
  <2> QED BY <2>1, OrderMod, OrderIs DEF Ec!Point
<1> QED BY <1>2, <1>3, OrderIs DEF Ec!ScalarMult, Ec!NewECPoint

LEMMA BaseMultIs ==
    ASSUME NEW k \in Nat PROVE Ec!ScalarBaseMult(k) = 8 * (k % Q) /\ 8 * (k % Q) \in Nat
<1> DEFINE m == k % (8 * Q)
<1>1. m \in Int /\ m % Q = k % Q
  BY OrderMod, OrderThenQ DEF Cong
<1>2. Ec!ScalarBaseMult(k) = (8 * m) % (8 * Q)
  BY MultIs, OrderIs DEF Ec!ScalarBaseMult
<1> HIDE DEF m
<1> QED BY <1>1, <1>2, EightMod

\* EightInvEight maps r*G to itself, also with a component of small order.
LEMMA ClearSmall ==
    ASSUME Q # 2, NEW p \in Nat, NEW r \in Zq, Cong(p, 8 * r)
    PROVE  Ec!EightInvEight(p) = 8 * r
<1> DEFINE v == Ec!Inverse(8, Q)
           u == p % Q
<1>1. v \in Zq /\ v \in Int /\ Cong(8 * v, 1) /\ v \in Nat
  BY EightInverse DEF Zq
<1>2. r \in Int /\ u \in Zq /\ u \in Int /\ u \in Nat /\ Cong(u, p)
  BY ModType, CgMod DEF Zq
<1>3. Ec!EightInvEight(p) = Ec!ScalarMult(Ec!ScalarMult(p, 8), v)
  BY DEF Ec!EightInvEight
<1>4. Ec!ScalarMult(p, 8) = 8 * u /\ 8 * u \in Nat
  <2>1. 8 % (8 * Q) = 8
    <3> DEFINE n == 8 * Q
    <3>1. n \in Nat /\ n > 8
      BY OrderIs
    <3> HIDE DEF n
    <3>2. 8 % n = 8
      BY <3>1
    <3> QED BY <3>2 DEF n
  <2>2. p * 8 = 8 * p
    OBVIOUS
  <2> QED BY <2>1, <2>2, MultIs, EightMod
<1> HIDE DEF v, u
<1>5. Ec!ScalarMult(8 * u, v) = 8 * ((u * v) % Q)
  <2>1. v % (8 * Q) = v
    <3> DEFINE n == 8 * Q
    <3>1. n \in Nat /\ v < n
      BY <1>1, QAssumption DEF Zq
    <3> HIDE DEF n
    <3>2. v % n = v
      BY <1>1, <3>1
    <3> QED BY <3>2 DEF n
  <2>2. (8 * u) * v = 8 * (u * v) /\ u * v \in Int
    BY <1>1, <1>2
  <2> DEFINE w == 8 * u
  <2>3. Ec!ScalarMult(w, v) = (w * v) % (8 * Q)
    BY <1>1, <1>4, <2>1, MultIs
  <2> QED BY <2>2, <2>3, EightMod
<1>6. Cong(u * v, r)
  <2>1. Cong(u, 8 * r) /\ 8 * r \in Int
    BY <1>2, CgTrans
  <2>2. Cong(u * v, (8 * r) * v)
    <3>1. Cong(v, v)
      BY DEF Cong
    <3> QED BY <1>1, <1>2, <2>1, <3>1, CgTimes
  <2> DEFINE e == 8 * v
  <2>3. (8 * r) * v = r * e /\ e \in Int
    BY <1>1, <1>2
  <2>4. Cong(e, 1)
    BY <1>1
  <2> HIDE DEF e
  <2>5. Cong(r * e, r * 1) /\ r * 1 = r
    <3>1. 1 \in Int /\ r * 1 = r
      BY <1>2
    <3>2. Cong(r * e, r * 1)
      BY <1>2, <2>3, <2>4, <3>1, CgFactor
    <3> QED BY <3>1, <3>2
  <2> QED BY <2>2, <2>3, <2>5, CgTrans
<1>7. (u * v) % Q = r
  BY <1>6, ModSmall DEF Cong
<1> QED BY <1>3, <1>4, <1>5, <1>7 DEF v

-----------------------------------------------------------------------------
(* What the parties compute.                                               *)

LEMMA SignersAre ==
    /\ IsFiniteSet(Signers) /\ Signers \subseteq Nat /\ Cardinality(Signers) \in Nat
    /\ Cardinality(Signers) <= Q - 1
    /\ EdDegree \in Nat /\ EdDegree < Cardinality(Signers) /\ Q # 2 /\ Zq \subseteq Int
    /\ EdFaulty \subseteq Signers
<1>1. Zq \subseteq Int
  BY QAssumption DEF Zq
<1> QED BY EddsaAssumption, <1>1, QAssumption DEF EdDegree

LEMMA WeightsAre ==
    /\ IntOn(EdW, Signers) /\ SumQ(EdW) = EdKeyPoly[0] /\ DOMAIN EdW = Signers
    /\ EdKeyPoly[0] \in Zq /\ EdKeyPoly[0] \in Int
<1> DEFINE x == [p \in Signers |-> evaluatePolynomial(EdDegree, EdKeyPoly, EdKeys[p])]
           c == Cardinality(Signers)
<1>1. EdKeyPoly \in [0 .. EdDegree -> Zq] /\ IntOn(EdKeyPoly, 0 .. EdDegree) /\ 0 \in 0 .. EdDegree
  <2>1. EdKeyPoly \in [0 .. EdDegree -> Zq]
    BY EddsaAssumption DEF EdDegree
  <2>2. 0 \in 0 .. EdDegree
    BY SignersAre
  <2> QED BY <2>1, <2>2, SignersAre DEF IntOn
<1>2. \A p \in Signers : EdKeys[p] \in Int /\ EdKeys[p] = p + 1 /\ p \in 0 .. c - 1
  BY EddsaAssumption, SignersAre DEF EdKeys
<1>3. Distinct(EdKeys, Signers)
  <2>1. \A p \in Signers : EdKeys[p] \in Zq
    <3>1. c \in 1 .. Q - 1
      BY EddsaAssumption
    <3> SUFFICES ASSUME NEW p \in Signers PROVE EdKeys[p] \in Zq
      OBVIOUS
    <3>2. EdKeys[p] = p + 1 /\ p \in 0 .. c - 1
      BY <1>2
    <3> HIDE DEF c
    <3> QED BY <3>1, <3>2, QAssumption DEF Zq
  <2>2. \A p \in Signers : EdKeys[p] % Q = p + 1
    BY <1>2, <2>1, ModSmall
  <2>3. \A i, j \in Signers : i # j => i + 1 # j + 1
    BY SignersAre
  <2>4. \A i, j \in Signers : i # j => EdKeys[i] % Q # EdKeys[j] % Q
    BY <2>2, <2>3
  <2> QED BY <1>2, <2>4 DEF Distinct, IntOn
<1>4. \A p \in Signers : x[p] = evaluatePolynomial(EdDegree, EdKeyPoly, EdKeys[p]) /\ x[p] \in Int
  BY <1>1, <1>2, SignersAre, EvalType
<1>5. EdW = [p \in Signers |-> SigningWeight(p, Signers, EdKeys, x[p])]
  BY DEF EdW
<1> HIDE DEF x
<1>6. SumQ(EdW) = EdKeyPoly[0] % Q
  <2>1. SumQ([p \in Signers |-> SigningWeight(p, Signers, EdKeys, x[p])]) = EdKeyPoly[0] % Q
    <3>1. EdDegree \in Nat /\ IsFiniteSet(Signers) /\ EdDegree < Cardinality(Signers)
      BY SignersAre
    <3>2. \A p \in Signers : x[p] = evaluatePolynomial(EdDegree, EdKeyPoly, EdKeys[p])
      BY <1>4
    <3> QED BY <1>1, <1>3, <3>1, <3>2, WeightsRecover
  <2> QED BY <1>5, <2>1
<1>7. \A p \in Signers : EdW[p] \in Int
  <2> SUFFICES ASSUME NEW p \in Signers PROVE EdW[p] \in Int
    OBVIOUS
  <2>1. Lambda(p, Signers, EdKeys) \in Int
    BY <1>3, SignersAre, LambdaIs
  <2>2. EdW[p] = (x[p] * Lambda(p, Signers, EdKeys)) % Q
    BY <1>5 DEF SigningWeight
  <2> DEFINE y == x[p] * Lambda(p, Signers, EdKeys)
  <2>3. y \in Int
    BY <1>4, <2>1
  <2> HIDE DEF y
  <2> QED BY <2>2, <2>3, ModType DEF y
<1> QED BY <1>1, <1>5, <1>6, <1>7, SignersAre, ModSmall DEF IntOn

\* The R that everybody should compute.
TotalR == 8 * SumQ(edRi)

LEMMA NoncesAre ==
    ASSUME edRi \in [Signers -> Zq]
    PROVE  /\ IntOn(edRi, Signers) /\ DOMAIN edRi = Signers
           /\ \A j \in Signers : edRi[j] \in Zq /\ edRi[j] \in Nat
           /\ SumQ(edRi) \in Zq /\ SumQ(edRi) \in Int /\ SumQ(edRi) \in Nat
           /\ SumFunctionOnSet(edRi, Signers) \in Int
           /\ Cong(SumQ(edRi), SumFunctionOnSet(edRi, Signers))
<1>1. IntOn(edRi, Signers) /\ DOMAIN edRi = Signers
  BY SignersAre DEF IntOn
<1>2. \A j \in Signers : edRi[j] \in Zq /\ edRi[j] \in Nat
  BY QAssumption DEF Zq
<1>3. SumQ(edRi) \in Zq /\ SumQ(edRi) \in Int
  BY <1>1, SignersAre, SumQType
<1>4. SumQ(edRi) \in Nat
  BY <1>3, QAssumption DEF Zq
<1>5. SumFunctionOnSet(edRi, Signers) \in Int
  BY <1>1, SignersAre, SumType
<1>6. Cong(SumQ(edRi), SumFunctionOnSet(edRi, Signers))
  BY <1>1, <1>5, SumQDef, CgMod
<1> QED BY <1>1, <1>2, <1>3, <1>4, <1>5, <1>6

\* What the others use of j's point is r_j*G.
LEMMA ReceivedRIs ==
    ASSUME edRi \in [Signers -> Zq], NEW j \in Signers
    PROVE  ReceivedR(j) = 8 * edRi[j]
<1> DEFINE e == IF edFault[j] = "small" THEN Q ELSE 0
           b == 8 * edRi[j]
<1>1. edRi[j] \in Zq /\ edRi[j] \in Nat /\ e \in Nat /\ edRi[j] \in Int
  BY NoncesAre, QAssumption
<1>2. Ec!ScalarBaseMult(edRi[j]) = b /\ b \in Nat
  BY <1>1, BaseMultIs, ModSmall
<1>3. SentR(j) = (b + e) % (8 * Q)
  BY <1>1, <1>2, AddIs DEF SentR
<1>4. Cong(b + e, b)
  <2>1. CASE edFault[j] = "small"
    <3>1. e = Q * 1
      BY <2>1, QAssumption
    <3> HIDE DEF b
    <3>2. (b + Q * 1) % Q = b % Q
      BY <1>2, ModPlusMultiple
    <3> QED BY <3>1, <3>2 DEF Cong
  <2>2. CASE edFault[j] # "small"
    <3>1. b + e = b
      BY <1>2, <2>2
    <3> QED BY <3>1 DEF Cong
  <2> QED BY <2>1, <2>2
<1>5. SentR(j) \in Nat /\ Cong(SentR(j), b)
  <2> HIDE DEF b, e
  <2>1. b + e \in Int
    BY <1>1, <1>2
  <2>2. (b + e) % (8 * Q) \in Nat /\ Cong((b + e) % (8 * Q), b + e)
    BY <2>1, OrderMod, OrderThenQ
  <2> QED BY <1>3, <1>4, <2>2, CgTrans
<1> QED BY <1>1, <1>5, SignersAre, ClearSmall DEF ReceivedR

LEMMA ComputedRIs ==
    ASSUME edRi \in [Signers -> Zq], NEW p \in Signers
    PROVE  ComputedR(p) = TotalR
<1> DEFINE M == Signers \ {p}
           f == [j \in M |-> ReceivedR(j)]
           s == SumFunctionOnSet(edRi, M)
           m == s % Q
           r == edRi[p]
<1>1. IsFiniteSet(M) /\ IntOn(edRi, M) /\ s \in Int
  <2>1. IsFiniteSet(M)
    BY SignersAre, FS_Subset
  <2>2. IntOn(edRi, M)
    BY NoncesAre DEF IntOn
  <2> QED BY <2>1, <2>2, SumType
<1>2. SumFunction(f) = 8 * s
  <2>1. \A j \in M : f[j] = 8 * edRi[j]
    BY ReceivedRIs
  <2>2. DOMAIN f = M /\ 8 \in Int
    OBVIOUS
  <2> HIDE DEF f, M
  <2>3. SumFunctionOnSet(f, M) = 8 * SumFunctionOnSet(edRi, M)
    BY <1>1, <2>1, <2>2, SumScale
  <2> QED BY <2>2, <2>3 DEF SumFunction
<1>3. SumFunction(f) % Ec!Order = 8 * m /\ 8 * m \in Nat
  <2> HIDE DEF f, s
  <2> QED BY <1>1, <1>2, EightMod, OrderIs
<1>4. r \in Zq /\ r \in Nat /\ Ec!ScalarBaseMult(r) = 8 * r /\ 8 * r \in Nat
  BY NoncesAre, BaseMultIs, ModSmall
<1>5. ComputedR(p) = Ec!Add(Ec!ScalarBaseMult(r), SumFunction(f) % Ec!Order)
  BY DEF ComputedR
<1>6. SumFunctionOnSet(edRi, Signers) = r + s
  BY SignersAre, NoncesAre, SumRemove
<1> HIDE DEF f, s, r
<1>7. m \in Int /\ Cong(m, s)
  BY <1>1, ModType, CgMod
<1> HIDE DEF m
<1>8. ComputedR(p) = (8 * r + 8 * m) % (8 * Q)
  BY <1>3, <1>4, <1>5, AddIs
<1>9. 8 * r + 8 * m = 8 * (r + m) /\ r + m \in Int
  BY <1>4, <1>7
<1>10. ComputedR(p) = 8 * ((r + m) % Q)
  BY <1>8, <1>9, EightMod
<1>11. (r + m) % Q = (r + s) % Q
  <2>1. Cong(r, r)
    BY DEF Cong
  <2>2. Cong(r + m, r + s)
    BY <1>1, <1>4, <1>7, <2>1, CgPlus
  <2> QED BY <2>2 DEF Cong
<1>12. SumQ(edRi) = (r + s) % Q
  BY <1>6, NoncesAre, SumQDef
<1> QED BY <1>10, <1>11, <1>12 DEF TotalR

\* The hash of R, the s_i that are off, and the s that everybody computes.
Hash == Lambda512(TotalR)
Offs == [j \in Signers |-> IF edFault[j] = "s" THEN 1 ELSE 0]
TotalS == SumQ([j \in Signers |-> (Hash * EdW[j] + edRi[j] + Offs[j]) % Q])

LEMMA HashType ==
    ASSUME edRi \in [Signers -> Zq] PROVE Hash \in Zq /\ Hash \in Int /\ Hash \in Nat
<1> DEFINE R == TotalR
           k == EdKeyPoly[0]
           h == R + R * R + 3 * EdMsg + k
<1>1. R \in Int
  BY NoncesAre DEF TotalR
<1>2. EdMsg \in Int /\ k \in Int
  BY EddsaAssumption, WeightsAre
<1>3. Hash = h % Q
  BY DEF Hash, Lambda512
<1>4. h \in Int
  <2> HIDE DEF R, k
  <2>1. R * R \in Int
    BY <1>1
  <2> QED BY <1>1, <1>2, <2>1
<1> HIDE DEF h
<1>5. Hash \in Zq
  BY <1>3, <1>4, ModType
<1> QED BY <1>5, QAssumption DEF Zq

LEMMA IntOnPlus ==
    ASSUME NEW S, NEW f, NEW g, IntOn(f, S), IntOn(g, S)
    PROVE  IntOn([j \in S |-> f[j] + g[j]], S)
<1>1. \A j \in S : f[j] \in Int /\ g[j] \in Int
  BY DEF IntOn
<1>2. \A j \in S : f[j] + g[j] \in Int
  BY <1>1
<1> QED BY <1>2 DEF IntOn

LEMMA TotalSIs ==
    ASSUME edRi \in [Signers -> Zq]
    PROVE  /\ TotalS \in Zq
           /\ Cong(TotalS, (Hash * EdKeyPoly[0] + SumQ(edRi)) + SumFunctionOnSet(Offs, Signers))
           /\ SumFunctionOnSet(Offs, Signers) \in Int
<1> DEFINE M == Signers
           hw == [j \in M |-> Hash * EdW[j]]
           hr == [j \in M |-> hw[j] + edRi[j]]
           g == [j \in M |-> hr[j] + Offs[j]]
           f == [j \in M |-> (Hash * EdW[j] + edRi[j] + Offs[j]) % Q]
           w == SumFunctionOnSet(EdW, M)
           r == SumFunctionOnSet(edRi, M)
           d == SumFunctionOnSet(Offs, M)
           k == EdKeyPoly[0]
           sr == SumQ(edRi)
<1>1. IsFiniteSet(M) /\ IntOn(EdW, M) /\ IntOn(edRi, M) /\ Hash \in Int /\ IntOn(Offs, M)
  <2>1. IntOn(Offs, M)
    BY DEF Offs, IntOn
  <2> QED BY <2>1, SignersAre, WeightsAre, NoncesAre, HashType
<1>2. IntOn(hw, M) /\ IntOn(hr, M) /\ IntOn(g, M)
  <2>1. \A j \in M : Hash * EdW[j] \in Int
    BY <1>1 DEF IntOn
  <2>2. IntOn(hw, M)
    BY <2>1 DEF IntOn
  <2> HIDE DEF hw
  <2>3. IntOn(hr, M)
    BY <1>1, <2>2, IntOnPlus
  <2> HIDE DEF hr
  <2>4. IntOn(g, M)
    BY <1>1, <2>3, IntOnPlus
  <2> QED BY <2>2, <2>3, <2>4
<1>3. SumFunctionOnSet(hw, M) = Hash * w /\ w \in Int
  <2>1. \A j \in M : hw[j] = Hash * EdW[j]
    OBVIOUS
  <2> HIDE DEF hw, M
  <2> QED BY <1>1, <2>1, SumScale, SumType
<1>4. SumFunctionOnSet(hr, M) = SumFunctionOnSet(hw, M) + r
  <2>1. \A j \in M : hr[j] = hw[j] + edRi[j]
    OBVIOUS
  <2> HIDE DEF hw, hr, M
  <2> QED BY <1>1, <1>2, <2>1, SumPlus
<1>5. SumFunctionOnSet(g, M) = SumFunctionOnSet(hr, M) + d
  <2>1. \A j \in M : g[j] = hr[j] + Offs[j]
    OBVIOUS
  <2> HIDE DEF hr, g, M
  <2> QED BY <1>1, <1>2, <2>1, SumPlus
<1>6. \A j \in M : f[j] = g[j] % Q
  OBVIOUS
<1>7. TotalS = SumQ(f) /\ DOMAIN f = M
  BY DEF TotalS
<1> HIDE DEF f, g, hr, hw
<1>8. IntOn(f, M) /\ \A j \in M : Cong(f[j], g[j])
  <2>1. \A j \in M : g[j] % Q \in Int /\ Cong(g[j] % Q, g[j])
    BY <1>2, ModType, CgMod DEF IntOn
  <2> QED BY <1>6, <2>1 DEF IntOn
<1>9. TotalS \in Zq
  BY <1>1, <1>7, <1>8, SumQType
<1>10. Cong(TotalS, SumFunctionOnSet(g, M))
  BY <1>1, <1>2, <1>7, <1>8, SumQCong
<1>11. r \in Int /\ d \in Int
  BY <1>1, SumType
<1>12. Cong(w, k) /\ k \in Int
  <2>1. SumQ(EdW) = w % Q /\ SumQ(EdW) = k /\ k \in Int
    BY WeightsAre, SumQDef
  <2> QED BY <1>3, <2>1, CgMod
<1>13. Cong(r, sr) /\ sr \in Int
  BY NoncesAre, CgSym
<1>14. SumFunctionOnSet(g, M) = (Hash * w + r) + d
  BY <1>3, <1>4, <1>5
<1> HIDE DEF w, r, d, k, sr
<1> DEFINE hk == Hash * k
           hv == Hash * w
<1>15. Cong(hv, hk)
  BY <1>1, <1>3, <1>12, CgFactor
<1>16. hv \in Int /\ hk \in Int
  BY <1>1, <1>3, <1>12
<1> HIDE DEF hk, hv
<1>17. Cong(hv + r, hk + sr) /\ hv + r \in Int /\ hk + sr \in Int
  BY <1>11, <1>13, <1>15, <1>16, CgPlus
<1> DEFINE a == hv + r
           b == hk + sr
<1> HIDE DEF a, b
<1>18. Cong(a + d, b + d)
  <2>1. Cong(d, d)
    BY DEF Cong
  <2>2. Cong(a, b) /\ a \in Int /\ b \in Int
    BY <1>17 DEF a, b
  <2> QED BY <1>11, <2>1, <2>2, CgPlus
<1>19. Cong(TotalS, b + d)
  BY <1>10, <1>14, <1>18, CgTrans DEF a, hv
<1> QED BY <1>9, <1>11, <1>19 DEF b, hk, d, k, sr

LEMMA ValidIs ==
    ASSUME edRi \in [Signers -> Zq], NEW s \in Zq
    PROVE  EdValid(TotalR, s) <=> Cong(s, Hash * EdKeyPoly[0] + SumQ(edRi))
<1> DEFINE x == Hash * EdKeyPoly[0]
           y == x % Q
           r == SumQ(edRi)
<1>1. x \in Nat /\ r \in Nat /\ r \in Int /\ s \in Nat
  <2>1. Hash \in Nat /\ EdKeyPoly[0] \in Nat
    BY HashType, WeightsAre, QAssumption DEF Zq
  <2>2. s \in Nat
    BY QAssumption DEF Zq
  <2> QED BY <2>1, <2>2, NoncesAre
<1>2. EdValid(TotalR, s) <=> Ec!ScalarBaseMult(s) = Ec!Add(8 * r, Ec!ScalarBaseMult(x))
  BY DEF EdValid, TotalR, Hash
<1> HIDE DEF x, r
<1>3. Ec!ScalarBaseMult(s) = 8 * s
  BY <1>1, BaseMultIs, ModSmall
<1>4. Ec!ScalarBaseMult(x) = 8 * y /\ 8 * y \in Nat
  BY <1>1, BaseMultIs
<1>5. y \in Int /\ Cong(y, x)
  BY <1>1, ModType, CgMod
<1> HIDE DEF y
<1>6. Ec!Add(8 * r, 8 * y) = (8 * r + 8 * y) % (8 * Q)
  BY <1>1, <1>4, AddIs
<1>7. 8 * r + 8 * y = 8 * (y + r) /\ y + r \in Int
  BY <1>1, <1>5
<1>8. (8 * r + 8 * y) % (8 * Q) = 8 * ((y + r) % Q)
  BY <1>7, EightMod
<1>9. (y + r) % Q = (x + r) % Q
  <2>1. Cong(r, r)
    BY DEF Cong
  <2>2. Cong(y + r, x + r)
    BY <1>1, <1>5, <2>1, CgPlus
  <2> QED BY <2>2 DEF Cong
<1>10. (x + r) % Q \in Int /\ s % Q = s
  <2>1. x + r \in Int
    BY <1>1
  <2> QED BY <2>1, ModType, ModSmall
<1> DEFINE z == (x + r) % Q
<1>11. EdValid(TotalR, s) <=> 8 * s = 8 * z
  BY <1>2, <1>3, <1>4, <1>6, <1>8, <1>9
<1>12. z \in Int /\ (Cong(s, x + r) <=> s = z)
  BY <1>10 DEF Cong
<1> HIDE DEF z
<1>13. 8 * s = 8 * z <=> s = z
  BY <1>1, <1>12
<1> QED BY <1>11, <1>12, <1>13 DEF x, r

\* The signature is valid if and only if no s_i is off.
LEMMA ValidIff ==
    ASSUME edRi \in [Signers -> Zq]
    PROVE  EdValid(TotalR, TotalS) <=> \A j \in Signers : edFault[j] # "s"
<1> DEFINE d == SumFunctionOnSet(Offs, Signers)
           a == Hash * EdKeyPoly[0] + SumQ(edRi)
<1>1. a \in Int
  <2> DEFINE k == EdKeyPoly[0]
             s == SumQ(edRi)
  <2>1. Hash \in Int /\ k \in Int /\ s \in Int
    BY HashType, WeightsAre, NoncesAre
  <2> HIDE DEF k, s
  <2>2. Hash * k \in Int
    BY <2>1
  <2>3. Hash * k + s \in Int
    BY <2>1, <2>2
  <2> QED BY <2>3 DEF k, s
<1>2. TotalS \in Zq /\ TotalS \in Int /\ Cong(TotalS, a + d) /\ d \in Int
  BY TotalSIs, SignersAre
<1>3. EdValid(TotalR, TotalS) <=> Cong(TotalS, a)
  BY <1>2, ValidIs
<1>4. IsFiniteSet(Signers) /\ 1 \in Nat /\ \A j \in Signers : Offs[j] \in 0 .. 1
  BY SignersAre DEF Offs
<1>5. d \in Nat /\ d <= Cardinality(Signers) * 1
  BY <1>4, SumBound
<1>6. d \in Zq
  <2>1. d <= Q - 1
    BY <1>5, SignersAre, QAssumption
  <2> QED BY <1>5, <2>1, QAssumption DEF Zq
<1>7. ASSUME \A j \in Signers : edFault[j] # "s" PROVE d = 0
  <2>1. IntOn(Offs, Signers)
    BY DEF Offs, IntOn
  <2>2. \A j \in Signers : Offs[j] = 0
    BY <1>7 DEF Offs
  <2>3. \A j \in Signers : Offs[j] = 0 * Offs[j]
    <3>1. 0 * 0 = 0
      OBVIOUS
    <3> QED BY <2>2, <3>1, Zenon
  <2>4. SumFunctionOnSet(Offs, Signers) = 0 * SumFunctionOnSet(Offs, Signers)
    BY <1>4, <2>1, <2>3, SumScale
  <2> QED BY <1>2, <2>4
<1>8. ASSUME NEW j \in Signers, edFault[j] = "s" PROVE d > 0
  <2> DEFINE M == Signers \ {j}
             e == SumFunctionOnSet(Offs, M)
  <2>1. IntOn(Offs, Signers) /\ Offs[j] = 1
    BY <1>8 DEF Offs, IntOn
  <2>2. d = Offs[j] + e
    BY <1>4, <2>1, SumRemove
  <2>3. IsFiniteSet(M) /\ \A i \in M : Offs[i] \in 0 .. 1
    BY <1>4, FS_Subset
  <2>4. e \in Nat
    BY <1>4, <2>3, SumBound
  <2> HIDE DEF d, e
  <2> QED BY <2>1, <2>2, <2>4
<1> HIDE DEF d, a
<1>9. ASSUME Cong(TotalS, a) PROVE d = 0
  <2>1. Cong(a + d, a)
    BY <1>2, <1>9, CgSym, CgTrans
  <2>2. Cong(a, a)
    BY DEF Cong
  <2>3. Cong((a + d) - a, a - a)
    BY <1>1, <1>2, <2>1, <2>2, CgMinus
  <2>4. (a + d) - a = d /\ a - a = 0
    BY <1>1, <1>2
  <2>5. d % Q = 0 % Q
    BY <2>3, <2>4 DEF Cong
  <2>6. d % Q = d /\ 0 % Q = 0
    BY <1>6, ModSmall, QAssumption
  <2> QED BY <2>5, <2>6
<1>10. ASSUME d = 0 PROVE Cong(TotalS, a)
  <2>1. a + d = a
    BY <1>1, <1>10
  <2> QED BY <1>2, <2>1
<1> QED BY <1>3, <1>5, <1>7, <1>8, <1>9, <1>10

-----------------------------------------------------------------------------
(* The invariant.                                                          *)

\* The values every variable takes.
EdType ==
    /\ edAt \in [Signers -> 0 .. 4]
    /\ edDone \in [Signers -> SUBSET (1 .. 4)]
    /\ edBad \in [Signers -> 0 .. 4]
    /\ edRi \in [Signers -> Zq]
    /\ edFault \in [Signers -> EdFaultKind]
    /\ edBigR \in [Signers -> Nat]
    /\ edCulprits \in [Signers -> SUBSET Signers]
    /\ edCrashed \in [Signers -> BOOLEAN]
    /\ edSig \in [Signers -> Zq \cup {EdUnset}]

\* Honest parties have no fault.
EdHonest == Signers \ EdFaulty
EdFaults == \A p \in EdHonest : edFault[p] = "none"

\* The lock step: a party is past a round only if everybody completed it, and
\* an error is the end of its party.
EdLock ==
    \A p \in Signers :
        /\ \A r \in edDone[p] : r <= edAt[p]
        /\ edBad[p] = 0 \/ (edBad[p] = edAt[p] /\ edAt[p] \notin edDone[p])
        /\ \A r \in 1 .. edAt[p] - 1 : \A q \in Signers : r \in edDone[q]

\* What completing or failing a round says about R, s and the messages received.
EdParty(p) ==
    /\ 3 \in edDone[p] => edBigR[p] = TotalR
    /\ edBad[p] # 0 => \E j \in Signers : edFault[j] \in {"decommit", "offcurve", "proof", "s"}
    /\ edSig[p] # EdUnset =>
          /\ edSig[p] = TotalS /\ 3 \in edDone[p]
          /\ \A j \in Signers : edFault[j] # "s"

EdRounds == \A p \in Signers : EdParty(p)

\* The inductive invariant.
EdInv == EdType /\ EdFaults /\ EdLock /\ EdRounds /\ EdBlameIsJust

LEMMA EdInitInv == EdInit => EdInv
<1> SUFFICES ASSUME EdInit PROVE EdInv
  OBVIOUS
<1>1. PICK f \in [EdFaulty -> EdFaultKind] :
          edFault = [p \in Signers |-> IF p \in EdFaulty THEN f[p] ELSE "none"]
  BY DEF EdInit
<1>2. edFault \in [Signers -> EdFaultKind] /\ EdFaults
  BY <1>1 DEF EdFaults, EdFaultKind, EdHonest
<1>3. \A p \in Signers : edAt[p] = 0 /\ edDone[p] = {} /\ edBad[p] = 0 /\ edSig[p] = EdUnset
  BY DEF EdInit, Ls!LSInit
<1>4. EdType
  <2>1. EdUnset \in Nat
    BY QAssumption DEF EdUnset
  <2>2. edRi \in [Signers -> Zq]
    BY EddsaAssumption DEF EdInit
  <2> QED BY <1>2, <2>1, <2>2 DEF EdInit, Ls!LSInit, EdType
<1>5. EdLock /\ EdRounds
  BY <1>3 DEF EdLock, EdRounds, EdParty
<1>6. EdBlameIsJust
  BY DEF EdInit, EdBlameIsJust
<1> QED BY <1>2, <1>4, <1>5, <1>6 DEF EdInv

\* A Start keeps the lock step.
LEMMA EdStart ==
    ASSUME EdType, EdLock, NEW p \in Signers, NEW good \in BOOLEAN,
           Ls!StartRound(p, good)
    PROVE  /\ edAt' \in [Signers -> 0 .. 4]
           /\ edDone' \in [Signers -> SUBSET (1 .. 4)]
           /\ edBad' \in [Signers -> 0 .. 4]
           /\ EdLock'
           /\ edAt[p] > 0 => \A q \in Signers : edAt[p] \in edDone[q]
           /\ edAt' = [edAt EXCEPT ![p] = edAt[p] + 1]
           /\ edDone' = [edDone EXCEPT ![p] = IF good THEN edDone[p] \cup {edAt[p] + 1} ELSE edDone[p]]
           /\ edBad' = [edBad EXCEPT ![p] = IF good THEN 0 ELSE edAt[p] + 1]
<1>1. edAt[p] \in 0 .. 3 /\ edDone[p] \in SUBSET (1 .. 4)
  BY EddsaAssumption DEF Ls!StartRound, EdType
<1>2. edAt[p] > 0 => \A q \in Signers : edAt[p] \in edDone[q]
  BY EddsaAssumption DEF Ls!StartRound, Ls!RoundComplete
<1>3. edBad[p] = 0 /\ edAt[p] + 1 \notin edDone[p]
  BY <1>1, <1>2 DEF EdLock
<1>4. /\ edAt' = [edAt EXCEPT ![p] = edAt[p] + 1]
      /\ edDone' = [edDone EXCEPT ![p] = IF good THEN edDone[p] \cup {edAt[p] + 1} ELSE edDone[p]]
      /\ edBad' = [edBad EXCEPT ![p] = IF good THEN 0 ELSE edAt[p] + 1]
  BY <1>3 DEF Ls!StartRound
<1>5. /\ edAt' \in [Signers -> 0 .. 4]
      /\ edDone' \in [Signers -> SUBSET (1 .. 4)]
      /\ edBad' \in [Signers -> 0 .. 4]
  BY <1>1, <1>4 DEF EdType
<1>6. \A q \in Signers : edDone[q] \subseteq edDone'[q]
  BY <1>4 DEF EdType
<1>7. EdLock'
  <2> SUFFICES ASSUME NEW q \in Signers
               PROVE  /\ \A r \in edDone'[q] : r <= edAt'[q]
                      /\ edBad'[q] = 0 \/ (edBad'[q] = edAt'[q] /\ edAt'[q] \notin edDone'[q])
                      /\ \A r \in 1 .. edAt'[q] - 1 : \A x \in Signers : r \in edDone'[x]
    BY DEF EdLock
  <2>1. CASE q = p
    <3>1. \A r \in edDone'[q] : r <= edAt'[q]
      BY <1>1, <1>4, <2>1 DEF EdLock, EdType
    <3>2. edBad'[q] = 0 \/ (edBad'[q] = edAt'[q] /\ edAt'[q] \notin edDone'[q])
      BY <1>3, <1>4, <2>1 DEF EdType
    <3>3. \A r \in 1 .. edAt'[q] - 1 : \A x \in Signers : r \in edDone'[x]
      BY <1>1, <1>2, <1>4, <1>6, <2>1 DEF EdLock, EdType
    <3> QED BY <3>1, <3>2, <3>3
  <2>2. CASE q # p
    BY <1>4, <1>6, <2>2 DEF EdLock, EdType
  <2> QED BY <2>1, <2>2
<1> QED BY <1>2, <1>4, <1>5, <1>7

\* R and s depend on the nonces and the faults only, which no step changes.
LEMMA EdFixed ==
    ASSUME edRi' = edRi, edFault' = edFault
    PROVE  TotalR' = TotalR /\ TotalS' = TotalS
BY DEF TotalR, TotalS, Hash, Offs, EdW

\* What remains to be shown of a step of p.
LEMMA EdStep ==
    ASSUME EdInv, NEW p \in Signers, NEW good \in BOOLEAN, Ls!StartRound(p, good),
           edRi' = edRi, edFault' = edFault,
           NEW R \in Nat, edBigR' = [edBigR EXCEPT ![p] = R],
           NEW C \in SUBSET Signers, edCulprits' = [edCulprits EXCEPT ![p] = C],
           NEW c \in BOOLEAN, edCrashed' = [edCrashed EXCEPT ![p] = c],
           NEW s \in Zq \cup {EdUnset}, edSig' = [edSig EXCEPT ![p] = s],
           EdParty(p)', C \subseteq EdFaulty,
           c => \E j \in EdFaulty \ {p} : edFault[j] = "offcurve"
    PROVE  EdInv'
<1>1. EdType /\ EdFaults /\ EdLock /\ EdRounds /\ EdBlameIsJust
  BY DEF EdInv
<1>2. EdType'
  BY <1>1, EdStart DEF EdType
<1>3. EdFaults' /\ EdLock'
  BY <1>1, EdStart DEF EdFaults
<1>4. ASSUME NEW q \in Signers \ {p} PROVE EdParty(q)'
  <2>1. edDone'[q] = edDone[q] /\ edBad'[q] = edBad[q]
    BY <1>1, EdStart DEF EdType
  <2>2. edBigR'[q] = edBigR[q] /\ edSig'[q] = edSig[q]
    BY <1>1 DEF EdType
  <2>3. EdParty(q)
    BY <1>1 DEF EdRounds
  <2> QED BY <2>1, <2>2, <2>3, EdFixed DEF EdParty
<1>5. EdRounds'
  BY <1>4 DEF EdRounds
<1>6. EdBlameIsJust'
  <2> SUFFICES ASSUME NEW q \in Signers
               PROVE  /\ edCulprits'[q] \subseteq EdFaulty
                      /\ edCrashed'[q] => \E j \in EdFaulty \ {q} : edFault[j] = "offcurve"
    BY DEF EdBlameIsJust
  <2>1. CASE q = p
    BY <1>1, <2>1 DEF EdType
  <2>2. CASE q # p
    <3>1. edCulprits'[q] = edCulprits[q] /\ edCrashed'[q] = edCrashed[q]
      BY <1>1, <2>2 DEF EdType
    <3> QED BY <1>1, <3>1 DEF EdBlameIsJust
  <2> QED BY <2>1, <2>2
<1> QED BY <1>2, <1>3, <1>5, <1>6 DEF EdInv

\* What does not change, in the form EdStep asks for.
LEMMA EdSame ==
    ASSUME EdInv, NEW p \in Signers
    PROVE  /\ edBigR = [edBigR EXCEPT ![p] = edBigR[p]] /\ edBigR[p] \in Nat
           /\ edCulprits = [edCulprits EXCEPT ![p] = edCulprits[p]] /\ edCulprits[p] \in SUBSET Signers
           /\ edCulprits[p] \subseteq EdFaulty
           /\ edCrashed = [edCrashed EXCEPT ![p] = edCrashed[p]] /\ edCrashed[p] \in BOOLEAN
           /\ edCrashed[p] => \E j \in EdFaulty \ {p} : edFault[j] = "offcurve"
           /\ edSig = [edSig EXCEPT ![p] = edSig[p]] /\ edSig[p] \in Zq \cup {EdUnset}
BY DEF EdInv, EdType, EdBlameIsJust

\* The party that stops p, if there is one.
LEMMA FirstStopIs ==
    ASSUME EdInv, NEW p \in Signers, Stops(p) # {}
    PROVE  /\ FirstStop(p) \in Stops(p)
           /\ \A j \in Stops(p) : j \in EdFaulty \ {p}
<1>1. Stops(p) \in SUBSET Nat
  BY SignersAre DEF Stops
<1>2. \E j \in Stops(p) : \A i \in Stops(p) : j <= i
  BY <1>1, Least
<1>3. FirstStop(p) \in Stops(p)
  BY <1>2, Zenon DEF FirstStop
<1>4. ASSUME NEW j \in Stops(p) PROVE j \in EdFaulty \ {p}
  BY DEF Stops, EdInv, EdFaults, EdHonest
<1> QED BY <1>3, <1>4

\* Rounds 1 and 2, which only send.
LEMMA EdEarly ==
    ASSUME EdInv, NEW p \in Signers, edAt[p] \in {0, 1}, Ls!StartRound(p, TRUE),
           UNCHANGED edState
    PROVE  EdInv'
<1>1. PICK good \in BOOLEAN : good = TRUE /\ Ls!StartRound(p, good)
  BY Zenon
<1>2. EdType /\ EdLock /\ EdParty(p)
  BY DEF EdInv, EdRounds
<1>3. UNCHANGED <<edRi, edFault, edBigR, edCulprits, edCrashed, edSig>>
  BY DEF edState
<1>4. edDone'[p] = edDone[p] \cup {edAt[p] + 1} /\ edBad'[p] = 0
  <2>1. /\ edDone' = [edDone EXCEPT ![p] = IF good THEN edDone[p] \cup {edAt[p] + 1} ELSE edDone[p]]
        /\ edBad' = [edBad EXCEPT ![p] = IF good THEN 0 ELSE edAt[p] + 1]
    BY <1>1, <1>2, EdStart
  <2> QED BY <1>1, <1>2, <2>1 DEF EdType
<1>5. EdParty(p)'
  <2>1. 3 \in edDone'[p] => 3 \in edDone[p]
    BY <1>4
  <2>2. 3 \in edDone[p] => 3 \in edDone'[p]
    BY <1>4
  <2> QED BY <1>2, <1>3, <1>4, <2>1, <2>2, EdFixed DEF EdParty
<1> QED BY <1>1, <1>3, <1>5, EdSame, EdStep

\* Round 3, in which p computes R unless a message stops it.
LEMMA EdRound3Inv == ASSUME EdInv, NEW p \in Signers, EdRound3(p) PROVE EdInv'
<1> DEFINE good == Stops(p) = {}
           nil == ~good /\ edFault[FirstStop(p)] = "offcurve"
           R == IF good THEN ComputedR(p) ELSE edBigR[p]
           C == IF good THEN edCulprits[p] ELSE Blamed(p)
<1>1. /\ edAt[p] = 2 /\ Ls!StartRound(p, good) /\ good \in BOOLEAN /\ nil \in BOOLEAN
      /\ edBigR' = [edBigR EXCEPT ![p] = R]
      /\ edCrashed' = [edCrashed EXCEPT ![p] = nil]
      /\ edCulprits' = [edCulprits EXCEPT ![p] = C]
      /\ UNCHANGED <<edRi, edFault, edSig>>
  BY DEF EdRound3
<1>2. EdType /\ EdLock /\ EdParty(p) /\ edRi \in [Signers -> Zq]
  BY DEF EdInv, EdRounds, EdType
<1>3. good => R = TotalR
  BY <1>2, ComputedRIs
<1>4. R \in Nat
  <2>1. TotalR \in Nat
    BY <1>2, NoncesAre DEF TotalR
  <2> QED BY <1>3, <2>1, EdSame
<1>5. C \subseteq EdFaulty /\ C \in SUBSET Signers
  BY EdSame, FirstStopIs, SignersAre DEF Blamed
<1>6. nil => \E j \in EdFaulty \ {p} : edFault[j] = "offcurve"
  BY FirstStopIs
<1>7. /\ edDone'[p] = IF good THEN edDone[p] \cup {edAt[p] + 1} ELSE edDone[p]
      /\ edBad'[p] = IF good THEN 0 ELSE edAt[p] + 1
  <2>1. /\ edDone' = [edDone EXCEPT ![p] = IF good THEN edDone[p] \cup {edAt[p] + 1} ELSE edDone[p]]
        /\ edBad' = [edBad EXCEPT ![p] = IF good THEN 0 ELSE edAt[p] + 1]
    <3> HIDE DEF good
    <3> QED BY <1>1, <1>2, EdStart
  <2> HIDE DEF good
  <2> QED BY <1>2, <2>1 DEF EdType
<1>8. ~good => \E j \in Signers : edFault[j] \in {"decommit", "offcurve", "proof", "s"}
  BY DEF Stops
<1>9. edBigR'[p] = R
  <2> HIDE DEF R
  <2> QED BY <1>1, <1>2 DEF EdType
<1>10. 3 \notin edDone[p]
  BY <1>1, <1>2 DEF EdLock
<1> HIDE DEF good, nil, R, C
<1>11. EdParty(p)'
  <2>1. 3 \in edDone'[p] => edBigR'[p] = TotalR
    BY <1>3, <1>7, <1>9, <1>10
  <2>2. edBad'[p] # 0 => \E j \in Signers : edFault[j] \in {"decommit", "offcurve", "proof", "s"}
    BY <1>7, <1>8
  <2>3. edSig'[p] = EdUnset
    BY <1>1, <1>2, <1>10 DEF EdParty
  <2> QED BY <1>1, <2>1, <2>2, <2>3, EdFixed DEF EdParty
<1> QED BY <1>1, <1>4, <1>5, <1>6, <1>11, EdSame, EdStep

\* The finalization: everybody has the same R, and so everybody adds the same s.
LEMMA EdFinalizationInv ==
    ASSUME EdInv, NEW p \in Signers, EdFinalization(p) PROVE EdInv'
<1> DEFINE v == SumQ([j \in Signers |-> EdSI(j)])
           good == EdValid(edBigR[p], v)
           s == IF good THEN v ELSE edSig[p]
<1>1. /\ edAt[p] = 3 /\ Ls!StartRound(p, good) /\ good \in BOOLEAN
      /\ edSig' = [edSig EXCEPT ![p] = s]
      /\ UNCHANGED <<edRi, edFault, edBigR, edCulprits, edCrashed>>
  BY DEF EdFinalization, EdValid
<1>2. EdType /\ EdLock /\ EdRounds /\ EdParty(p) /\ edRi \in [Signers -> Zq]
  BY DEF EdInv, EdRounds, EdType
<1>3. \A j \in Signers : edBigR[j] = TotalR /\ 3 \in edDone[j]
  <2>1. \A j \in Signers : 3 \in edDone[j]
    <3> HIDE DEF good
    <3>1. edAt[p] > 0 => \A j \in Signers : edAt[p] \in edDone[j]
      BY <1>1, <1>2, EdStart
    <3> QED BY <1>1, <3>1
  <2> QED BY <1>2, <2>1 DEF EdRounds, EdParty
<1>4. v = TotalS
  <2>1. \A j \in Signers : EdSI(j) = (Hash * EdW[j] + edRi[j] + Offs[j]) % Q
    BY <1>3 DEF EdSI, Hash, Offs
  <2>2. [j \in Signers |-> EdSI(j)] = [j \in Signers |-> (Hash * EdW[j] + edRi[j] + Offs[j]) % Q]
    BY <2>1, Zenon
  <2> QED BY <2>2 DEF TotalS
<1>5. good <=> \A j \in Signers : edFault[j] # "s"
  <2>1. good <=> EdValid(TotalR, TotalS)
    BY <1>3, <1>4
  <2> HIDE DEF good
  <2> QED BY <1>2, <2>1, ValidIff
<1>6. s \in Zq \cup {EdUnset} /\ (good => s = TotalS)
  <2>1. TotalS \in Zq
    BY <1>2, TotalSIs
  <2> HIDE DEF v, good
  <2> QED BY <1>4, <2>1, EdSame
<1>7. ~good => s = edSig[p]
  OBVIOUS
<1> HIDE DEF good, s, v
<1>8. /\ edDone'[p] = IF good THEN edDone[p] \cup {edAt[p] + 1} ELSE edDone[p]
      /\ edBad'[p] = IF good THEN 0 ELSE edAt[p] + 1
  <2>1. /\ edDone' = [edDone EXCEPT ![p] = IF good THEN edDone[p] \cup {edAt[p] + 1} ELSE edDone[p]]
        /\ edBad' = [edBad EXCEPT ![p] = IF good THEN 0 ELSE edAt[p] + 1]
    BY <1>1, <1>2, EdStart
  <2> QED BY <1>2, <2>1 DEF EdType
<1>9. edSig'[p] = s
  BY <1>1, <1>2 DEF EdType
<1>10. EdParty(p)'
  <2>1. edBigR'[p] = TotalR /\ 3 \in edDone'[p]
    BY <1>1, <1>3, <1>8
  <2>2. edBad'[p] # 0 => \E j \in Signers : edFault[j] \in {"decommit", "offcurve", "proof", "s"}
    BY <1>5, <1>8
  <2>3. edSig'[p] # EdUnset => edSig'[p] = TotalS /\ \A j \in Signers : edFault[j] # "s"
    BY <1>2, <1>5, <1>6, <1>7, <1>9 DEF EdParty
  <2> QED BY <1>1, <2>1, <2>2, <2>3, EdFixed DEF EdParty
<1>11. /\ edBigR' = [edBigR EXCEPT ![p] = edBigR[p]] /\ edBigR[p] \in Nat
       /\ edCulprits' = [edCulprits EXCEPT ![p] = edCulprits[p]] /\ edCulprits[p] \in SUBSET Signers
       /\ edCulprits[p] \subseteq EdFaulty
       /\ edCrashed' = [edCrashed EXCEPT ![p] = edCrashed[p]] /\ edCrashed[p] \in BOOLEAN
       /\ edCrashed[p] => \E j \in EdFaulty \ {p} : edFault[j] = "offcurve"
  BY <1>1, EdSame
<1> QED BY <1>1, <1>6, <1>10, <1>11, EdStep

LEMMA EdNextInv == EdInv /\ [EdNext]_edVars => EdInv'
<1> SUFFICES ASSUME EdInv, [EdNext]_edVars PROVE EdInv'
  OBVIOUS
<1>1. CASE UNCHANGED edVars
  <2>1. UNCHANGED <<edAt, edDone, edBad, edRi, edFault, edBigR, edCulprits, edCrashed, edSig>>
    BY <1>1 DEF edVars, edState
  <2>2. EdType' /\ EdFaults' /\ EdLock' /\ EdBlameIsJust'
    BY <2>1 DEF EdInv, EdType, EdFaults, EdLock, EdBlameIsJust
  <2>3. EdRounds'
    BY <2>1, EdFixed DEF EdInv, EdRounds, EdParty
  <2> QED BY <2>2, <2>3 DEF EdInv
<1>2. ASSUME NEW p \in Signers, EdRound1(p) PROVE EdInv'
  <2>1. edAt[p] \in {0, 1} /\ Ls!StartRound(p, TRUE) /\ UNCHANGED edState
    BY <1>2, Zenon DEF EdRound1
  <2> QED BY <2>1, EdEarly
<1>3. ASSUME NEW p \in Signers, EdRound2(p) PROVE EdInv'
  <2>1. edAt[p] \in {0, 1} /\ Ls!StartRound(p, TRUE) /\ UNCHANGED edState
    BY <1>3, Zenon DEF EdRound2
  <2> QED BY <2>1, EdEarly
<1>4. ASSUME NEW p \in Signers, EdRound3(p) PROVE EdInv'
  BY <1>4, EdRound3Inv
<1>5. ASSUME NEW p \in Signers, EdFinalization(p) PROVE EdInv'
  BY <1>5, EdFinalizationInv
<1> QED BY <1>1, <1>2, <1>3, <1>4, <1>5 DEF EdNext

-----------------------------------------------------------------------------
(* The theorems.                                                           *)

\* The inductive invariant of threshold EdDSA signing: the types, the lock step,
\* one R and one s for everybody (eddsa/signing/round_3.go, finalize.go).
THEOREM EddsaInvariant == EdSpec => []EdInv
BY EdInitInv, EdNextInv, PTL DEF EdSpec

\* What the invariant says about errors, signatures and culprits.
LEMMA EdInvSays ==
    EdInv => EdHonestRunSigns /\ EdOneSignature /\ EdBlameIsJust
<1>1. EdInv => EdHonestRunSigns
  BY DEF EdInv, EdRounds, EdParty, EdHonestRunSigns
<1>2. EdInv => EdOneSignature
  <2> SUFFICES ASSUME EdInv, NEW p \in Signers, NEW q \in Signers, edSig[p] # EdUnset, edSig[q] # EdUnset
               PROVE  /\ edSig[p] = edSig[q] /\ edBigR[p] = edBigR[q]
                      /\ EdValid(edBigR[p], edSig[p])
                      /\ \A j \in Signers : edFault[j] # "s"
    BY DEF EdOneSignature
  <2>1. /\ edSig[p] = TotalS /\ edSig[q] = TotalS /\ edBigR[p] = TotalR /\ edBigR[q] = TotalR
        /\ \A j \in Signers : edFault[j] # "s"
    BY DEF EdInv, EdRounds, EdParty
  <2>2. EdValid(TotalR, TotalS)
    BY <2>1, ValidIff DEF EdInv, EdType
  <2> QED BY <2>1, <2>2
<1>3. EdInv => EdBlameIsJust
  BY DEF EdInv
<1> QED BY <1>1, <1>2, <1>3

\* If no party sends a wrong value no Start returns an error, and a component of
\* small order changes nothing, since 8^{-1} * 8 clears it (round_3.go:53).
THEOREM EddsaHonestRunSigns == EdSpec => []EdHonestRunSigns
BY EdInvSays, EddsaInvariant, PTL

\* All the signatures delivered are the same, they are valid, and a wrong s_i keeps
\* every party from delivering one (finalize.go).
THEOREM EddsaOneSignature == EdSpec => []EdOneSignature
BY EdInvSays, EddsaInvariant, PTL

\* No party blames one that ran the code, and a party panics only where a peer
\* opened its commitment to coordinates that are not on the curve (round_3.go).
THEOREM EddsaBlameIsJust == EdSpec => []EdBlameIsJust
BY EdInvSays, EddsaInvariant, PTL
=============================================================================
