------------------------- MODULE EcdsaSigningProofs -------------------------
(***************************************************************************)
(* Proofs about EcdsaSigning, for every set of signers, group order, key,  *)
(* choice of nonces and masks, message and set of faulty parties.          *)
(***************************************************************************)
EXTENDS EcdsaSigning, FeldmanVssProofs

-----------------------------------------------------------------------------
(* Shares of a product.  Party i holds a_i and b_i; every pair (i, j) turns *)
(* a_i b_j into two shares, a_i b_j + m_ij at i and -m_ij at j, for any    *)
(* masks m.                                                                *)

\* What i gets from the other parties, and i's share of the product.
Row(a, b, m, S, i) == [j \in S \ {i} |-> (a[i] * b[j]) + (m[i][j] - m[j][i])]
Cross(a, b, m, S) == [i \in S |-> (a[i] * b[i]) + SumFunctionOnSet(Row(a, b, m, S, i), S \ {i})]

Matrix(m, S) == \A i, j \in S : m[i][j] \in Int

LEMMA CrossInt ==
    ASSUME NEW S, IsFiniteSet(S), NEW a, IntOn(a, S), NEW b, IntOn(b, S), NEW m, Matrix(m, S)
    PROVE  /\ IntOn(Cross(a, b, m, S), S)
           /\ \A i \in S : IntOn(Row(a, b, m, S, i), S \ {i})
           /\ \A i \in S : Cross(a, b, m, S)[i] =
                   (a[i] * b[i]) + SumFunctionOnSet(Row(a, b, m, S, i), S \ {i})
<1>1. \A i, j \in S : (a[i] * b[j]) + (m[i][j] - m[j][i]) \in Int /\ a[i] * b[j] \in Int
  <2> SUFFICES ASSUME NEW i \in S, NEW j \in S
               PROVE  (a[i] * b[j]) + (m[i][j] - m[j][i]) \in Int /\ a[i] * b[j] \in Int
    OBVIOUS
  <2>1. a[i] \in Int /\ b[j] \in Int /\ m[i][j] \in Int /\ m[j][i] \in Int
    BY DEF IntOn, Matrix
  <2> QED BY <2>1
<1>2. \A i \in S : IntOn(Row(a, b, m, S, i), S \ {i})
  BY <1>1 DEF Row, IntOn
<1>3. \A i \in S : IsFiniteSet(S \ {i})
  BY FS_Subset
<1>4. \A i \in S : SumFunctionOnSet(Row(a, b, m, S, i), S \ {i}) \in Int
  BY <1>2, <1>3, SumType
<1>5. \A i \in S : Cross(a, b, m, S)[i] =
                   (a[i] * b[i]) + SumFunctionOnSet(Row(a, b, m, S, i), S \ {i})
  BY DEF Cross
<1>6. IntOn(Cross(a, b, m, S), S)
  <2> SUFFICES ASSUME NEW i \in S PROVE Cross(a, b, m, S)[i] \in Int
    BY DEF IntOn
  <2> DEFINE x == a[i] * b[i]
             y == SumFunctionOnSet(Row(a, b, m, S, i), S \ {i})
  <2>1. x \in Int /\ y \in Int /\ Cross(a, b, m, S)[i] = x + y
    BY <1>1, <1>4, <1>5
  <2> HIDE DEF x, y
  <2> QED BY <2>1
<1> QED BY <1>2, <1>5, <1>6

\* The whole rows of the matrix of products, with the diagonal.
Full(a, b, m, S) == [i \in S |-> [j \in S |-> (a[i] * b[j]) + (m[i][j] - m[j][i])]]
Transpose(m, S) == [i \in S |-> [j \in S |-> m[j][i]]]

LEMMA CrossIsFull ==
    ASSUME NEW S, IsFiniteSet(S), NEW a, IntOn(a, S), NEW b, IntOn(b, S), NEW m, Matrix(m, S),
           NEW i \in S
    PROVE  Cross(a, b, m, S)[i] = RowSums(Full(a, b, m, S), S, S)[i]
<1> DEFINE r == Full(a, b, m, S)[i]
           q == Row(a, b, m, S, i)
           D == S \ {i}
<1>1. \A j \in S : r[j] = (a[i] * b[j]) + (m[i][j] - m[j][i])
  BY DEF Full
<1>2. \A j \in D : q[j] = r[j]
  BY <1>1 DEF Row
<1>3. IntOn(q, D) /\ IsFiniteSet(D) /\ Cross(a, b, m, S)[i] = (a[i] * b[i]) + SumFunctionOnSet(q, D)
  <2>1. IsFiniteSet(D)
    BY FS_Subset
  <2>2. IntOn(q, D)
    BY CrossInt
  <2>3. Cross(a, b, m, S)[i] = (a[i] * b[i]) + SumFunctionOnSet(q, D)
    BY CrossInt
  <2> QED BY <2>1, <2>2, <2>3
<1>4. RowSums(Full(a, b, m, S), S, S)[i] = SumFunctionOnSet(r, S)
  BY DEF RowSums
<1>5. a[i] \in Int /\ b[i] \in Int /\ m[i][i] \in Int
  BY DEF IntOn, Matrix
<1>6. r[i] = a[i] * b[i] /\ r[i] \in Int
  BY <1>1, <1>5
<1> HIDE DEF r, q, D
<1>7. IntOn(r, S)
  BY <1>2, <1>3, <1>6 DEF IntOn, D
<1>8. SumFunctionOnSet(r, S) = r[i] + SumFunctionOnSet(r, D)
  BY <1>7, SumRemove DEF D
<1>9. SumFunctionOnSet(q, D) = SumFunctionOnSet(r, D)
  BY <1>2, <1>3, SumExt
<1> QED BY <1>3, <1>4, <1>6, <1>8, <1>9

\* The shares add up to the product of the sums.
LEMMA SharesOfProduct ==
    ASSUME NEW S, IsFiniteSet(S), NEW a, IntOn(a, S), NEW b, IntOn(b, S), NEW m, Matrix(m, S)
    PROVE  SumFunctionOnSet(Cross(a, b, m, S), S) = SumFunctionOnSet(a, S) * SumFunctionOnSet(b, S)
<1> DEFINE c == Cross(a, b, m, S)
           n == Transpose(m, S)
           f == Full(a, b, m, S)
           rm == RowSums(m, S, S)
           rn == RowSums(n, S, S)
           A == SumFunctionOnSet(a, S)
           B == SumFunctionOnSet(b, S)
           ab == [i \in S |-> B * a[i]]
           u == [i \in S |-> ab[i] + rm[i]]
<1>0. IntOn(c, S) /\ A \in Int /\ B \in Int
  BY CrossInt, SumType
<1>1. Matrix(n, S) /\ \A i, j \in S : n[j][i] = m[i][j]
  BY DEF Matrix, Transpose
<1>2. SumFunctionOnSet(rm, S) = SumFunctionOnSet(rn, S)
  <2> HIDE DEF n
  <2> QED BY <1>1, SumExchange DEF Matrix
<1>3. IntOn(rm, S) /\ IntOn(rn, S)
  <2>1. \A i \in S : IntOn(m[i], S) /\ IntOn(n[i], S)
    BY <1>1 DEF Matrix, IntOn
  <2>2. \A i \in S : SumFunctionOnSet(m[i], S) \in Int /\ SumFunctionOnSet(n[i], S) \in Int
    BY <2>1, SumType
  <2> QED BY <2>2 DEF RowSums, IntOn
<1>4. \A i \in S : c[i] + rn[i] = u[i]
  <2> TAKE i \in S
  <2> DEFINE sc == [j \in S |-> a[i] * b[j]]
             mi == m[i]
             ni == n[i]
             fi == f[i]
             x == [j \in S |-> sc[j] + mi[j]]
  <2>1. IntOn(sc, S) /\ (\A j \in S : sc[j] = a[i] * b[j]) /\ a[i] \in Int /\ b[i] \in Int
    <3>1. \A j \in S : a[i] \in Int /\ b[j] \in Int
      BY DEF IntOn
    <3>2. \A j \in S : a[i] * b[j] \in Int
      BY <3>1
    <3> QED BY <3>1, <3>2 DEF IntOn
  <2>2. IntOn(mi, S) /\ IntOn(ni, S)
    BY <1>1 DEF Matrix, IntOn
  <2>3. \A j \in S : fi[j] = sc[j] + (mi[j] - ni[j])
    BY <1>1 DEF Full, Transpose
  <2>4. c[i] = SumFunctionOnSet(fi, S)
    BY CrossIsFull DEF RowSums
  <2>5. rm[i] = SumFunctionOnSet(mi, S) /\ rn[i] = SumFunctionOnSet(ni, S)
    BY DEF RowSums
  <2>6. \A j \in S : x[j] = sc[j] + mi[j]
    OBVIOUS
  <2>7. u[i] = (B * a[i]) + rm[i]
    OBVIOUS
  <2> HIDE DEF sc, mi, ni, fi, x, c, rm, rn, u, B
  <2>8. IntOn(fi, S) /\ \A j \in S : x[j] = fi[j] + ni[j]
    <3>1. \A j \in S : sc[j] \in Int /\ mi[j] \in Int /\ ni[j] \in Int
      BY <2>1, <2>2 DEF IntOn
    <3> QED BY <2>3, <2>6, <3>1 DEF IntOn
  <2>9. SumFunctionOnSet(x, S) = SumFunctionOnSet(sc, S) + SumFunctionOnSet(mi, S)
    BY <2>1, <2>2, <2>6, SumPlus
  <2>10. SumFunctionOnSet(x, S) = SumFunctionOnSet(fi, S) + SumFunctionOnSet(ni, S)
    BY <2>2, <2>8, SumPlus
  <2>11. SumFunctionOnSet(sc, S) = a[i] * SumFunctionOnSet(b, S)
    BY <2>1, SumScale
  <2>12. a[i] * B = B * a[i]
    BY <1>0, <2>1
  <2> QED BY <2>4, <2>5, <2>7, <2>9, <2>10, <2>11, <2>12 DEF B
<1>5. IntOn(ab, S) /\ (\A i \in S : ab[i] = B * a[i]) /\ (\A i \in S : u[i] = ab[i] + rm[i])
  <2>1. \A i \in S : a[i] \in Int /\ ab[i] = B * a[i]
    BY DEF IntOn
  <2> HIDE DEF B
  <2>2. \A i \in S : B * a[i] \in Int
    BY <1>0, <2>1
  <2> QED BY <2>1, <2>2 DEF IntOn
<1> HIDE DEF c, rm, rn, u, ab, A, B
<1>6. SumFunctionOnSet(u, S) = SumFunctionOnSet(ab, S) + SumFunctionOnSet(rm, S)
  BY <1>3, <1>5, SumPlus
<1>7. SumFunctionOnSet(u, S) = SumFunctionOnSet(c, S) + SumFunctionOnSet(rn, S)
  BY <1>0, <1>3, <1>4, SumPlus
<1>8. SumFunctionOnSet(ab, S) = B * A
  BY <1>0, <1>5, SumScale DEF A
<1>9. SumFunctionOnSet(c, S) \in Int /\ SumFunctionOnSet(rm, S) \in Int
  BY <1>0, <1>3, SumType
<1>10. SumFunctionOnSet(ab, S) \in Int /\ SumFunctionOnSet(rn, S) \in Int
  BY <1>3, <1>5, SumType
<1>11. SumFunctionOnSet(c, S) = SumFunctionOnSet(ab, S)
  BY <1>2, <1>6, <1>7, <1>9, <1>10
<1>12. B * A = A * B
  BY <1>0
<1> QED BY <1>8, <1>11, <1>12 DEF c, A, B

\* The same mod Q, with the sum of the row computed mod Q.
LEMMA CrossMod ==
    ASSUME NEW S, IsFiniteSet(S), NEW a, IntOn(a, S), NEW b, IntOn(b, S), NEW m, Matrix(m, S),
           NEW i \in S, NEW r, DOMAIN r = S \ {i}, IntOn(r, S \ {i}),
           \A j \in S \ {i} : Cong(r[j], Row(a, b, m, S, i)[j])
    PROVE  Cong((a[i] * b[i]) + SumQ(r), Cross(a, b, m, S)[i])
<1> DEFINE D == S \ {i}
           q == Row(a, b, m, S, i)
           x == SumFunctionOnSet(r, D)
           y == SumFunctionOnSet(q, D)
           ab == a[i] * b[i]
<1>1. IsFiniteSet(D) /\ IntOn(q, D) /\ Cross(a, b, m, S)[i] = ab + y
  <2>1. IsFiniteSet(D)
    BY FS_Subset
  <2>2. IntOn(q, D)
    BY CrossInt
  <2>3. Cross(a, b, m, S)[i] = ab + y
    BY CrossInt
  <2> QED BY <2>1, <2>2, <2>3
<1>2. a[i] \in Int /\ b[i] \in Int
  BY DEF IntOn
<1>2a. ab \in Int
  BY <1>2
<1>3. SumQ(r) = x % Q
  BY SumQDef
<1>4. \A j \in D : r[j] % Q = q[j] % Q
  BY DEF Cong
<1>4a. DOMAIN r = D /\ IntOn(r, D)
  OBVIOUS
<1> HIDE DEF ab, q, D
<1>5. x \in Int /\ y \in Int /\ x % Q = y % Q
  BY <1>1, <1>4, <1>4a, SumType, SumCong
<1> HIDE DEF x, y
<1> DEFINE z == x % Q
<1>6. z \in Int /\ Cong(z, y) /\ Cong(ab, ab)
  BY <1>5, ModMod, ModType DEF Cong
<1> HIDE DEF z
<1>7. Cong(ab + z, ab + y)
  BY <1>2a, <1>5, <1>6, CgPlus
<1> QED BY <1>1, <1>3, <1>7 DEF ab, q, z, Cong

-----------------------------------------------------------------------------
(* The numbers the parties compute.                                        *)

LEMMA Signers ==
    /\ IsFiniteSet(Members) /\ Members \subseteq Nat /\ Cardinality(Members) \in Nat
    /\ Degree \in Nat /\ Degree < Cardinality(Members) /\ Zq \subseteq Int
<1>1. Cardinality(Members) \in Nat /\ IsFiniteSet(Members) /\ Members = 0 .. Cardinality(Members) - 1
  BY SigningAssumption, FS_CardinalityType
<1>2. Cardinality(Members) >= 1
  BY SigningAssumption, QAssumption
<1>3. Zq \subseteq Int
  BY QAssumption DEF Zq
<1> QED BY <1>1, <1>2, <1>3 DEF Degree

\* The keys are different mod Q, and the weights add up to the key.
LEMMA WeightsAre ==
    /\ IntOn(W, Members) /\ \A p \in Members : W[p] \in Zq
    /\ SumQ(W) = KeyPoly[0] /\ KeyPoly[0] \in Zq /\ KeyPoly[0] \in Int
<1> DEFINE x == [p \in Members |-> evaluatePolynomial(Degree, KeyPoly, Keys[p])]
           c == Cardinality(Members)
<1>1. KeyPoly \in [0 .. Degree -> Zq] /\ IntOn(KeyPoly, 0 .. Degree) /\ 0 \in 0 .. Degree
  <2>1. KeyPoly \in [0 .. Degree -> Zq]
    BY SigningAssumption DEF Degree
  <2>2. 0 \in 0 .. Degree
    BY Signers
  <2> QED BY <2>1, <2>2, Signers DEF IntOn
<1>2. \A p \in Members : Keys[p] \in Int /\ Keys[p] = p + 1 /\ p \in 0 .. c - 1
  BY SigningAssumption, Signers DEF Keys
<1>3. Distinct(Keys, Members)
  <2>1. \A p \in Members : Keys[p] \in Zq
    <3>1. c \in 1 .. Q - 1
      BY SigningAssumption
    <3> SUFFICES ASSUME NEW p \in Members PROVE Keys[p] \in Zq
      OBVIOUS
    <3>2. Keys[p] = p + 1 /\ p \in 0 .. c - 1
      BY <1>2
    <3> HIDE DEF c
    <3> QED BY <3>1, <3>2, QAssumption DEF Zq
  <2>2. \A p \in Members : Keys[p] % Q = p + 1
    BY <1>2, <2>1, ModSmall
  <2>3. \A i, j \in Members : i # j => i + 1 # j + 1
    BY Signers
  <2>4. \A i, j \in Members : i # j => Keys[i] % Q # Keys[j] % Q
    BY <2>2, <2>3
  <2> QED BY <1>2, <2>4 DEF Distinct, IntOn
<1>4. \A p \in Members : x[p] = evaluatePolynomial(Degree, KeyPoly, Keys[p]) /\ x[p] \in Int
  BY <1>1, <1>2, Signers, EvalType
<1>5. W = [p \in Members |-> SigningWeight(p, Members, Keys, x[p])]
  BY DEF W
<1> HIDE DEF x
<1>6. SumQ(W) = KeyPoly[0] % Q
  <2>1. SumQ([p \in Members |-> SigningWeight(p, Members, Keys, x[p])]) = KeyPoly[0] % Q
    <3>1. Degree \in Nat /\ IsFiniteSet(Members) /\ Degree < Cardinality(Members)
      BY Signers
    <3>2. \A p \in Members : x[p] = evaluatePolynomial(Degree, KeyPoly, Keys[p])
      BY <1>4
    <3> QED BY <1>1, <1>3, <3>1, <3>2, WeightsRecover
  <2> QED BY <1>5, <2>1
<1>7. \A p \in Members : W[p] \in Zq
  <2> SUFFICES ASSUME NEW p \in Members PROVE W[p] \in Zq
    OBVIOUS
  <2>1. Lambda(p, Members, Keys) \in Int
    BY <1>3, Signers, LambdaIs
  <2>2. W[p] = (x[p] * Lambda(p, Members, Keys)) % Q
    BY <1>5 DEF SigningWeight
  <2> DEFINE y == x[p] * Lambda(p, Members, Keys)
  <2>3. y \in Int
    BY <1>4, <2>1
  <2> HIDE DEF y
  <2> QED BY <2>2, <2>3, ModType DEF y
<1> QED BY <1>1, <1>6, <1>7, Signers, ModSmall DEF IntOn

\* What the parties sampled, and the masks as matrices.
LEMMA Sampled ==
    ASSUME nonce \in Nonces
    PROVE  /\ IntOn(nonce.k, Members) /\ IntOn(nonce.gamma, Members)
           /\ \A i \in Members : nonce.k[i] \in Zq /\ nonce.gamma[i] \in Zq
<1>1. nonce \in [k : [Members -> Zq \ {0}], gamma : [Members -> Zq \ {0}]]
  BY SigningAssumption
<1>2. nonce.k \in [Members -> Zq \ {0}] /\ nonce.gamma \in [Members -> Zq \ {0}]
  BY <1>1
<1> QED BY <1>2, Signers DEF IntOn

Masks(m) == [i \in Members |-> [j \in Members |-> m[<<i, j>>]]]
Revealed == [i \in Members |-> [j \in Members |-> MuRevealed(i, j)]]

LEMMA MasksAre ==
    /\ \A i, j \in Members : /\ Masks(Mask)[i][j] = Mask[<<i, j>>] /\ Mask[<<i, j>>] \in Int
                             /\ Masks(MaskWC)[i][j] = MaskWC[<<i, j>>] /\ MaskWC[<<i, j>>] \in Int
    /\ Matrix(Masks(Mask), Members) /\ Matrix(Masks(MaskWC), Members)
<1>1. \A i, j \in Members : Mask[<<i, j>>] \in Zq /\ MaskWC[<<i, j>>] \in Zq
  BY SigningAssumption
<1>2. \A i, j \in Members : /\ Masks(Mask)[i][j] = Mask[<<i, j>>]
                            /\ Masks(MaskWC)[i][j] = MaskWC[<<i, j>>]
  BY DEF Masks
<1> QED BY <1>1, <1>2, Signers DEF Matrix

LEMMA MuType ==
    ASSUME nonce \in Nonces, NEW i \in Members, NEW j \in Members
    PROVE  /\ Mu(i, j) \in Int /\ MuRevealed(i, j) \in Int
           /\ nonce.k[i] * W[j] \in Int /\ nonce.k[i] * nonce.gamma[j] \in Int
           /\ Alpha(i, j) \in Int
           /\ Cong(Alpha(i, j), (nonce.k[i] * nonce.gamma[j]) + Mask[<<i, j>>])
<1>1. nonce.k[i] \in Int /\ nonce.gamma[j] \in Int /\ W[j] \in Int
  BY Sampled, WeightsAre DEF IntOn
<1>2. Mask[<<i, j>>] \in Int /\ MaskWC[<<i, j>>] \in Int
  BY MasksAre
<1> DEFINE x == nonce.k[i] * nonce.gamma[j]
           y == nonce.k[i] * W[j]
<1>3. x \in Int /\ y \in Int
  BY <1>1
<1>4. Alpha(i, j) = (x + Mask[<<i, j>>]) % Q /\ Mu(i, j) = y + MaskWC[<<i, j>>]
  BY DEF Alpha, Mu
<1> HIDE DEF x, y
<1>5. x + Mask[<<i, j>>] \in Int /\ Mu(i, j) \in Int /\ Mu(i, j) + 1 \in Int
  BY <1>2, <1>3, <1>4
<1>6. MuRevealed(i, j) \in Int
  BY <1>5 DEF MuRevealed
<1>7. Alpha(i, j) \in Int /\ Cong(Alpha(i, j), x + Mask[<<i, j>>])
  BY <1>4, <1>5, CgMod
<1> QED BY <1>3, <1>5, <1>6, <1>7 DEF x, y

\* Round 3: delta_i is a share of the product of the k and the gamma.
LEMMA CalcDeltaIs ==
    ASSUME nonce \in Nonces, NEW i \in Members
    PROVE  /\ CalcDelta(i) \in Zq /\ CalcDelta(i) \in Int
           /\ Cong(CalcDelta(i), Cross(nonce.k, nonce.gamma, Masks(Mask), Members)[i])
<1> DEFINE m == Masks(Mask)
           D == Members \ {i}
           r == [j \in D |-> Alpha(i, j) - Mask[<<j, i>>]]
           x == nonce.k[i] * nonce.gamma[i]
<1>1. \A j \in D : r[j] \in Int /\ Cong(r[j], Row(nonce.k, nonce.gamma, m, Members, i)[j])
  <2> TAKE j \in D
  <2> DEFINE y == nonce.k[i] * nonce.gamma[j]
             a == Alpha(i, j)
             b == Mask[<<i, j>>]
             c == Mask[<<j, i>>]
  <2>1. y \in Int /\ a \in Int /\ b \in Int /\ c \in Int /\ Cong(a, y + b) /\ Cong(c, c)
    BY MuType, MasksAre DEF Cong
  <2>2. r[j] = a - c
    OBVIOUS
  <2>3. Row(nonce.k, nonce.gamma, m, Members, i)[j] = y + (b - c)
    BY MasksAre DEF Row
  <2> HIDE DEF y, a, b, c, r, m
  <2>4. y + b \in Int /\ (y + b) - c = y + (b - c) /\ a - c \in Int
    BY <2>1
  <2>5. Cong(a - c, (y + b) - c)
    BY <2>1, <2>4, CgMinus
  <2> QED BY <2>2, <2>3, <2>4, <2>5
<1>2. IntOn(r, D) /\ DOMAIN r = D
  BY <1>1 DEF IntOn
<1>3. CalcDelta(i) = (x + SumQ(r)) % Q
  BY DEF CalcDelta
<1>4. x \in Int
  BY MuType
<1>5. IsFiniteSet(D)
  BY Signers, FS_Subset
<1> HIDE DEF r, m
<1>6. Cong(x + SumQ(r), Cross(nonce.k, nonce.gamma, m, Members)[i])
  BY <1>1, <1>2, Signers, Sampled, MasksAre, CrossMod DEF m
<1>7. SumQ(r) \in Int
  BY <1>2, <1>5, SumQType
<1> HIDE DEF x
<1>8. x + SumQ(r) \in Int
  BY <1>4, <1>7
<1> DEFINE z == x + SumQ(r)
<1>9. z \in Int /\ CalcDelta(i) = z % Q /\ Cong(z, Cross(nonce.k, nonce.gamma, m, Members)[i])
  BY <1>3, <1>6, <1>8
<1> HIDE DEF z
<1>10. CalcDelta(i) \in Zq /\ CalcDelta(i) \in Int /\ Cong(CalcDelta(i), z)
  BY <1>9, ModType, CgMod
<1> QED BY <1>9, <1>10, CgTrans DEF m

\* Round 3: sigma_i is a share of the product of the k and the key.
LEMMA SigmaIIs ==
    ASSUME nonce \in Nonces, NEW i \in Members
    PROVE  /\ SigmaI(i) \in Zq /\ SigmaI(i) \in Int
           /\ Cong(SigmaI(i), Cross(nonce.k, W, Masks(MaskWC), Members)[i])
<1> DEFINE m == Masks(MaskWC)
           D == Members \ {i}
           r == [j \in D |-> Mu(i, j) - MaskWC[<<j, i>>]]
           x == nonce.k[i] * W[i]
<1>1. \A j \in D : r[j] \in Int /\ Cong(r[j], Row(nonce.k, W, m, Members, i)[j])
  <2> TAKE j \in D
  <2> DEFINE y == nonce.k[i] * W[j]
             b == MaskWC[<<i, j>>]
             c == MaskWC[<<j, i>>]
  <2>1. y \in Int /\ b \in Int /\ c \in Int
    BY MuType, MasksAre
  <2>2. r[j] = (y + b) - c
    BY DEF Mu
  <2>3. Row(nonce.k, W, m, Members, i)[j] = y + (b - c)
    BY MasksAre DEF Row
  <2> HIDE DEF y, b, c, r, m
  <2>4. (y + b) - c = y + (b - c) /\ y + (b - c) \in Int
    BY <2>1
  <2> QED BY <2>2, <2>3, <2>4 DEF Cong
<1>2. IntOn(r, D) /\ DOMAIN r = D
  BY <1>1 DEF IntOn
<1>3. SigmaI(i) = (x + SumQ(r)) % Q
  BY DEF SigmaI
<1>4. x \in Int
  BY MuType
<1>5. IsFiniteSet(D)
  BY Signers, FS_Subset
<1> HIDE DEF r, m
<1>6. Cong(x + SumQ(r), Cross(nonce.k, W, m, Members)[i])
  BY <1>1, <1>2, Signers, Sampled, WeightsAre, MasksAre, CrossMod DEF m
<1>7. SumQ(r) \in Int
  BY <1>2, <1>5, SumQType
<1> HIDE DEF x
<1>8. x + SumQ(r) \in Int
  BY <1>4, <1>7
<1> DEFINE z == x + SumQ(r)
<1>9. z \in Int /\ SigmaI(i) = z % Q /\ Cong(z, Cross(nonce.k, W, m, Members)[i])
  BY <1>3, <1>6, <1>8
<1> HIDE DEF z
<1>10. SigmaI(i) \in Zq /\ SigmaI(i) \in Int /\ Cong(SigmaI(i), z)
  BY <1>9, ModType, CgMod
<1> QED BY <1>9, <1>10, CgTrans DEF m

\* A type 7 abort: what is recomputed from the revealed mu is a share of the same
\* product, whatever mu the parties reveal.
LEMMA GSigmaIs ==
    ASSUME nonce \in Nonces, NEW i \in Members
    PROVE  /\ GSigma(i) \in Zq /\ GSigma(i) \in Int
           /\ Cong(GSigma(i), Cross(W, nonce.k, Revealed, Members)[i])
<1> DEFINE m == Revealed
           D == Members \ {i}
           r == [j \in D |-> MuRevealed(i, j) + nonce.k[j] * W[i] - MuRevealed(j, i)]
           x == nonce.k[i] * W[i]
<1>0. Matrix(m, Members) /\ \A a, b \in Members : m[a][b] = MuRevealed(a, b)
  BY MuType DEF Revealed, Matrix
<1>1. \A j \in D : r[j] \in Int /\ Cong(r[j], Row(W, nonce.k, m, Members, i)[j])
  <2> TAKE j \in D
  <2> DEFINE y == nonce.k[j] * W[i]
             b == MuRevealed(i, j)
             c == MuRevealed(j, i)
  <2>1. y \in Int /\ b \in Int /\ c \in Int /\ y = W[i] * nonce.k[j]
    <3>1. W[i] \in Int /\ nonce.k[j] \in Int
      BY Sampled, WeightsAre DEF IntOn
    <3>2. y = W[i] * nonce.k[j]
      BY <3>1
    <3>3. y \in Int /\ b \in Int /\ c \in Int
      BY MuType
    <3> QED BY <3>2, <3>3
  <2>2. r[j] = b + (y - c)
    OBVIOUS
  <2>3. Row(W, nonce.k, m, Members, i)[j] = y + (b - c)
    BY <1>0, <2>1 DEF Row
  <2> HIDE DEF y, b, c, r, m
  <2>4. b + (y - c) = y + (b - c) /\ y + (b - c) \in Int
    BY <2>1
  <2> QED BY <2>2, <2>3, <2>4 DEF Cong
<1>2. IntOn(r, D) /\ DOMAIN r = D
  BY <1>1 DEF IntOn
<1>3. GSigma(i) = (x + SumQ(r)) % Q
  BY DEF GSigma
<1>4. x \in Int /\ x = W[i] * nonce.k[i]
  <2>1. W[i] \in Int /\ nonce.k[i] \in Int
    BY Sampled, WeightsAre DEF IntOn
  <2> QED BY <2>1, MuType
<1>5. IsFiniteSet(D)
  BY Signers, FS_Subset
<1> HIDE DEF r, m
<1>6. Cong((W[i] * nonce.k[i]) + SumQ(r), Cross(W, nonce.k, m, Members)[i])
  BY <1>0, <1>1, <1>2, Signers, Sampled, WeightsAre, CrossMod
<1>7. SumQ(r) \in Int
  BY <1>2, <1>5, SumQType
<1> HIDE DEF x
<1>8. x + SumQ(r) \in Int
  BY <1>4, <1>7
<1> DEFINE z == x + SumQ(r)
<1>9. z \in Int /\ GSigma(i) = z % Q /\ Cong(z, Cross(W, nonce.k, m, Members)[i])
  BY <1>3, <1>4, <1>6, <1>8
<1> HIDE DEF z
<1>10. GSigma(i) \in Zq /\ GSigma(i) \in Int /\ Cong(GSigma(i), z)
  BY <1>9, ModType, CgMod
<1> QED BY <1>9, <1>10, CgTrans DEF m

\* A value that a fault may put off by one.
LEMMA Offset ==
    ASSUME NEW x \in Int, NEW i \in Members, NEW f
    PROVE  /\ (x + Off(i, f)) % Q \in Zq /\ (x + Off(i, f)) % Q \in Int
           /\ ~Is(i, f) => (x + Off(i, f)) % Q = x % Q
<1>1. Off(i, f) \in Int /\ (~Is(i, f) => Off(i, f) = 0)
  BY DEF Off
<1> DEFINE o == Off(i, f)
<1> HIDE DEF o
<1>2. o \in Int /\ (~Is(i, f) => o = 0)
  BY <1>1 DEF o
<1>3. x + o \in Int /\ (~Is(i, f) => x + o = x)
  BY <1>2
<1>4. (x + o) % Q \in Zq /\ (x + o) % Q \in Int /\ (~Is(i, f) => (x + o) % Q = x % Q)
  BY <1>3, ModType
<1> QED BY <1>4 DEF o

LEMMA Sent ==
    ASSUME nonce \in Nonces, NEW i \in Members
    PROVE  /\ Delta(i) \in Zq /\ Delta(i) \in Int /\ (~Is(i, "delta") => Delta(i) = CalcDelta(i))
           /\ Sigma(i) \in Zq /\ Sigma(i) \in Int /\ (~Is(i, "sigma") => Sigma(i) = SigmaI(i))
           /\ BigGamma(i) \in Zq /\ BigGamma(i) \in Int
           /\ ~Is(i, "gamma") => BigGamma(i) = nonce.gamma[i]
<1>1. /\ CalcDelta(i) \in Zq /\ SigmaI(i) \in Zq /\ nonce.gamma[i] \in Zq
      /\ CalcDelta(i) \in Int /\ SigmaI(i) \in Int /\ nonce.gamma[i] \in Int
  BY CalcDeltaIs, SigmaIIs, Sampled DEF IntOn
<1>2. /\ CalcDelta(i) % Q = CalcDelta(i) /\ SigmaI(i) % Q = SigmaI(i)
      /\ nonce.gamma[i] % Q = nonce.gamma[i]
  BY <1>1, ModSmall
<1>3. /\ Delta(i) \in Zq /\ Delta(i) \in Int /\ (~Is(i, "delta") => Delta(i) = CalcDelta(i) % Q)
  BY <1>1, Offset DEF Delta
<1>4. /\ Sigma(i) \in Zq /\ Sigma(i) \in Int /\ (~Is(i, "sigma") => Sigma(i) = SigmaI(i) % Q)
  BY <1>1, Offset DEF Sigma
<1>5. /\ BigGamma(i) \in Zq /\ BigGamma(i) \in Int
      /\ ~Is(i, "gamma") => BigGamma(i) = nonce.gamma[i] % Q
  BY <1>1, Offset DEF BigGamma
<1> QED BY <1>2, <1>3, <1>4, <1>5

\* The sums of the secrets.
KSum == SumFunctionOnSet(nonce.k, Members)
GammaSum == SumFunctionOnSet(nonce.gamma, Members)
Sigmas == [j \in Members |-> Sigma(j)]
SigmaSum == SumFunctionOnSet(Sigmas, Members)

LEMMA Sums ==
    ASSUME nonce \in Nonces
    PROVE  /\ KSum \in Int /\ GammaSum \in Int /\ SigmaSum \in Int
           /\ IntOn(Sigmas, Members) /\ \A i \in Members : Sigmas[i] = Sigma(i)
           /\ Cong(SumFunctionOnSet(W, Members), KeyPoly[0]) /\ SumFunctionOnSet(W, Members) \in Int
           /\ DeltaSum \in Zq /\ DeltaSum \in Int
           /\ SumQ([j \in Members |-> BigGamma(j)]) \in Int
<1>1. KSum \in Int /\ GammaSum \in Int
  BY Sampled, Signers, SumType DEF KSum, GammaSum
<1>2. IntOn(Sigmas, Members) /\ \A i \in Members : Sigmas[i] = Sigma(i)
  BY Sent DEF IntOn, Sigmas
<1>3. SigmaSum \in Int
  BY <1>2, Signers, SumType DEF SigmaSum
<1>4. SumFunctionOnSet(W, Members) \in Int
  BY WeightsAre, Signers, SumType
<1>5. Cong(SumFunctionOnSet(W, Members), KeyPoly[0])
  <2>1. DOMAIN W = Members
    BY DEF W
  <2>2. SumFunctionOnSet(W, Members) % Q = KeyPoly[0]
    BY <2>1, WeightsAre, SumQDef
  <2> QED BY <2>2, WeightsAre, ModSmall DEF Cong
<1>6. DeltaSum \in Zq /\ DeltaSum \in Int
  <2> DEFINE f == [j \in Members |-> Delta(j)]
  <2>1. IntOn(f, Members) /\ DOMAIN f = Members
    BY Sent DEF IntOn
  <2>2. DeltaSum = SumQ(f)
    BY DEF DeltaSum
  <2> HIDE DEF f
  <2> QED BY <2>1, <2>2, Signers, SumQType
<1>7. SumQ([j \in Members |-> BigGamma(j)]) \in Int
  <2> DEFINE f == [j \in Members |-> BigGamma(j)]
  <2>1. IntOn(f, Members) /\ DOMAIN f = Members
    BY Sent DEF IntOn
  <2> HIDE DEF f
  <2>2. SumQ(f) \in Int
    BY <2>1, Signers, SumQType
  <2> QED BY <2>2 DEF f
<1> QED BY <1>1, <1>2, <1>3, <1>4, <1>5, <1>6, <1>7

\* If everybody sends the delta_i it computed, they add up to the product.
LEMMA DeltaProduct ==
    ASSUME nonce \in Nonces, \A i \in Members : Delta(i) = CalcDelta(i)
    PROVE  Cong(DeltaSum, KSum * GammaSum)
<1> DEFINE f == [j \in Members |-> Delta(j)]
           c == Cross(nonce.k, nonce.gamma, Masks(Mask), Members)
<1>1. IntOn(f, Members) /\ DOMAIN f = Members /\ \A i \in Members : Cong(f[i], c[i])
  BY Sent, CalcDeltaIs DEF IntOn
<1>2. IntOn(c, Members) /\ SumFunctionOnSet(c, Members) = KSum * GammaSum
  BY Sampled, Signers, MasksAre, CrossInt, SharesOfProduct DEF KSum, GammaSum
<1>3. DeltaSum = SumQ(f)
  BY DEF DeltaSum
<1> HIDE DEF f, c
<1>4. Cong(SumQ(f), SumFunctionOnSet(c, Members))
  BY <1>1, <1>2, Signers, SumQCong
<1> QED BY <1>2, <1>3, <1>4

\* Likewise for the sigma_i, whether they are what round 3 computes or what the
\* others recompute in a type 7 abort.
LEMMA SigmaProduct ==
    ASSUME nonce \in Nonces,
           \/ \A i \in Members : Sigma(i) = SigmaI(i)
           \/ \A i \in Members : Sigma(i) = GSigma(i)
    PROVE  Cong(SigmaSum, KSum * KeyPoly[0])
<1> DEFINE w == SumFunctionOnSet(W, Members)
<1>1. w \in Int /\ Cong(w, KeyPoly[0]) /\ KSum \in Int /\ KeyPoly[0] \in Int
  BY Sums, WeightsAre
<1>a. KSum * w \in Int /\ w * KSum = KSum * w
  <2> HIDE DEF w
  <2> QED BY <1>1
<1>2. SigmaSum % Q = (KSum * w) % Q
  <2>1. CASE \A i \in Members : Sigma(i) = SigmaI(i)
    <3> DEFINE c == Cross(nonce.k, W, Masks(MaskWC), Members)
    <3>1. IntOn(c, Members) /\ SumFunctionOnSet(c, Members) = KSum * w
      BY Sampled, WeightsAre, Signers, MasksAre, CrossInt, SharesOfProduct DEF KSum
    <3>2. \A i \in Members : Sigmas[i] % Q = c[i] % Q
      BY <2>1, Sums, SigmaIIs DEF Cong
    <3> HIDE DEF c, w
    <3>3. SigmaSum % Q = SumFunctionOnSet(c, Members) % Q
      BY <3>1, <3>2, Sums, Signers, SumCong DEF SigmaSum
    <3> QED BY <3>1, <3>3
  <2>2. CASE \A i \in Members : Sigma(i) = GSigma(i)
    <3> DEFINE c == Cross(W, nonce.k, Revealed, Members)
    <3>0. Matrix(Revealed, Members)
      BY MuType DEF Matrix, Revealed
    <3>1. IntOn(c, Members) /\ SumFunctionOnSet(c, Members) = w * KSum
      BY <3>0, Sampled, WeightsAre, Signers, CrossInt, SharesOfProduct DEF KSum
    <3>2. \A i \in Members : Sigmas[i] % Q = c[i] % Q
      BY <2>2, Sums, GSigmaIs DEF Cong
    <3> HIDE DEF c, w
    <3>3. SigmaSum % Q = SumFunctionOnSet(c, Members) % Q
      BY <3>1, <3>2, Sums, Signers, SumCong DEF SigmaSum
    <3> QED BY <1>a, <3>1, <3>3
  <2> QED BY <2>1, <2>2
<1> HIDE DEF w
<1>3. Cong(KSum * w, KSum * KeyPoly[0])
  BY <1>1, CgFactor
<1> QED BY <1>2, <1>3 DEF Cong

\* Rounds 5 to 7: the points and s_i, once delta has an inverse.
LEMMA PointsAre ==
    ASSUME nonce \in Nonces, DeltaSum # 0
    PROVE  /\ BigR \in Int
           /\ Cong(BigR * DeltaSum, SumQ([j \in Members |-> BigGamma(j)]))
<1> DEFINE y == ModInverse(DeltaSum)
           g == SumQ([j \in Members |-> BigGamma(j)])
           d == DeltaSum
<1>1. d \in Int /\ d % Q # 0 /\ g \in Int
  BY Sums, ModSmall
<1>2. y \in Int /\ Cong(d * y, 1)
  BY <1>1, InverseIs
<1>3. BigR = (g * y) % Q
  BY DEF BigR
<1> HIDE DEF y, g, d
<1>4. g * y \in Int /\ d * y \in Int /\ 1 \in Int
  BY <1>1, <1>2
<1> DEFINE z == g * y
<1>5. z \in Int /\ BigR = z % Q /\ z * d = g * (d * y) /\ g * 1 = g
  BY <1>1, <1>2, <1>3, <1>4
<1>6. Cong(g * (d * y), g * 1)
  BY <1>1, <1>2, <1>4, CgFactor
<1> HIDE DEF z
<1>7. BigR \in Int /\ Cong(BigR, z) /\ Cong(d, d)
  BY <1>5, CgMod DEF Cong
<1>8. Cong(BigR * d, z * d)
  BY <1>1, <1>5, <1>7, CgTimes
<1>9. Cong(BigR * d, g)
  BY <1>5, <1>6, <1>8 DEF Cong
<1> QED BY <1>7, <1>9 DEF g, d

LEMMA Broadcast ==
    ASSUME nonce \in Nonces, DeltaSum # 0, NEW i \in Members
    PROVE  /\ BigRBar(i) \in Int /\ BigS(i) \in Int /\ SI(i) \in Int /\ X(BigR) \in Int
           /\ ~Is(i, "rbar") => BigRBar(i) = (BigR * nonce.k[i]) % Q
           /\ ~Is(i, "st") => BigS(i) = (BigR * Sigma(i)) % Q
           /\ ~Is(i, "s") => SI(i) = ((Msg * nonce.k[i]) + (X(BigR) * Sigma(i))) % Q
<1> DEFINE R == BigR
           k == nonce.k[i]
           s == Sigma(i)
           r == X(BigR)
<1>1. R \in Int /\ k \in Int /\ s \in Int /\ Msg \in Int
  BY PointsAre, Sampled, Sent, SigningAssumption, Signers DEF IntOn
<1>2. r = (R * R) % Q
  BY DEF X
<1>3. /\ BigRBar(i) = ((R * k) + Off(i, "rbar")) % Q
      /\ BigS(i) = ((R * s) + Off(i, "st")) % Q
      /\ SI(i) = (((Msg * k) + (r * s)) + Off(i, "s")) % Q
  BY DEF BigRBar, BigS, SI
<1> HIDE DEF R, k, s, r
<1>5. R * R \in Int /\ R * k \in Int /\ R * s \in Int /\ Msg * k \in Int
  BY <1>1
<1>6. r \in Int
  BY <1>2, <1>5, ModType
<1>7. r * s \in Int
  BY <1>1, <1>6
<1> DEFINE u == r * s
           v == Msg * k
<1>8. u \in Int /\ v \in Int /\ SI(i) = ((v + u) + Off(i, "s")) % Q
  BY <1>3, <1>5, <1>7
<1> HIDE DEF u, v
<1>9. v + u \in Int
  BY <1>8
<1>11. SI(i) \in Int /\ (~Is(i, "s") => SI(i) = (v + u) % Q)
  BY <1>8, <1>9, Offset
<1>12. BigRBar(i) \in Int /\ (~Is(i, "rbar") => BigRBar(i) = (R * k) % Q)
  BY <1>3, <1>5, Offset
<1>13. BigS(i) \in Int /\ (~Is(i, "st") => BigS(i) = (R * s) % Q)
  BY <1>3, <1>5, Offset
<1> QED BY <1>6, <1>11, <1>12, <1>13 DEF u, v, R, k, s, r

\* If the gamma_i and delta_i are right, R is the base point divided by k.
LEMMA RIsInverse ==
    ASSUME nonce \in Nonces, DeltaSum # 0, \A i \in Members : Delta(i) = CalcDelta(i),
           \A i \in Members : BigGamma(i) = nonce.gamma[i]
    PROVE  Cong(BigR * KSum, 1)
<1> DEFINE g == SumQ([j \in Members |-> BigGamma(j)])
           d == DeltaSum
           R == BigR
           k == KSum
           G == GammaSum
<1>1. /\ d \in Int /\ d % Q # 0 /\ g \in Int /\ R \in Int /\ k \in Int /\ G \in Int /\ 1 \in Int
      /\ Cong(R * d, g) /\ Cong(d, k * G)
  BY Sums, ModSmall, PointsAre, DeltaProduct
<1>2. Cong(g, G)
  <2> DEFINE f == [j \in Members |-> BigGamma(j)]
  <2>1. DOMAIN f = Members /\ IntOn(f, Members) /\ \A i \in Members : Cong(f[i], nonce.gamma[i])
    BY Sent DEF IntOn, Cong
  <2> HIDE DEF f
  <2>2. Cong(SumQ(f), SumFunctionOnSet(nonce.gamma, Members))
    BY <2>1, Signers, Sampled, SumQCong
  <2> QED BY <2>2 DEF f, GammaSum
<1> HIDE DEF g, d, R, k, G
\* d * (R k) = (R d) k = G k = d mod Q, and d may be cancelled.
<1>3. R * d \in Int /\ k * G \in Int /\ R * k \in Int /\ (R * k) - 1 \in Int /\ d * (R * k) \in Int
  BY <1>1
<1>4. Cong(k * (R * d), k * g) /\ Cong(k * g, k * G)
  BY <1>1, <1>2, <1>3, CgFactor
<1>5. k * (R * d) = d * (R * k)
  BY <1>1
<1>6. Cong(d * (R * k), d)
  BY <1>1, <1>4, <1>5 DEF Cong
<1> DEFINE a == d * (R * k)
           b == (R * k) - 1
<1>7. a - d = d * b /\ b \in Int /\ a \in Int /\ d - d = 0
  BY <1>1, <1>3
<1>8. Cong(d, d) /\ Cong(a, d)
  BY <1>6 DEF Cong
<1>9. Cong(d * b, 0)
  <2> HIDE DEF a, b
  <2>1. Cong(a - d, d - d)
    BY <1>1, <1>7, <1>8, CgMinus
  <2> QED BY <1>7, <2>1
<1>10. Cong(b, 0)
  <2> HIDE DEF b
  <2> QED BY <1>1, <1>7, <1>9, Cancel
<1>11. Cong(b + 1, 0 + 1)
  <2> HIDE DEF b
  <2>1. Cong(1, 1) /\ 0 \in Int
    BY DEF Cong
  <2> QED BY <1>1, <1>7, <1>10, <2>1, CgPlus
<1>12. b + 1 = R * k /\ 0 + 1 = 1
  BY <1>1, <1>3
<1> HIDE DEF b
<1>13. Cong(R * k, 1)
  BY <1>11, <1>12
<1> QED BY <1>13 DEF R, k

\* Then the Rbar_i add up to the base point and the S_i to the public key.
LEMMA RBarSumIs ==
    ASSUME nonce \in Nonces, DeltaSum # 0, \A i \in Members : ~Is(i, "rbar")
    PROVE  /\ Cong(SumQ([j \in Members |-> BigRBar(j)]), BigR * KSum)
           /\ SumQ([j \in Members |-> BigRBar(j)]) \in Zq
<1> DEFINE f == [j \in Members |-> BigRBar(j)]
           k == nonce.k
<1>1. DOMAIN f = Members /\ \A i \in Members : f[i] = (BigR * k[i]) % Q /\ f[i] \in Int
  BY Broadcast
<1>2. IntOn(k, Members) /\ BigR \in Int
  BY Sampled, PointsAre
<1> HIDE DEF f, k
<1>3. Cong(SumQ(f), BigR * SumFunctionOnSet(k, Members))
  BY <1>1, <1>2, Signers, SumQScaled
<1>4. IntOn(f, Members)
  BY <1>1 DEF IntOn
<1>5. SumQ(f) \in Zq
  BY <1>1, <1>4, Signers, SumQType
<1> QED BY <1>3, <1>5 DEF f, k, KSum

LEMMA RBarsAddUp ==
    ASSUME nonce \in Nonces, DeltaSum # 0, Cong(BigR * KSum, 1), \A i \in Members : ~Is(i, "rbar")
    PROVE  SumQ([j \in Members |-> BigRBar(j)]) = 1
<1> DEFINE x == SumQ([j \in Members |-> BigRBar(j)])
<1>1. Cong(x, BigR * KSum) /\ x \in Zq
  BY RBarSumIs
<1> HIDE DEF x
<1>2. 1 \in Zq
  BY QAssumption DEF Zq
<1>3. x = 1
  BY <1>1, <1>2, ModSmall DEF Cong
<1> QED BY <1>3 DEF x

LEMMA SAddUp ==
    ASSUME nonce \in Nonces, DeltaSum # 0, Cong(BigR * KSum, 1), \A i \in Members : ~Is(i, "st"),
           Cong(SigmaSum, KSum * KeyPoly[0])
    PROVE  SumQ([j \in Members |-> BigS(j)]) = KeyPoly[0]
<1> DEFINE f == [j \in Members |-> BigS(j)]
           y == KeyPoly[0]
           R == BigR
           k == KSum
<1>1. DOMAIN f = Members /\ \A i \in Members : f[i] = (R * Sigmas[i]) % Q /\ f[i] \in Int
  BY Broadcast, Sums
<1>2. IntOn(Sigmas, Members) /\ R \in Int /\ y \in Zq /\ y \in Int /\ k \in Int /\ SigmaSum \in Int
  BY Sums, PointsAre, WeightsAre
<1>2a. Cong(R * k, 1) /\ Cong(SigmaSum, k * y)
  OBVIOUS
<1> HIDE DEF f, y, R, k
<1>3. Cong(SumQ(f), R * SigmaSum)
  BY <1>1, <1>2, Signers, SumQScaled DEF SigmaSum
<1>4. k * y \in Int /\ R * k \in Int /\ 1 \in Int
  BY <1>2
<1>5. Cong(R * SigmaSum, R * (k * y)) /\ Cong(y * (R * k), y * 1)
  BY <1>2, <1>2a, <1>4, CgFactor
<1>6. R * (k * y) = y * (R * k) /\ y * 1 = y
  BY <1>2
<1>7. Cong(SumQ(f), y)
  BY <1>3, <1>5, <1>6 DEF Cong
<1>8. SumQ(f) \in Zq
  <2>1. IntOn(f, Members)
    BY <1>1 DEF IntOn
  <2> QED BY <1>1, <2>1, Signers, SumQType
<1>9. SumQ(f) = y
  BY <1>2, <1>7, <1>8, ModSmall DEF Cong
<1> QED BY <1>9 DEF f, y

\* Type 8: the s_i of a party that computes nothing wrongly match its points.
LEMMA ShareMatches ==
    ASSUME nonce \in Nonces, DeltaSum # 0, NEW i \in Members, Is(i, "none")
    PROVE  (BigR * SI(i)) % Q = (BigRBar(i) * Msg + BigS(i) * X(BigR)) % Q
<1> DEFINE R == BigR
           k == nonce.k[i]
           s == Sigma(i)
           r == X(BigR)
           m == Msg
           a == BigRBar(i)
           b == BigS(i)
           c == SI(i)
<1>1. R \in Int /\ k \in Int /\ s \in Int /\ m \in Int /\ r \in Int
  BY PointsAre, Sampled, Sent, SigningAssumption, Signers, Broadcast DEF IntOn
<1>2. ~Is(i, "rbar") /\ ~Is(i, "st") /\ ~Is(i, "s")
  BY DEF Is
<1>3. a = (R * k) % Q /\ b = (R * s) % Q /\ c = ((m * k) + (r * s)) % Q
  BY <1>2, Broadcast
<1> HIDE DEF R, k, s, r, m, a, b, c
<1> DEFINE x == R * k
           y == R * s
           z == (m * k) + (r * s)
<1>4. x \in Int /\ y \in Int /\ z \in Int
  <2>1. m * k \in Int /\ r * s \in Int
    BY <1>1
  <2> QED BY <1>1, <2>1
<1>5. R * z = (x * m) + (y * r)
  BY <1>1
<1> HIDE DEF x, y, z
<1>6. a \in Int /\ b \in Int /\ c \in Int /\ Cong(a, x) /\ Cong(b, y) /\ Cong(c, z)
  BY <1>3, <1>4, CgMod DEF x, y, z
<1>7. Cong(R * c, R * z)
  BY <1>1, <1>4, <1>6, CgFactor
<1>8. Cong(m, m) /\ Cong(r, r)
  BY DEF Cong
<1>9. Cong(a * m, x * m) /\ Cong(b * r, y * r)
  BY <1>1, <1>4, <1>6, <1>8, CgTimes
<1>10. a * m \in Int /\ x * m \in Int /\ b * r \in Int /\ y * r \in Int
  BY <1>1, <1>4, <1>6
<1>11. Cong((a * m) + (b * r), (x * m) + (y * r))
  BY <1>9, <1>10, CgPlus
<1>12. Cong(R * c, (a * m) + (b * r))
  BY <1>5, <1>7, <1>11 DEF Cong
<1> QED BY <1>12 DEF Cong, R, r, m, a, b, c

\* The s_i add up to s = k (m + r x).
LEMMA SIAddUp ==
    ASSUME nonce \in Nonces, DeltaSum # 0, \A i \in Members : ~Is(i, "s"),
           Cong(SigmaSum, KSum * KeyPoly[0])
    PROVE  Cong(SSum, KSum * (Msg + X(BigR) * KeyPoly[0]))
<1> DEFINE y == KeyPoly[0]
           r == X(BigR)
           m == Msg
           k == nonce.k
           f == [j \in Members |-> SI(j)]
           u == [j \in Members |-> m * k[j]]
           v == [j \in Members |-> r * Sigmas[j]]
           g == [j \in Members |-> u[j] + v[j]]
<1>1. IntOn(k, Members) /\ IntOn(Sigmas, Members) /\ y \in Int /\ m \in Int
      /\ KSum \in Int /\ SigmaSum \in Int /\ \A i \in Members : Sigmas[i] = Sigma(i)
  BY Sampled, Sums, WeightsAre, SigningAssumption, Signers
<1>2. r \in Int
  <2>1. BigR \in Int
    BY PointsAre
  <2>2. BigR * BigR \in Int
    BY <2>1
  <2> QED BY <2>2, ModType DEF X
<1>3. \A i \in Members : /\ f[i] = ((m * k[i]) + (r * Sigmas[i])) % Q
                         /\ u[i] = m * k[i] /\ v[i] = r * Sigmas[i] /\ g[i] = u[i] + v[i]
  BY <1>1, Broadcast
<1>4. DOMAIN f = Members
  OBVIOUS
<1>5. SSum = SumQ(f)
  BY DEF SSum
<1>5a. KSum = SumFunctionOnSet(k, Members)
  BY DEF KSum
<1> HIDE DEF y, r, m, k, f, u, v, g
<1>6. IntOn(u, Members) /\ IntOn(v, Members)
  <2>1. \A i \in Members : k[i] \in Int /\ Sigmas[i] \in Int
    BY <1>1 DEF IntOn
  <2>2. ASSUME NEW i \in Members PROVE m * k[i] \in Int /\ r * Sigmas[i] \in Int
    <3>1. k[i] \in Int /\ Sigmas[i] \in Int /\ m \in Int /\ r \in Int
      BY <1>1, <1>2, <2>1
    <3> QED BY <3>1
  <2> QED BY <1>3, <2>2 DEF IntOn
<1>7. IntOn(g, Members) /\ \A i \in Members : f[i] = g[i] % Q
  BY <1>3, <1>6 DEF IntOn
<1>8. IntOn(f, Members) /\ \A i \in Members : Cong(f[i], g[i])
  BY <1>7, CgMod DEF IntOn
<1>9. Cong(SumQ(f), SumFunctionOnSet(g, Members))
  BY <1>4, <1>7, <1>8, Signers, SumQCong
<1>10. SumFunctionOnSet(g, Members) = SumFunctionOnSet(u, Members) + SumFunctionOnSet(v, Members)
  BY <1>3, <1>6, Signers, SumPlus
<1>11. SumFunctionOnSet(u, Members) = m * KSum /\ SumFunctionOnSet(v, Members) = r * SigmaSum
  <2>1. SumFunctionOnSet(u, Members) = m * SumFunctionOnSet(k, Members)
    BY <1>1, <1>3, Signers, SumScale
  <2>2. SumFunctionOnSet(v, Members) = r * SumFunctionOnSet(Sigmas, Members)
    BY <1>1, <1>2, <1>3, Signers, SumScale
  <2> QED BY <1>5a, <2>1, <2>2 DEF SigmaSum
<1> DEFINE K == KSum
           s == SigmaSum
<1>12. K \in Int /\ s \in Int /\ Cong(s, K * y) /\ Cong(SSum, (m * K) + (r * s))
  BY <1>1, <1>5, <1>9, <1>10, <1>11 DEF y
<1> HIDE DEF K, s
<1>13. K * y \in Int /\ m * K \in Int /\ r * s \in Int /\ r * (K * y) \in Int
  <2>1. K * y \in Int /\ m * K \in Int /\ r * s \in Int
    BY <1>1, <1>2, <1>12
  <2> QED BY <1>2, <2>1
<1>14. Cong(r * s, r * (K * y)) /\ Cong(m * K, m * K)
  BY <1>2, <1>12, <1>13, CgFactor DEF Cong
<1>15. Cong((m * K) + (r * s), (m * K) + (r * (K * y)))
  BY <1>13, <1>14, CgPlus
<1>16. (m * K) + (r * (K * y)) = K * (m + (r * y))
  BY <1>1, <1>2, <1>12
<1>17. Cong(SSum, K * (m + (r * y)))
  BY <1>12, <1>15, <1>16 DEF Cong
<1> QED BY <1>17 DEF K, m, r, y

\* s in the lower half of the group order.
LEMMA FinalSIs ==
    ASSUME nonce \in Nonces, DeltaSum # 0
    PROVE  /\ SSum \in Zq /\ FinalS \in Zq /\ FinalS \in Int /\ SSum \in Int
           /\ FinalS <= Q \div 2
           /\ FinalS = SSum \/ FinalS = Q - SSum
           /\ SSum # 0 => FinalS # 0
           /\ RecId \in {0, 1}
<1> DEFINE s == SSum
           e == IF s > Q \div 2 THEN Q - s ELSE s
<1>1. s \in Zq /\ s \in Int
  <2> DEFINE f == [j \in Members |-> SI(j)]
  <2>1. IntOn(f, Members) /\ DOMAIN f = Members
    BY Broadcast DEF IntOn
  <2>2. s = SumQ(f)
    BY DEF SSum
  <2> HIDE DEF f, s
  <2> QED BY <2>1, <2>2, Signers, SumQType
<1>2. FinalS = e
  BY DEF FinalS, SSum
<1> HIDE DEF s
<1>3. e \in Zq /\ e \in Int /\ e <= Q \div 2 /\ (e = s \/ e = Q - s) /\ (s # 0 => e # 0)
  BY <1>1, QAssumption DEF Zq
<1>4. RecId \in {0, 1}
  BY DEF RecId, YOdd
<1> QED BY <1>1, <1>2, <1>3, <1>4 DEF s

\* If every s_j matches its points, the Rbar_j add up to the base point and the
\* S_j to the public key, then R s is G m plus r times the public key.
LEMMA RSIs ==
    ASSUME nonce \in Nonces, DeltaSum # 0,
           SumQ([j \in Members |-> BigRBar(j)]) = 1,
           SumQ([j \in Members |-> BigS(j)]) = KeyPoly[0],
           \A i \in Members : (BigR * SI(i)) % Q = (BigRBar(i) * Msg + BigS(i) * X(BigR)) % Q
    PROVE  Cong(BigR * SSum, Msg + X(BigR) * KeyPoly[0])
<1> DEFINE R == BigR
           r == X(BigR)
           m == Msg
           y == KeyPoly[0]
           f == [j \in Members |-> SI(j)]
           b == [j \in Members |-> BigRBar(j)]
           c == [j \in Members |-> BigS(j)]
           h == [j \in Members |-> R * f[j]]
           u == [j \in Members |-> m * b[j]]
           v == [j \in Members |-> r * c[j]]
           g == [j \in Members |-> u[j] + v[j]]
           F == SumFunctionOnSet(f, Members)
           B == SumFunctionOnSet(b, Members)
           C == SumFunctionOnSet(c, Members)
<1>1. R \in Int /\ r \in Int /\ m \in Int /\ y \in Int
  <2>1. r \in Int
    <3>1. R \in Int
      BY PointsAre
    <3> HIDE DEF R
    <3>2. R * R \in Int
      BY <3>1
    <3> QED BY <3>2, ModType DEF X, R
  <2> QED BY <2>1, PointsAre, WeightsAre, SigningAssumption, Signers
<1>2. /\ IntOn(f, Members) /\ IntOn(b, Members) /\ IntOn(c, Members)
      /\ DOMAIN f = Members /\ DOMAIN b = Members /\ DOMAIN c = Members
  BY Broadcast DEF IntOn
<1>3. /\ SumQ(f) = SSum /\ SumQ(b) = 1 /\ SumQ(c) = y
      /\ \A i \in Members : (R * f[i]) % Q = ((b[i] * m) + (c[i] * r)) % Q
  BY DEF SSum
<1>4. \A i \in Members : /\ h[i] = R * f[i] /\ u[i] = m * b[i] /\ v[i] = r * c[i]
                          /\ g[i] = u[i] + v[i]
  OBVIOUS
<1> HIDE DEF R, r, m, y, f, b, c, h, u, v, g
<1>5. ASSUME NEW i \in Members
      PROVE  h[i] \in Int /\ u[i] \in Int /\ v[i] \in Int /\ g[i] \in Int /\ h[i] % Q = g[i] % Q
  <2>1. f[i] \in Int /\ b[i] \in Int /\ c[i] \in Int
    BY <1>2 DEF IntOn
  <2>2. R * f[i] \in Int /\ m * b[i] \in Int /\ r * c[i] \in Int
    BY <1>1, <2>1
  <2>3. b[i] * m = m * b[i] /\ c[i] * r = r * c[i]
    BY <1>1, <2>1
  <2> QED BY <1>3, <1>4, <2>2, <2>3
<1>6. IntOn(h, Members) /\ IntOn(u, Members) /\ IntOn(v, Members) /\ IntOn(g, Members)
  BY <1>5 DEF IntOn
<1>7. SumFunctionOnSet(h, Members) % Q = SumFunctionOnSet(g, Members) % Q
  BY <1>5, <1>6, Signers, SumCong
<1>8. SumFunctionOnSet(g, Members) = SumFunctionOnSet(u, Members) + SumFunctionOnSet(v, Members)
  BY <1>4, <1>6, Signers, SumPlus
<1>9. SumFunctionOnSet(h, Members) = R * F
  <2>1. R \in Int /\ IntOn(f, Members) /\ IsFiniteSet(Members)
    BY <1>1, <1>2, Signers
  <2>2. \A x \in Members : h[x] = R * f[x]
    BY <1>4
  <2> HIDE DEF F, B, C
  <2>3. SumFunctionOnSet(h, Members) = R * SumFunctionOnSet(f, Members)
    BY <2>1, <2>2, SumScale
  <2> QED BY <2>3 DEF F
<1>10. SumFunctionOnSet(u, Members) = m * B
  <2>1. m \in Int /\ IntOn(b, Members) /\ IsFiniteSet(Members)
    BY <1>1, <1>2, Signers
  <2>2. \A x \in Members : u[x] = m * b[x]
    BY <1>4
  <2> HIDE DEF F, B, C
  <2>3. SumFunctionOnSet(u, Members) = m * SumFunctionOnSet(b, Members)
    BY <2>1, <2>2, SumScale
  <2> QED BY <2>3 DEF B
<1>11. SumFunctionOnSet(v, Members) = r * C
  <2>1. r \in Int /\ IntOn(c, Members) /\ IsFiniteSet(Members)
    BY <1>1, <1>2, Signers
  <2>2. \A x \in Members : v[x] = r * c[x]
    BY <1>4
  <2> HIDE DEF F, B, C
  <2>3. SumFunctionOnSet(v, Members) = r * SumFunctionOnSet(c, Members)
    BY <2>1, <2>2, SumScale
  <2> QED BY <2>3 DEF C
<1>12. F \in Int /\ B \in Int /\ C \in Int
  BY <1>2, Signers, SumType
<1>13. SSum = F % Q /\ 1 = B % Q /\ y = C % Q
  BY <1>2, <1>3, SumQDef
<1> HIDE DEF F, B, C
<1>14. Cong(R * F, (m * B) + (r * C))
  BY <1>7, <1>8, <1>9, <1>10, <1>11 DEF Cong
<1>15. /\ Cong(F, SSum) /\ Cong(B, 1) /\ Cong(C, y) /\ SSum \in Int /\ 1 \in Int
  BY <1>12, <1>13, CgMod
<1>16. Cong(R * F, R * SSum) /\ Cong(m * B, m * 1) /\ Cong(r * C, r * y)
  BY <1>1, <1>12, <1>15, CgFactor
<1>17. m * B \in Int /\ r * C \in Int /\ r * y \in Int /\ m * 1 = m
  BY <1>1, <1>12
<1>18. Cong((m * B) + (r * C), m + (r * y))
  BY <1>1, <1>16, <1>17, CgPlus
<1>19. Cong(R * SSum, m + (r * y))
  BY <1>14, <1>16, <1>18 DEF Cong
<1> QED BY <1>19 DEF R, m, r, y

LEMMA BigRType ==
    ASSUME nonce \in Nonces, DeltaSum # 0
    PROVE  BigR \in Zq
<1> DEFINE R == BigR
           z == SumQ([j \in Members |-> BigGamma(j)]) * ModInverse(DeltaSum)
<1>1. z \in Int
  <2>1. DeltaSum \in Int /\ DeltaSum % Q # 0 /\ SumQ([j \in Members |-> BigGamma(j)]) \in Int
    BY Sums, ModSmall
  <2>2. ModInverse(DeltaSum) \in Int
    BY <2>1, InverseIs
  <2> QED BY <2>1, <2>2
<1>2. R = z % Q
  BY DEF BigR
<1> HIDE DEF z, R
<1>3. R \in Zq
  BY <1>1, <1>2, ModType
<1> QED BY <1>3 DEF R

\* Points with the same x-coordinate are equal or each other's negative.
LEMMA SameX ==
    ASSUME NEW a \in Zq, NEW b \in Zq, b # 0, X(a) = X(b)
    PROVE  a = b \/ a = Q - b
<1>1. a \in Int /\ b \in Int /\ Q \in Int /\ a + b \in Int /\ a - b \in Int /\ a * a \in Int /\ b * b \in Int
  BY QAssumption DEF Zq
<1>2. (a + b) * (a - b) = (a * a) - (b * b) /\ (b * b) - (b * b) = 0
  BY <1>1
<1>3. Cong(a * a, b * b) /\ Cong(b * b, b * b)
  BY DEF X, Cong
<1>4. Cong((a * a) - (b * b), (b * b) - (b * b))
  BY <1>1, <1>3, CgMinus
<1>5. Cong((a + b) * (a - b), 0)
  BY <1>2, <1>4
<1>6. CASE (a + b) % Q = 0
  <2>1. a + b > 0 /\ a + b < 2 * Q
    BY <1>1, QAssumption DEF Zq
  <2>2. a + b = Q
    BY <1>6, <2>1, <1>1, QAssumption DEF Zq
  <2> QED BY <1>1, <2>2
<1>7. CASE (a + b) % Q # 0
  <2>1. Cong(a - b, 0)
    BY <1>1, <1>5, <1>7, Cancel
  <2>2. Cong((a - b) + b, 0 + b)
    <3>1. Cong(b, b) /\ 0 \in Int
      BY DEF Cong
    <3> QED BY <1>1, <2>1, <3>1, CgPlus
  <2>3. (a - b) + b = a /\ 0 + b = b
    BY <1>1
  <2>4. a % Q = b % Q
    BY <2>2, <2>3 DEF Cong
  <2> QED BY <2>4, ModSmall
<1> QED BY <1>6, <1>7

\* The recovery id yields R, or -R if s was replaced.
LEMMA RecoveredIs ==
    ASSUME nonce \in Nonces, DeltaSum # 0, X(BigR) # 0
    PROVE  /\ BigR \in Zq /\ BigR # 0
           /\ Recovered(RecId) = IF SSum > Q \div 2 THEN Q - BigR ELSE BigR
<1> DEFINE R == BigR
           e == IF SSum > Q \div 2 THEN Q - R ELSE R
           flip == SSum > Q \div 2
<1>1. R \in Zq
  BY BigRType
<1>2. R # 0
  <2>1. X(0) = 0
    BY ModSmall, QAssumption DEF X, Zq
  <2> QED BY <2>1
<1>3. SSum \in Zq /\ SSum \in Int
  BY FinalSIs
<1>4. Q - R \in Zq /\ X(Q - R) = X(R)
  <2>1. R \in Int /\ Q \in Int /\ Q - R \in Zq
    BY <1>1, <1>2, QAssumption DEF Zq
  <2> HIDE DEF R
  <2>2. (Q - R) * (Q - R) = (R * R) + (Q * (Q - (2 * R))) /\ R * R \in Int /\ Q - (2 * R) \in Int
    BY <2>1
  <2>3. ((R * R) + (Q * (Q - (2 * R)))) % Q = (R * R) % Q
    BY <2>2, ModPlusMultiple
  <2> QED BY <2>1, <2>2, <2>3 DEF X
\* Mod 2 a point is its own negative, and s is never replaced.
<1>5. (flip \/ Q # 2) => YOdd(Q - R) = 1 - YOdd(R)
  <2> HIDE DEF R
  <2>1. R \in Int /\ R > 0 /\ R < Q /\ Q \in Int
    BY <1>1, <1>2, QAssumption DEF Zq
  <2>2. flip => Q # 2
    BY <1>3, QAssumption DEF Zq
  <2>3. Q # 2 => 2 * R # Q
    <3> SUFFICES ASSUME Q # 2, 2 * R = Q PROVE FALSE
      OBVIOUS
    <3>1. 2 \in Zq \ {0} /\ 2 \in Int /\ 2 % Q # 0
      BY <2>1, QAssumption DEF Zq
    <3>2. Cong(2 * R, 0)
      <4>1. Q % Q = 0 /\ 0 % Q = 0
        BY QAssumption
      <4> QED BY <4>1 DEF Cong
    <3>3. Cong(R, 0)
      BY <2>1, <3>1, <3>2, Cancel
    <3>4. R % Q = R /\ 0 % Q = 0
      BY <1>1, ModSmall, QAssumption DEF Zq
    <3> QED BY <1>2, <3>3, <3>4 DEF Cong
  <2> SUFFICES ASSUME Q # 2 PROVE YOdd(Q - R) = 1 - YOdd(R)
    BY <2>2
  <2>4. (Q - R > Q \div 2) <=> ~(R > Q \div 2)
    BY <2>1, <2>3
  <2> QED BY <2>4 DEF YOdd
<1>6. e \in Zq /\ X(e) = X(R) /\ YOdd(e) = RecId
  BY <1>1, <1>4, <1>5 DEF RecId
<1>7. ASSUME NEW a \in Zq, X(a) = X(R), YOdd(a) = RecId PROVE a = e
  <2>1. a = R \/ a = Q - R
    BY <1>1, <1>2, <1>7, SameX
  <2>2. YOdd(R) \in {0, 1}
    BY DEF YOdd
  <2> HIDE DEF R
  <2>3. CASE Q = 2
    <3>1. R = 1 /\ Q - R = 1
      BY <1>1, <1>2, <2>3 DEF Zq
    <3> QED BY <2>1, <3>1
  <2>4. CASE Q # 2
    <3>1. YOdd(Q - R) = 1 - YOdd(R)
      BY <1>5, <2>4
    <3>2. YOdd(a) = IF flip THEN 1 - YOdd(R) ELSE YOdd(R)
      BY <1>7 DEF RecId, R
    <3> QED BY <2>1, <2>2, <3>1, <3>2
  <2> QED BY <2>3, <2>4
<1> HIDE DEF e
<1>8. Recovered(RecId) = e
  BY <1>6, <1>7 DEF Recovered
<1> QED BY <1>1, <1>2, <1>8 DEF e

\* The signature is valid if R is the base point divided by k.
LEMMA FinalSValid ==
    ASSUME nonce \in Nonces, DeltaSum # 0, SSum # 0, X(BigR) # 0, Cong(BigR * KSum, 1),
           Cong(SSum, KSum * (Msg + X(BigR) * KeyPoly[0]))
    PROVE  Valid(X(BigR), FinalS)
<1> DEFINE t == Msg + X(BigR) * KeyPoly[0]
           R == BigR
           k == KSum
           s == SSum
           e == FinalS
           n == ModInverse(FinalS)
<1>1. R \in Int /\ k \in Int /\ s \in Int /\ e \in Int /\ e \in Zq /\ e # 0 /\ 1 \in Int
  BY PointsAre, Sums, FinalSIs
<1>2. t \in Int
  <2>1. R * R \in Int
    BY <1>1
  <2>2. X(BigR) \in Int /\ Msg \in Int /\ KeyPoly[0] \in Int
    BY <2>1, ModType, WeightsAre, SigningAssumption, Signers DEF X
  <2>3. X(BigR) * KeyPoly[0] \in Int
    BY <2>2
  <2> DEFINE z == X(BigR) * KeyPoly[0]
  <2> HIDE DEF z
  <2>4. z \in Int /\ t = Msg + z
    BY <2>3 DEF z
  <2> QED BY <2>2, <2>4
<1>3. n \in Int /\ Cong(e * n, 1)
  <2>1. e % Q # 0
    BY <1>1, ModSmall
  <2> QED BY <1>1, <2>1, InverseIs
<1>4. Cong(R * k, 1) /\ Cong(s, k * t)
  OBVIOUS
<1>5. e = s \/ e = Q - s
  BY FinalSIs
<1>6. Valid(X(BigR), FinalS) <=> e # 0 /\ ((n * t) * (n * t)) % Q = (R * R) % Q
  BY DEF Valid, X
<1> HIDE DEF t, R, k, s, e, n
\* t = R s, and (n s)^2 = (n e)^2 = 1, so that (n t)^2 = R^2.
<1>7. Cong(t, R * s)
  <2>1. k * t \in Int /\ R * k \in Int
    BY <1>1, <1>2
  <2>2. Cong(R * s, R * (k * t)) /\ Cong(t * (R * k), t * 1)
    BY <1>1, <1>2, <1>4, <2>1, CgFactor
  <2>3. R * (k * t) = t * (R * k) /\ t * 1 = t
    BY <1>1, <1>2
  <2> QED BY <2>2, <2>3 DEF Cong
<1>8. Cong(s * s, e * e)
  <2>1. CASE e = s
    BY <2>1 DEF Cong
  <2>2. CASE e = Q - s
    <3>1. e * e = (s * s) + (Q * (Q - (2 * s))) /\ Q - (2 * s) \in Int /\ s * s \in Int
      BY <1>1, <2>2, QAssumption
    <3>2. (e * e) % Q = (s * s) % Q
      BY <3>1, ModPlusMultiple
    <3> QED BY <3>2 DEF Cong
  <2> QED BY <1>5, <2>1, <2>2
<1>9. R * s \in Int /\ e * n \in Int /\ s * s \in Int /\ e * e \in Int /\ R * R \in Int
  BY <1>1, <1>3
<1>10. Cong(n * t, n * (R * s))
  BY <1>2, <1>3, <1>7, <1>9, CgFactor
<1> DEFINE a == n * t
           b == n * (R * s)
<1>11. a \in Int /\ b \in Int /\ Cong(a, b)
  BY <1>2, <1>3, <1>9, <1>10
<1>12. Cong(a * a, b * b)
  <2> HIDE DEF a, b
  <2> QED BY <1>11, CgTimes
<1> DEFINE c == (R * R) * (n * n)
           ee == (e * n) * (e * n)
<1>13. n * n \in Int /\ c \in Int
  <2>1. n * n \in Int
    BY <1>3
  <2> QED BY <1>9, <2>1
<1>14. b * b = c * (s * s) /\ c * (e * e) = (R * R) * ee
  BY <1>1, <1>3
<1> HIDE DEF c
<1>15. Cong(c * (s * s), c * (e * e))
  BY <1>8, <1>9, <1>13, CgFactor
<1>16. Cong(ee, 1 * 1) /\ ee \in Int
  <2> DEFINE h == e * n
  <2>1. h \in Int /\ Cong(h, 1) /\ ee = h * h
    BY <1>3, <1>9
  <2> HIDE DEF h, ee
  <2>2. Cong(h * h, 1 * 1) /\ h * h \in Int
    BY <1>1, <2>1, CgTimes
  <2> QED BY <2>1, <2>2
<1> HIDE DEF ee
<1>17. Cong((R * R) * ee, (R * R) * 1) /\ (R * R) * 1 = R * R
  <2> DEFINE h == R * R
  <2>1. h \in Int /\ 1 * 1 = 1
    BY <1>9
  <2> HIDE DEF h
  <2>2. Cong(ee, 1) /\ ee \in Int
    BY <1>16, <2>1
  <2>3. Cong(h * ee, h * 1)
    BY <1>1, <2>1, <2>2, CgFactor
  <2>4. h * 1 = h
    BY <2>1
  <2> QED BY <2>3, <2>4 DEF h
<1>18. Cong(a * a, R * R)
  BY <1>12, <1>14, <1>15, <1>17 DEF Cong
<1>19. ((n * t) * (n * t)) % Q = (R * R) % Q
  BY <1>18 DEF Cong, a
<1> QED BY <1>1, <1>6, <1>19

-----------------------------------------------------------------------------
(* The invariant.                                                          *)

RBarSum == SumQ([j \in Members |-> BigRBar(j)])
BigSSum == SumQ([j \in Members |-> BigS(j)])

\* The parties whose range proof p refuses in round 2.
Refused(p) == {j \in Members \ {p} : fault[j] = <<"range", p>>}

\* Everybody computes what the code says, and no number is degenerate.
HonestRun == (\A p \in Members : Is(p, "none")) /\ ~Degenerate

\* Culprits that an honest party may name.
Just(C) == \A q \in C \cap Honest : \E j \in Faulty : fault[j] = <<"mu", q>>

SigValue == [s : 0 .. Q, v : {0, 1}]

\* The values every variable takes.
SgType ==
    /\ at \in [Members -> 0 .. 8]
    /\ done \in [Members -> SUBSET (1 .. 8)]
    /\ bad \in [Members -> 0 .. 8]
    /\ nonce \in Nonces
    /\ abortingT5 \in [Members -> BOOLEAN]
    /\ abortingT7 \in [Members -> BOOLEAN]
    /\ culprits \in [Members -> SUBSET Members]
    /\ crashed \in [Members -> BOOLEAN]
    /\ sig \in [Members -> SigValue]

\* An honest party has no fault.
SgFaults == \A p \in Honest : fault[p] = <<"none", p>>

\* The lock step.  A party whose round 2 failed goes on to round 3, where it fails.
SgLock ==
    \A p \in Members :
        /\ \A r \in done[p] : r <= at[p]
        /\ bad[p] = 0 \/ (bad[p] = at[p] /\ at[p] \notin done[p])
        /\ (bad[p] = 0 /\ at[p] > 0) => at[p] \in done[p]
        /\ \A r \in 1 .. at[p] - 1 : \A q \in Members \ {p} : r \in done[q]
        /\ \A r \in 1 .. at[p] - 1 : r \in done[p] \/ (r = 2 /\ at[p] = 3 /\ bad[p] = 3)

\* What is known of p in round a, with rounds d completed, the last error b, the
\* two abort modes, the culprits C, whether it crashed, and its signature s.
Party(p, a, d, b, t5, t7, C, cr, s) ==
    /\ 5 \in d => DeltaSum # 0
    /\ 6 \in d => (t5 <=> RBarSum # 1) /\ \A j \in Members \ {p, 0} : ~Is(j, "rbar")
    /\ 6 \notin d => ~t5
    /\ 7 \in d => /\ t7 <=> BigSSum # KeyPoly[0]
                  /\ ~t5
                  /\ \A j \in Members \ {p} : ~Is(j, "st")
    /\ 7 \notin d => ~t7
    /\ s # Unset => 8 \in d /\ ~t7 /\ s = FinalSig /\ Valid(X(BigR), FinalS) /\ T8Culprits(p) = {}
    /\ (a = 2 /\ 2 \notin d) => C = Refused(p) /\ Refused(p) # {}
    /\ cr => a = 3 /\ 3 \notin d /\ C = Refused(p) /\ Refused(p) # {}
    /\ HonestRun => b = 0
    /\ p \in Honest => Just(C)
    /\ (p \in Honest /\ 0 \in Honest /\ ((b = 7 /\ t5) \/ (b = 8 /\ t7))) => C # {}

PartyNow(p) ==
    Party(p, at[p], done[p], bad[p], abortingT5[p], abortingT7[p], culprits[p], crashed[p], sig[p])

SgRounds == \A p \in Members : PartyNow(p)

\* The inductive invariant.
SgInv == SgType /\ SgFaults /\ SgLock /\ SgRounds

\* The numbers do not change.
LEMMA Fixed ==
    ASSUME nonce' = nonce, fault' = fault
    PROVE  /\ DeltaSum' = DeltaSum /\ BigR' = BigR /\ FinalS' = FinalS /\ FinalSig' = FinalSig
           /\ \A p \in Members : T8Culprits(p)' = T8Culprits(p)
           /\ RBarSum' = RBarSum /\ BigSSum' = BigSSum
           /\ Degenerate' = Degenerate
<1>1. \A i \in Members : Delta(i)' = Delta(i) /\ Sigma(i)' = Sigma(i) /\ BigGamma(i)' = BigGamma(i)
  BY DEF Delta, CalcDelta, Alpha, Sigma, SigmaI, Mu, BigGamma, Off, Is
<1>2. DeltaSum' = DeltaSum
  BY <1>1 DEF DeltaSum
<1>3. BigR' = BigR
  BY <1>1, <1>2 DEF BigR
<1>4. \A i \in Members : BigRBar(i)' = BigRBar(i) /\ BigS(i)' = BigS(i) /\ SI(i)' = SI(i)
  BY <1>1, <1>3 DEF BigRBar, BigS, SI, Off, Is
<1>5. RBarSum' = RBarSum /\ BigSSum' = BigSSum /\ SSum' = SSum
  BY <1>4 DEF RBarSum, BigSSum, SSum
<1>6. FinalS' = FinalS /\ FinalSig' = FinalSig
  BY <1>3, <1>5 DEF FinalS, FinalSig, RecId
<1>8. \A p \in Members : T8Culprits(p)' = T8Culprits(p)
  BY <1>3, <1>4 DEF T8Culprits, X
<1>7. Degenerate' = Degenerate
  BY <1>1, <1>2, <1>3, <1>4, <1>5 DEF Degenerate, SSum
<1> QED BY <1>2, <1>3, <1>5, <1>6, <1>7, <1>8

LEMMA PartyFixed ==
    ASSUME nonce' = nonce, fault' = fault, NEW p \in Members, NEW a, NEW d, NEW b, NEW t5, NEW t7,
           NEW C, NEW cr, NEW s, Party(p, a, d, b, t5, t7, C, cr, s),
           at'[p] = a, done'[p] = d, bad'[p] = b, abortingT5'[p] = t5, abortingT7'[p] = t7,
           culprits'[p] = C, crashed'[p] = cr, sig'[p] = s
    PROVE  PartyNow(p)'
<1>1. HonestRun' = HonestRun
  BY Fixed DEF HonestRun, Is
<1>2. Refused(p)' = Refused(p)
  BY DEF Refused
<1>3. Just(C)' = Just(C)
  BY DEF Just
<1>4. \A j \in Members : /\ Is(j, "rbar")' = Is(j, "rbar")
                         /\ Is(j, "st")' = Is(j, "st")
  BY DEF Is
<1>5. Valid(X(BigR), FinalS)' = Valid(X(BigR), FinalS)
  BY Fixed DEF Valid, X
<1> QED BY <1>1, <1>2, <1>3, <1>4, <1>5, Fixed DEF Party, PartyNow

LEMMA SgInit == Init => SgInv
<1> SUFFICES ASSUME Init PROVE SgInv
  OBVIOUS
<1>1. SgType
  <2>1. Unset \in SigValue
    BY QAssumption DEF Unset, SigValue
  <2> QED BY <2>1 DEF Init, LSInit, SgType
<1>2. SgFaults
  <2>1. PICK f \in [Faulty -> UNION {Fault(p) : p \in Faulty}] :
            fault = [p \in Members |-> IF p \in Faulty THEN f[p] ELSE <<"none", p>>]
    BY DEF Init
  <2> QED BY <2>1 DEF SgFaults, Honest
<1>3. \A p \in Members : /\ at[p] = 0 /\ done[p] = {} /\ bad[p] = 0 /\ culprits[p] = {}
                         /\ abortingT5[p] = FALSE /\ abortingT7[p] = FALSE
                         /\ crashed[p] = FALSE /\ sig[p] = Unset
  BY DEF Init, LSInit
<1>4. SgLock
  <2> SUFFICES ASSUME NEW p \in Members
               PROVE  /\ \A r \in done[p] : r <= at[p]
                      /\ bad[p] = 0 \/ (bad[p] = at[p] /\ at[p] \notin done[p])
                      /\ (bad[p] = 0 /\ at[p] > 0) => at[p] \in done[p]
                      /\ 1 .. at[p] - 1 = {}
    BY DEF SgLock
  <2> QED BY <1>3
<1>5. SgRounds
  <2> SUFFICES ASSUME NEW p \in Members PROVE PartyNow(p)
    BY DEF SgRounds
  <2>1. Party(p, 0, {}, 0, FALSE, FALSE, {}, FALSE, Unset)
    BY DEF Party, Just
  <2> QED BY <1>3, <2>1 DEF PartyNow
<1> QED BY <1>1, <1>2, <1>4, <1>5 DEF SgInv

\* A Start keeps the lock step.
LEMMA SgStart ==
    ASSUME SgType, SgLock, NEW p \in Members, NEW good \in BOOLEAN, StartRound(p, good),
           (at[p] = 2 /\ 2 \notin done[p]) => ~good
    PROVE  /\ at[p] \in 0 .. 7 /\ done[p] \in SUBSET (1 .. 8)
           /\ \A r \in done[p] : r <= at[p]
           /\ (at[p] > 0 /\ at[p] # 2) => at[p] \in done[p]
           /\ at[p] > 2 => \A q \in Members : \A r \in 1 .. at[p] : r \in done[q]
           /\ good => bad[p] = 0
           /\ at' \in [Members -> 0 .. 8]
           /\ done' \in [Members -> SUBSET (1 .. 8)]
           /\ bad' \in [Members -> 0 .. 8]
           /\ SgLock'
           /\ at' = [at EXCEPT ![p] = at[p] + 1]
           /\ done' = [done EXCEPT ![p] = IF good THEN done[p] \cup {at[p] + 1} ELSE done[p]]
           /\ bad' = [bad EXCEPT ![p] = IF good THEN 0 ELSE at[p] + 1]
<1>1. at[p] \in 0 .. 7 /\ done[p] \in SUBSET (1 .. 8)
  BY SigningAssumption DEF StartRound, SgType
<1>2. at[p] > 0 => \A q \in Members \ {p} : at[p] \in done[q]
  BY DEF StartRound, RoundComplete
<1>3. (at[p] > 0 /\ at[p] # 2) => at[p] \in done[p]
  BY SigningAssumption DEF StartRound, RoundComplete
<1>4. good => bad[p] = 0
  BY <1>1, <1>3 DEF SgLock
<1>5. /\ at' = [at EXCEPT ![p] = at[p] + 1]
      /\ done' = [done EXCEPT ![p] = IF good THEN done[p] \cup {at[p] + 1} ELSE done[p]]
      /\ bad' = [bad EXCEPT ![p] = IF good THEN 0 ELSE at[p] + 1]
  BY <1>4 DEF StartRound
<1>6. /\ at' \in [Members -> 0 .. 8]
      /\ done' \in [Members -> SUBSET (1 .. 8)]
      /\ bad' \in [Members -> 0 .. 8]
  BY <1>1, <1>5 DEF SgType
<1>7. /\ \A r \in done[p] : r <= at[p]
      /\ at[p] + 1 \notin done[p]
  BY <1>1 DEF SgLock
<1>8. at[p] > 2 => \A q \in Members : \A r \in 1 .. at[p] : r \in done[q]
  <2> SUFFICES ASSUME at[p] > 2, NEW q \in Members, NEW r \in 1 .. at[p] PROVE r \in done[q]
    OBVIOUS
  <2>1. at[p] \in done[p]
    BY <1>1, <1>3
  <2>2. CASE r = at[p]
    BY <1>1, <1>2, <2>1, <2>2
  <2>3. CASE r # at[p]
    <3>1. r \in 1 .. at[p] - 1
      BY <1>1, <2>3
    <3>2. q # p => r \in done[q]
      BY <3>1 DEF SgLock
    <3>3. r \in done[p] \/ (at[p] = 3 /\ bad[p] = 3)
      BY <3>1 DEF SgLock
    <3>4. ~(at[p] = 3 /\ bad[p] = 3)
      BY <2>1 DEF SgLock
    <3> QED BY <3>2, <3>3, <3>4
  <2> QED BY <2>2, <2>3
<1>9. \A q \in Members : done[q] \subseteq done'[q]
  BY <1>5 DEF SgType
<1>10. SgLock'
  <2> SUFFICES ASSUME NEW q \in Members
               PROVE  /\ \A r \in done'[q] : r <= at'[q]
                      /\ bad'[q] = 0 \/ (bad'[q] = at'[q] /\ at'[q] \notin done'[q])
                      /\ (bad'[q] = 0 /\ at'[q] > 0) => at'[q] \in done'[q]
                      /\ \A r \in 1 .. at'[q] - 1 : \A x \in Members \ {q} : r \in done'[x]
                      /\ \A r \in 1 .. at'[q] - 1 :
                            r \in done'[q] \/ (r = 2 /\ at'[q] = 3 /\ bad'[q] = 3)
    BY DEF SgLock
  <2>1. CASE q = p
    <3>0. /\ at'[q] = at[p] + 1
          /\ done'[q] = IF good THEN done[p] \cup {at[p] + 1} ELSE done[p]
          /\ bad'[q] = IF good THEN 0 ELSE at[p] + 1
      BY <1>5, <2>1 DEF SgType
    <3>1. \A r \in done'[q] : r <= at'[q]
      BY <1>1, <1>7, <3>0
    <3>2. bad'[q] = 0 \/ (bad'[q] = at'[q] /\ at'[q] \notin done'[q])
      BY <1>7, <3>0
    <3>3. (bad'[q] = 0 /\ at'[q] > 0) => at'[q] \in done'[q]
      BY <1>1, <3>0
    <3>4. \A r \in 1 .. at'[q] - 1 : \A x \in Members \ {q} : r \in done'[x]
      <4> SUFFICES ASSUME NEW r \in 1 .. at'[q] - 1, NEW x \in Members \ {q} PROVE r \in done[x]
        BY <1>9
      <4>1. r = at[p] \/ r \in 1 .. at[p] - 1
        BY <1>1, <3>0
      <4>2. r \in 1 .. at[p] - 1 => r \in done[x]
        BY <2>1 DEF SgLock
      <4>3. r = at[p] => r \in done[x]
        BY <1>1, <1>2, <2>1, <3>0
      <4> QED BY <4>1, <4>2, <4>3
    <3>5. \A r \in 1 .. at'[q] - 1 : r \in done'[q] \/ (r = 2 /\ at'[q] = 3 /\ bad'[q] = 3)
      <4> SUFFICES ASSUME NEW r \in 1 .. at'[q] - 1, r \notin done'[q]
                   PROVE  r = 2 /\ at'[q] = 3 /\ bad'[q] = 3
        OBVIOUS
      <4>1. r \in 1 .. at[p] /\ r \notin done[p]
        BY <1>1, <1>9, <2>1, <3>0
      <4>2. at[p] <= 2
        BY <1>1, <1>8, <4>1
      <4>3. r = at[p] \/ (r = 1 /\ at[p] = 2)
        BY <1>1, <4>1, <4>2
      <4>4. (at[p] = 2) => 1 \in done[p]
        BY DEF SgLock
      <4>5. r = 2 /\ at[p] = 2
        BY <1>1, <1>3, <4>1, <4>2, <4>3, <4>4
      <4> QED BY <3>0, <4>1, <4>5
    <3> QED BY <3>1, <3>2, <3>3, <3>4, <3>5
  <2>2. CASE q # p
    <3>1. at'[q] = at[q] /\ done'[q] = done[q] /\ bad'[q] = bad[q]
      BY <1>5, <2>2 DEF SgType
    <3> QED BY <1>9, <3>1 DEF SgLock
  <2> QED BY <2>1, <2>2
<1> QED BY <1>1, <1>3, <1>4, <1>5, <1>6, <1>7, <1>8, <1>10

\* What remains to be shown of a step of p.
OnlyOf(p, f, new, S) == new \in [Members -> S] /\ \A q \in Members \ {p} : new[q] = f[q]

LEMMA SgStep ==
    ASSUME SgInv, NEW p \in Members, NEW good \in BOOLEAN, StartRound(p, good),
           (at[p] = 2 /\ 2 \notin done[p]) => ~good, nonce' = nonce, fault' = fault,
           OnlyOf(p, abortingT5, abortingT5', BOOLEAN), OnlyOf(p, abortingT7, abortingT7', BOOLEAN),
           OnlyOf(p, culprits, culprits', SUBSET Members), OnlyOf(p, crashed, crashed', BOOLEAN),
           OnlyOf(p, sig, sig', SigValue), PartyNow(p)'
    PROVE  SgInv'
<1>1. SgType /\ SgFaults /\ SgLock /\ SgRounds
  BY DEF SgInv
<1>2. SgType'
  BY <1>1, SgStart DEF SgType, OnlyOf
<1>3. SgFaults'
  BY <1>1 DEF SgFaults
<1>4. SgLock'
  BY <1>1, SgStart
<1>5. SgRounds'
  <2> SUFFICES ASSUME NEW q \in Members \ {p} PROVE PartyNow(q)'
    BY DEF SgRounds
  <2>1. /\ at'[q] = at[q] /\ done'[q] = done[q] /\ bad'[q] = bad[q]
    BY <1>1, SgStart DEF SgType
  <2>2. /\ abortingT5'[q] = abortingT5[q] /\ abortingT7'[q] = abortingT7[q]
        /\ culprits'[q] = culprits[q] /\ crashed'[q] = crashed[q] /\ sig'[q] = sig[q]
    BY DEF OnlyOf
  <2>3. Party(q, at[q], done[q], bad[q], abortingT5[q], abortingT7[q], culprits[q], crashed[q], sig[q])
    BY <1>1 DEF SgRounds, PartyNow
  <2> QED BY <2>1, <2>2, <2>3, PartyFixed
<1> QED BY <1>2, <1>3, <1>4, <1>5 DEF SgInv

\* What does not change, in the form SgStep asks for.
LEMMA SgSame ==
    ASSUME SgType, NEW p \in Members
    PROVE  /\ OnlyOf(p, abortingT5, abortingT5, BOOLEAN) /\ OnlyOf(p, abortingT7, abortingT7, BOOLEAN)
           /\ OnlyOf(p, culprits, culprits, SUBSET Members) /\ OnlyOf(p, crashed, crashed, BOOLEAN)
           /\ OnlyOf(p, sig, sig, SigValue)
BY DEF SgType, OnlyOf

LEMMA SgAssign ==
    ASSUME NEW S, NEW f \in [Members -> S], NEW p \in Members, NEW x \in S
    PROVE  OnlyOf(p, f, [f EXCEPT ![p] = x], S) /\ [f EXCEPT ![p] = x][p] = x
BY DEF OnlyOf

\* The engine's variables after p's Start.
LEMMA SgNew ==
    ASSUME SgType, SgLock, NEW p \in Members, NEW good \in BOOLEAN, StartRound(p, good),
           (at[p] = 2 /\ 2 \notin done[p]) => ~good
    PROVE  /\ at'[p] = at[p] + 1
           /\ done'[p] = IF good THEN done[p] \cup {at[p] + 1} ELSE done[p]
           /\ bad'[p] = IF good THEN 0 ELSE at[p] + 1
<1>1. /\ at' = [at EXCEPT ![p] = at[p] + 1]
      /\ done' = [done EXCEPT ![p] = IF good THEN done[p] \cup {at[p] + 1} ELSE done[p]]
      /\ bad' = [bad EXCEPT ![p] = IF good THEN 0 ELSE at[p] + 1]
  BY SgStart
<1> QED BY <1>1 DEF SgType

\* Who has a fault is faulty.
LEMMA FaultsOfFaulty ==
    ASSUME SgFaults, NEW j \in Members
    PROVE  /\ j \in Honest => Is(j, "none") /\ \A f, p : f # "none" => fault[j] # <<f, p>>
           /\ Is(j, "none") => \A f, p : f # "none" => fault[j] # <<f, p>>
<1>1. j \in Honest => fault[j] = <<"none", j>>
  BY DEF SgFaults
<1>2. ASSUME NEW f, NEW p, f # "none", Is(j, "none") PROVE fault[j] # <<f, p>>
  BY <1>2 DEF Is
<1>3. j \in Honest => Is(j, "none")
  BY <1>1 DEF Is
<1> QED BY <1>2, <1>3

LEMMA JustFaulty ==
    ASSUME NEW C, C \cap Honest = {} PROVE Just(C)
BY DEF Just

\* The rounds 1, 2, 4 and 5 of p.
LEMMA SgQuiet ==
    ASSUME SgInv, NEW p \in Members, NEW good \in BOOLEAN, StartRound(p, good),
           at[p] \in {0, 1, 3, 4},
           (good /\ at[p] = 4) => DeltaSum # 0, HonestRun => good,
           nonce' = nonce, fault' = fault, abortingT5' = abortingT5, abortingT7' = abortingT7,
           crashed' = crashed, sig' = sig,
           OnlyOf(p, culprits, culprits', SUBSET Members),
           good => culprits'[p] = culprits[p],
           ~good => culprits'[p] \cap Honest = {},
           (~good /\ at[p] = 1) => culprits'[p] = Refused(p) /\ Refused(p) # {}
    PROVE  SgInv'
<1> DEFINE n == at[p] + 1
           d == IF good THEN done[p] \cup {n} ELSE done[p]
           b == IF good THEN 0 ELSE n
           t5 == abortingT5[p]
           t7 == abortingT7[p]
           C == culprits'[p]
           cr == crashed[p]
           s == sig[p]
<1>1. SgType /\ SgFaults /\ SgLock /\ PartyNow(p)
  BY DEF SgInv, SgRounds
<1>2. /\ at[p] \in 0 .. 7 /\ done[p] \in SUBSET (1 .. 8)
      /\ \A r \in done[p] : r <= at[p]
      /\ (at[p] > 0 /\ at[p] # 2) => at[p] \in done[p]
  BY <1>1, SgStart
<1>3. Party(p, at[p], done[p], bad[p], t5, t7, culprits[p], cr, s)
  BY <1>1 DEF PartyNow
<1>4. ~t5 /\ ~t7 /\ s = Unset /\ ~cr
  <2>1. 6 \notin done[p] /\ 7 \notin done[p] /\ 8 \notin done[p] /\ (at[p] = 3 => 3 \in done[p])
    BY <1>2
  <2> QED BY <1>3, <2>1 DEF Party
<1>5. /\ 5 \in d => DeltaSum # 0
      /\ 6 \notin d /\ 7 \notin d /\ (n = 2 /\ 2 \notin d => ~good) /\ b # 7 /\ b # 8
      /\ n \in {1, 2, 4, 5}
  BY <1>2
<1>6. (n = 2 /\ 2 \notin d) => C = Refused(p) /\ Refused(p) # {}
  BY <1>5
<1>7. p \in Honest => Just(C)
  <2>1. p \in Honest => Just(culprits[p])
    BY <1>3 DEF Party
  <2>2. ~good => Just(C)
    BY JustFaulty
  <2> QED BY <2>1, <2>2
<1>8. HonestRun => b = 0
  OBVIOUS
<1>9. (at[p] = 2 /\ 2 \notin done[p]) => ~good
  OBVIOUS
<1>10. at'[p] = n /\ done'[p] = d /\ bad'[p] = b
  <2>1. /\ at'[p] = at[p] + 1
        /\ done'[p] = IF good THEN done[p] \cup {at[p] + 1} ELSE done[p]
        /\ bad'[p] = IF good THEN 0 ELSE at[p] + 1
    BY <1>1, <1>9, SgNew
  <2> QED BY <2>1
<1>11. culprits'[p] = C /\ abortingT5'[p] = t5 /\ abortingT7'[p] = t7 /\ crashed'[p] = cr /\ sig'[p] = s
  OBVIOUS
<1> HIDE DEF n, d, b, t5, t7, C, cr, s
<1>12. Party(p, n, d, b, t5, t7, C, cr, s)
  BY <1>4, <1>5, <1>6, <1>7, <1>8 DEF Party
<1>13. PartyNow(p)'
  BY <1>10, <1>11, <1>12, PartyFixed
<1>14. /\ OnlyOf(p, abortingT5, abortingT5', BOOLEAN) /\ OnlyOf(p, abortingT7, abortingT7', BOOLEAN)
       /\ OnlyOf(p, crashed, crashed', BOOLEAN) /\ OnlyOf(p, sig, sig', SigValue)
  BY <1>1, SgSame
<1> QED BY <1>9, <1>13, <1>14, SgStep

\* Round 3 of p: a party whose round 2 failed returns an error here, with a crash
\* unless it refuses a second proof.
LEMMA SgRound3 ==
    ASSUME SgInv, NEW p \in Members, Round3(p) PROVE SgInv'
<1> DEFINE B == {j \in Members \ {p} : fault[j] = <<"bob", p>>}
           nil == B = {} /\ 2 \notin done[p]
           good == B = {} /\ ~nil
           n == at[p] + 1
           d == IF good THEN done[p] \cup {n} ELSE done[p]
           b == IF good THEN 0 ELSE n
           t5 == abortingT5[p]
           t7 == abortingT7[p]
           C == IF good THEN culprits[p] ELSE culprits[p] \cup B
           s == sig[p]
<1>1. SgType /\ SgFaults /\ SgLock /\ PartyNow(p)
  BY DEF SgInv, SgRounds
<1>2. /\ at[p] = 2 /\ good \in BOOLEAN /\ nil \in BOOLEAN /\ StartRound(p, good)
      /\ culprits' = [culprits EXCEPT ![p] = C]
      /\ crashed' = [crashed EXCEPT ![p] = nil]
      /\ nonce' = nonce /\ fault' = fault /\ abortingT5' = abortingT5 /\ abortingT7' = abortingT7
      /\ sig' = sig
  BY DEF Round3, Ends
<1>3. (good => 2 \in done[p]) /\ (nil => 2 \notin done[p] /\ B = {})
  OBVIOUS
<1>4. Party(p, at[p], done[p], bad[p], t5, t7, culprits[p], crashed[p], s)
  BY <1>1 DEF PartyNow
<1>5. HonestRun => B = {}
  <2> SUFFICES ASSUME HonestRun, NEW j \in B PROVE FALSE
    OBVIOUS
  <2>1. Is(j, "none") /\ j \in Members
    BY DEF HonestRun
  <2> QED BY <1>1, <2>1, FaultsOfFaulty
<1>6. B \cap Honest = {}
  BY <1>1, FaultsOfFaulty
<1>7. B \in SUBSET Members /\ C \in SUBSET Members /\ culprits \in [Members -> SUBSET Members]
      /\ crashed \in [Members -> BOOLEAN]
  BY <1>1 DEF SgType
<1>7a. (nil => C = culprits[p]) /\ (good => C = culprits[p]) /\ C \subseteq culprits[p] \cup B
  BY <1>3
<1>8. d = (IF good THEN done[p] \cup {at[p] + 1} ELSE done[p]) /\ b = (IF good THEN 0 ELSE at[p] + 1)
      /\ n = 3
  BY <1>2
<1>8a. HonestRun => (B = {} /\ (2 \in done[p] => good))
  BY <1>5
<1> HIDE DEF good, nil, B, C, d, b, n
<1>9. (at[p] = 2 /\ 2 \notin done[p]) => ~good
  BY <1>3
<1>10. /\ done[p] \in SUBSET (1 .. 8) /\ \A r \in done[p] : r <= 2
  BY <1>1, <1>2, <1>9, SgStart
<1>11. at'[p] = n /\ done'[p] = d /\ bad'[p] = b
  <2>1. /\ at'[p] = at[p] + 1
        /\ done'[p] = IF good THEN done[p] \cup {at[p] + 1} ELSE done[p]
        /\ bad'[p] = IF good THEN 0 ELSE at[p] + 1
    BY <1>1, <1>2, <1>9, SgNew
  <2> QED BY <1>2, <1>8, <2>1
<1>12. ~t5 /\ ~t7 /\ s = Unset
  BY <1>4, <1>10 DEF Party
<1>13. 5 \notin d /\ 6 \notin d /\ 7 \notin d /\ (~good => 3 \notin d) /\ n # 2 /\ b # 7 /\ b # 8
  BY <1>2, <1>8, <1>10
<1>14. nil => n = 3 /\ 3 \notin d /\ C = Refused(p) /\ Refused(p) # {}
  BY <1>2, <1>3, <1>4, <1>7a, <1>8, <1>9, <1>13 DEF Party
<1>15. HonestRun => b = 0
  <2> SUFFICES ASSUME HonestRun PROVE good
    BY <1>8
  <2>1. bad[p] = 0
    BY <1>4 DEF Party
  <2>2. 2 \in done[p]
    BY <1>1, <1>2, <2>1 DEF SgLock
  <2> QED BY <1>8a, <2>2
<1>16. p \in Honest => Just(C)
  <2>1. p \in Honest => Just(culprits[p])
    BY <1>4 DEF Party
  <2> QED BY <1>6, <1>7a, <2>1 DEF Just
<1>17. OnlyOf(p, culprits, culprits', SUBSET Members) /\ culprits'[p] = C
  BY <1>2, <1>7, SgAssign
<1>18. OnlyOf(p, crashed, crashed', BOOLEAN) /\ crashed'[p] = nil
  BY <1>2, <1>7, SgAssign
<1>19. abortingT5'[p] = t5 /\ abortingT7'[p] = t7 /\ sig'[p] = s
  BY <1>2
<1>20. /\ OnlyOf(p, abortingT5, abortingT5', BOOLEAN) /\ OnlyOf(p, abortingT7, abortingT7', BOOLEAN)
       /\ OnlyOf(p, sig, sig', SigValue)
  BY <1>1, <1>2, SgSame
<1> HIDE DEF t5, t7, s
<1>21. Party(p, n, d, b, t5, t7, C, nil, s)
  BY <1>12, <1>13, <1>14, <1>15, <1>16 DEF Party
<1>22. PartyNow(p)'
  BY <1>2, <1>11, <1>17, <1>18, <1>19, <1>21, PartyFixed
<1> QED BY <1>2, <1>9, <1>17, <1>18, <1>20, <1>22, SgStep

\* What an honest run computes.
LEMMA HonestNumbers ==
    ASSUME nonce \in Nonces, HonestRun
    PROVE  /\ DeltaSum # 0 /\ \A i \in Members : Delta(i) # 0
           /\ RBarSum = 1 /\ BigSSum = KeyPoly[0]
           /\ Valid(X(BigR), FinalS)
<1>1. /\ DeltaSum # 0 /\ (\A i \in Members : Delta(i) # 0) /\ SSum # 0
      /\ \A i \in Members : Is(i, "none")
  BY DEF HonestRun, Degenerate, SSum
<1>2. \A i \in Members : /\ ~Is(i, "delta") /\ ~Is(i, "gamma") /\ ~Is(i, "sigma")
                         /\ ~Is(i, "rbar") /\ ~Is(i, "st") /\ ~Is(i, "s")
  BY <1>1 DEF Is
<1>3. \A i \in Members : /\ Delta(i) = CalcDelta(i) /\ BigGamma(i) = nonce.gamma[i]
                         /\ Sigma(i) = SigmaI(i)
  BY <1>2, Sent
<1>4. Cong(BigR * KSum, 1)
  BY <1>1, <1>3, RIsInverse
<1>5. Cong(SigmaSum, KSum * KeyPoly[0])
  BY <1>3, SigmaProduct
<1>6. RBarSum = 1
  BY <1>1, <1>2, <1>4, RBarsAddUp DEF RBarSum
<1>7. BigSSum = KeyPoly[0]
  BY <1>1, <1>2, <1>4, <1>5, SAddUp DEF BigSSum
<1>8. Cong(SSum, KSum * (Msg + X(BigR) * KeyPoly[0]))
  BY <1>1, <1>2, <1>5, SIAddUp
<1>8a. X(BigR) # 0
  <2>1. BigR # 0 /\ BigR \in Int
    BY <1>1, PointsAre DEF HonestRun, Degenerate
  <2>2. BigR % Q # 0
    BY <1>1, <2>1, BigRType, ModSmall
  <2> SUFFICES ASSUME X(BigR) = 0 PROVE FALSE
    OBVIOUS
  <2>3. Cong(BigR * BigR, 0)
    <3>1. 0 % Q = 0
      BY QAssumption
    <3> QED BY <3>1 DEF X, Cong
  <2>4. Cong(BigR, 0)
    BY <2>1, <2>2, <2>3, Cancel
  <2> QED BY <2>2, <2>4, QAssumption DEF Cong
<1>9. Valid(X(BigR), FinalS)
  BY <1>1, <1>4, <1>8, <1>8a, FinalSValid
<1> QED BY <1>1, <1>6, <1>7, <1>9

LEMMA FirstOf ==
    /\ \A S \in SUBSET Members : First(S) \subseteq S
    /\ First(Members) = {0} /\ 0 \in Members
<1>1. ASSUME NEW S \in SUBSET Members PROVE First(S) \subseteq S
  <2>1. CASE S = {}
    BY <2>1 DEF First
  <2>2. CASE S # {}
    <3>1. S \in SUBSET Nat
      BY Signers
    <3>2. \E j \in S : \A i \in S : j <= i
      BY <2>2, <3>1, Least
    <3>3. (CHOOSE j \in S : \A i \in S : j <= i) \in S
      BY <3>2, Zenon
    <3> QED BY <2>2, <3>3 DEF First
  <2> QED BY <2>1, <2>2
<1>2. 0 \in Members
  BY SigningAssumption, Signers DEF Degree
<1>3. First(Members) = {0}
  <2> DEFINE P(j) == \A i \in Members : j <= i
  <2>1. P(0) /\ \A j \in Members : P(j) => j = 0
    BY <1>2, Signers
  <2>2. (CHOOSE j \in Members : P(j)) \in Members /\ P(CHOOSE j \in Members : P(j))
    BY <1>2, <2>1, Zenon
  <2>3. (CHOOSE j \in Members : P(j)) = 0
    BY <2>1, <2>2, Zenon
  <2> QED BY <1>2, <2>3 DEF First
<1> QED BY <1>1, <1>2, <1>3

\* Round 6 of p: blame for a PDL proof, or enter a type 5 abort, or go on.
LEMMA SgRound6 ==
    ASSUME SgInv, NEW p \in Members, Round6(p) PROVE SgInv'
<1> DEFINE B == PDLCulprits(p)
           good == B = {}
           n == at[p] + 1
           d == IF good THEN done[p] \cup {n} ELSE done[p]
           b == IF good THEN 0 ELSE n
           t5 == good /\ ~Consistent5(p)
           t7 == abortingT7[p]
           C == IF good THEN culprits[p] ELSE B
           cr == crashed[p]
           s == sig[p]
<1>1. SgType /\ SgFaults /\ SgLock /\ PartyNow(p)
  BY DEF SgInv, SgRounds
<1>2. /\ at[p] = 5 /\ good \in BOOLEAN /\ t5 \in BOOLEAN /\ StartRound(p, good)
      /\ culprits' = [culprits EXCEPT ![p] = C]
      /\ abortingT5' = [abortingT5 EXCEPT ![p] = t5]
      /\ nonce' = nonce /\ fault' = fault /\ abortingT7' = abortingT7
      /\ crashed' = crashed /\ sig' = sig
  BY DEF Round6, Ends
<1>3. B = {j \in Members \ {p, 0} : Is(j, "pdl") \/ Is(j, "rbar")}
  BY FirstOf DEF PDLCulprits
<1>4. Party(p, at[p], done[p], bad[p], abortingT5[p], t7, culprits[p], cr, s)
  BY <1>1 DEF PartyNow
<1>5. HonestRun => good
  BY <1>3 DEF HonestRun, Is
<1>6. B \cap Honest = {}
  <2>1. \A j \in Members : Is(j, "none") => ~Is(j, "pdl") /\ ~Is(j, "rbar")
    BY DEF Is
  <2> QED BY <1>1, <1>3, <2>1, FaultsOfFaulty
<1>7. B \in SUBSET Members /\ C \in SUBSET Members /\ culprits \in [Members -> SUBSET Members]
      /\ abortingT5 \in [Members -> BOOLEAN]
  BY <1>1, <1>3 DEF SgType
<1>8. /\ d = (IF good THEN done[p] \cup {at[p] + 1} ELSE done[p])
      /\ b = (IF good THEN 0 ELSE at[p] + 1) /\ n = 6
      /\ C = (IF good THEN culprits[p] ELSE B)
  BY <1>2
<1>8a. (good => \A j \in Members \ {p, 0} : ~Is(j, "rbar")) /\ (t5 <=> good /\ RBarSum # 1)
  BY <1>3 DEF Consistent5, RBarSum
<1> HIDE DEF good, t5, B, C, d, b, n
<1>9. (at[p] = 2 /\ 2 \notin done[p]) => ~good
  BY <1>2
<1>10. done[p] \in SUBSET (1 .. 8) /\ (\A r \in done[p] : r <= 5) /\ 5 \in done[p]
  BY <1>1, <1>2, <1>9, SgStart
<1>11. at'[p] = n /\ done'[p] = d /\ bad'[p] = b
  <2>1. /\ at'[p] = at[p] + 1
        /\ done'[p] = IF good THEN done[p] \cup {at[p] + 1} ELSE done[p]
        /\ bad'[p] = IF good THEN 0 ELSE at[p] + 1
    BY <1>1, <1>2, <1>9, SgNew
  <2> QED BY <1>2, <1>8, <2>1
<1>12. ~t7 /\ s = Unset /\ ~cr /\ DeltaSum # 0
  BY <1>2, <1>4, <1>10 DEF Party
<1>13. (6 \in d <=> good) /\ 7 \notin d /\ n = 6 /\ b # 7 /\ b # 8
  BY <1>2, <1>8, <1>10
<1>14. HonestRun => b = 0
  BY <1>5, <1>8
<1>15. p \in Honest => Just(C)
  <2>1. p \in Honest => Just(culprits[p])
    BY <1>4 DEF Party
  <2>2. Just(B)
    BY <1>6, JustFaulty
  <2> QED BY <1>8, <2>1, <2>2
<1>16. OnlyOf(p, culprits, culprits', SUBSET Members) /\ culprits'[p] = C
  BY <1>2, <1>7, SgAssign
<1>17. OnlyOf(p, abortingT5, abortingT5', BOOLEAN) /\ abortingT5'[p] = t5
  BY <1>2, <1>7, SgAssign
<1>18. abortingT7'[p] = t7 /\ crashed'[p] = cr /\ sig'[p] = s
  BY <1>2
<1>19. /\ OnlyOf(p, abortingT7, abortingT7', BOOLEAN) /\ OnlyOf(p, crashed, crashed', BOOLEAN)
       /\ OnlyOf(p, sig, sig', SigValue)
  BY <1>1, <1>2, SgSame
<1> HIDE DEF t7, cr, s
<1>20. Party(p, n, d, b, t5, t7, C, cr, s)
  BY <1>8a, <1>12, <1>13, <1>14, <1>15 DEF Party
<1>21. PartyNow(p)'
  BY <1>2, <1>11, <1>16, <1>17, <1>18, <1>20, PartyFixed
<1> QED BY <1>2, <1>9, <1>16, <1>17, <1>19, <1>21, SgStep

\* Round 7 of a type 5 abort names somebody unless the first party is to blame.
LEMMA T5Names ==
    ASSUME SgType, SgFaults, NEW p \in Honest, 0 \in Honest, DeltaSum # 0, T5Culprits(p) = {},
           \A j \in Members \ {p, 0} : ~Is(j, "rbar")
    PROVE  RBarSum = 1
<1>1. nonce \in Nonces /\ p \in Members
  BY DEF SgType, Honest
<1>2. Is(p, "none") /\ Is(0, "none")
  BY FaultsOfFaulty, <1>1, FirstOf
<1>3. ~Is(p, "delta") /\ ~Is(p, "gamma") /\ ~Is(p, "rbar") /\ ~Is(0, "rbar")
  BY <1>2 DEF Is
<1>4. \A i \in Members : ~Is(i, "rbar")
  BY <1>3
<1>5. Delta(p) = CalcDelta(p) /\ BigGamma(p) = nonce.gamma[p]
  BY <1>1, <1>3, Sent
<1>6. \A i \in Members : Delta(i) = CalcDelta(i) /\ BigGamma(i) = nonce.gamma[i]
  BY <1>5 DEF T5Culprits
<1>7. Cong(BigR * KSum, 1)
  BY <1>1, <1>6, RIsInverse
<1> QED BY <1>1, <1>4, <1>7, RBarsAddUp DEF RBarSum

\* Round 7 of p.
LEMMA SgRound7 ==
    ASSUME SgInv, NEW p \in Members, Round7(p) PROVE SgInv'
<1> DEFINE t5 == abortingT5[p]
           B == IF t5 THEN T5Culprits(p) ELSE STCulprits(p)
           good == ~t5 /\ B = {}
           n == at[p] + 1
           d == IF good THEN done[p] \cup {n} ELSE done[p]
           b == IF good THEN 0 ELSE n
           t7 == good /\ BigSSum # KeyPoly[0]
           C == IF good THEN culprits[p] ELSE B
           cr == crashed[p]
           s == sig[p]
<1>1. SgType /\ SgFaults /\ SgLock /\ PartyNow(p) /\ nonce \in Nonces
  BY DEF SgInv, SgRounds, SgType
<1>2. /\ at[p] = 6 /\ good \in BOOLEAN /\ t7 \in BOOLEAN /\ StartRound(p, good)
      /\ culprits' = [culprits EXCEPT ![p] = C]
      /\ abortingT7' = [abortingT7 EXCEPT ![p] = t7]
      /\ nonce' = nonce /\ fault' = fault /\ abortingT5' = abortingT5
      /\ crashed' = crashed /\ sig' = sig
  BY DEF Round7, Ends, BigSSum
<1>4. Party(p, at[p], done[p], bad[p], t5, abortingT7[p], culprits[p], cr, s)
  BY <1>1 DEF PartyNow
<1>7. /\ B \in SUBSET Members /\ C \in SUBSET Members /\ culprits \in [Members -> SUBSET Members]
      /\ abortingT7 \in [Members -> BOOLEAN]
  BY <1>1 DEF SgType, T5Culprits, STCulprits
<1>8. /\ d = (IF good THEN done[p] \cup {at[p] + 1} ELSE done[p])
      /\ b = (IF good THEN 0 ELSE at[p] + 1) /\ n = 7
      /\ C = (IF good THEN culprits[p] ELSE B)
      /\ good => ~t5 /\ STCulprits(p) = {}
      /\ (~t5 /\ STCulprits(p) = {}) => good
      /\ t7 <=> good /\ BigSSum # KeyPoly[0]
      /\ B = (IF t5 THEN T5Culprits(p) ELSE STCulprits(p))
  BY <1>2
<1> HIDE DEF good, t7, B, C, d, b, n
<1>9. (at[p] = 2 /\ 2 \notin done[p]) => ~good
  BY <1>2
<1>10. /\ done[p] \in SUBSET (1 .. 8) /\ (\A r \in done[p] : r <= 6)
       /\ \A q \in Members : 5 \in done[q] /\ 6 \in done[q]
  <2>1. /\ done[p] \in SUBSET (1 .. 8) /\ (\A r \in done[p] : r <= at[p])
        /\ at[p] > 2 => \A q \in Members : \A r \in 1 .. at[p] : r \in done[q]
    BY <1>1, <1>2, <1>9, SgStart
  <2> QED BY <1>2, <2>1
<1>11. at'[p] = n /\ done'[p] = d /\ bad'[p] = b
  <2>1. /\ at'[p] = at[p] + 1
        /\ done'[p] = IF good THEN done[p] \cup {at[p] + 1} ELSE done[p]
        /\ bad'[p] = IF good THEN 0 ELSE at[p] + 1
    BY <1>1, <1>2, <1>9, SgNew
  <2> QED BY <1>2, <1>8, <2>1
<1>12. ~abortingT7[p] /\ s = Unset /\ ~cr /\ DeltaSum # 0
       /\ \A j \in Members \ {p, 0} : ~Is(j, "rbar")
  BY <1>2, <1>4, <1>10 DEF Party
<1>12a. \A q \in Members : abortingT5[q] <=> RBarSum # 1
  <2> SUFFICES ASSUME NEW q \in Members PROVE abortingT5[q] <=> RBarSum # 1
    OBVIOUS
  <2>1. PartyNow(q)
    BY DEF SgInv, SgRounds
  <2> QED BY <1>10, <2>1 DEF PartyNow, Party
<1>13. 5 \in d /\ 6 \in d /\ (7 \in d <=> good) /\ 8 \notin d /\ n = 7 /\ b # 8
  BY <1>2, <1>8, <1>10
<1>3. \A j \in Members : Is(j, "none") => ~Is(j, "st") /\ ~Is(j, "gamma") /\ ~Is(j, "delta")
  BY DEF Is
<1>5. HonestRun => good
  <2> SUFFICES ASSUME HonestRun PROVE ~t5 /\ STCulprits(p) = {}
    BY <1>8
  <2>1. RBarSum = 1
    BY <1>1, HonestNumbers
  <2>2. \A j \in Members : ~abortingT5[j] /\ ~Is(j, "st")
    BY <1>3, <1>12a, <2>1 DEF HonestRun
  <2> QED BY <2>2 DEF STCulprits
<1>6. B \cap Honest = {}
  <2> SUFFICES ASSUME NEW q \in B \cap Honest PROVE FALSE
    OBVIOUS
  <2>1. q \in Members /\ ~Is(q, "st") /\ ~Is(q, "gamma") /\ ~Is(q, "delta")
    BY <1>1, <1>3, FaultsOfFaulty DEF Honest
  <2>2. BigGamma(q) = nonce.gamma[q] /\ Delta(q) = CalcDelta(q)
    BY <1>1, <2>1, Sent
  <2>3. abortingT5[q] <=> t5
    BY <1>12a, <2>1
  <2> QED BY <1>8, <2>1, <2>2, <2>3 DEF T5Culprits, STCulprits
<1>14. HonestRun => b = 0
  BY <1>5, <1>8
<1>15. p \in Honest => Just(C)
  <2>1. p \in Honest => Just(culprits[p])
    BY <1>4 DEF Party
  <2>2. Just(B)
    BY <1>6, JustFaulty
  <2> QED BY <1>8, <2>1, <2>2
<1>22. 7 \in d => ~t5 /\ \A j \in Members \ {p} : ~Is(j, "st")
  BY <1>8, <1>13 DEF STCulprits
<1>23. (t5 <=> RBarSum # 1) /\ (7 \in d => (t7 <=> BigSSum # KeyPoly[0])) /\ (7 \notin d => ~t7)
  BY <1>8, <1>12a, <1>13
<1>24. (p \in Honest /\ 0 \in Honest /\ b = 7 /\ t5) => C # {}
  BY <1>1, <1>8, <1>12, <1>12a, T5Names
<1>16. OnlyOf(p, culprits, culprits', SUBSET Members) /\ culprits'[p] = C
  BY <1>2, <1>7, SgAssign
<1>17. OnlyOf(p, abortingT7, abortingT7', BOOLEAN) /\ abortingT7'[p] = t7
  BY <1>2, <1>7, SgAssign
<1>18. abortingT5'[p] = t5 /\ crashed'[p] = cr /\ sig'[p] = s
  BY <1>2
<1>19. /\ OnlyOf(p, abortingT5, abortingT5', BOOLEAN) /\ OnlyOf(p, crashed, crashed', BOOLEAN)
       /\ OnlyOf(p, sig, sig', SigValue)
  BY <1>1, <1>2, SgSame
<1> HIDE DEF t5, cr, s
<1>20. Party(p, n, d, b, t5, t7, C, cr, s)
  BY <1>12, <1>13, <1>14, <1>15, <1>22, <1>23, <1>24 DEF Party
<1>21. PartyNow(p)'
  BY <1>2, <1>11, <1>16, <1>17, <1>18, <1>20, PartyFixed
<1> QED BY <1>2, <1>9, <1>16, <1>17, <1>19, <1>21, SgStep

\* What the others recompute for a party that ran the code is what it sent, unless
\* somebody revealed a wrong mu for it.
LEMMA GSigmaRight ==
    ASSUME nonce \in Nonces, NEW i \in Members, Is(i, "none"),
           \A j \in Members : fault[j] # <<"mu", i>>
    PROVE  GSigma(i) = Sigma(i)
<1> DEFINE D == Members \ {i}
           f == [j \in D |-> MuRevealed(i, j) + nonce.k[j] * W[i] - MuRevealed(j, i)]
           g == [j \in D |-> Mu(i, j) - MaskWC[<<j, i>>]]
           x == nonce.k[i] * W[i]
<1>1. \A j \in D : f[j] = g[j]
  <2> TAKE j \in D
  <2> DEFINE y == nonce.k[j] * W[i]
             a == Mu(i, j)
             m == MaskWC[<<j, i>>]
  <2>1. MuRevealed(i, j) = a /\ MuRevealed(j, i) = Mu(j, i)
    BY DEF MuRevealed, Is
  <2>2. Mu(j, i) = y + m
    BY DEF Mu
  <2>3. y \in Int /\ a \in Int /\ m \in Int
    BY MuType, MasksAre
  <2>4. f[j] = a + (y - (y + m)) /\ g[j] = a - m
    BY <2>1, <2>2
  <2> HIDE DEF y, a, m
  <2>5. a + (y - (y + m)) = a - m
    BY <2>3
  <2> QED BY <2>4, <2>5
<1>2. f = g
  BY <1>1
<1>3. GSigma(i) = (x + SumQ(f)) % Q /\ SigmaI(i) = (x + SumQ(g)) % Q
  BY DEF GSigma, SigmaI
<1>4. GSigma(i) = SigmaI(i)
  BY <1>2, <1>3
<1>5. ~Is(i, "sigma")
  BY DEF Is
<1> QED BY <1>4, <1>5, Sent

\* A type 7 abort names somebody unless the first party is to blame.
LEMMA T7Names ==
    ASSUME SgType, SgFaults, NEW p \in Honest, 0 \in Honest, DeltaSum # 0, T7SigmaCulprits = {},
           \A j \in Members \ {p, 0} : ~Is(j, "rbar"), RBarSum = 1,
           \A j \in Members \ {p} : ~Is(j, "st")
    PROVE  BigSSum = KeyPoly[0]
<1>1. nonce \in Nonces /\ p \in Members
  BY DEF SgType, Honest
<1>2. Is(p, "none") /\ Is(0, "none")
  BY FaultsOfFaulty, <1>1, FirstOf
<1>3. ~Is(p, "st") /\ ~Is(p, "rbar") /\ ~Is(0, "rbar")
  BY <1>2 DEF Is
<1>4. \A i \in Members : ~Is(i, "rbar") /\ ~Is(i, "st")
  BY <1>3
<1>5. \A i \in Members : Sigma(i) = GSigma(i)
  BY DEF T7SigmaCulprits
<1>6. Cong(SigmaSum, KSum * KeyPoly[0])
  BY <1>1, <1>5, SigmaProduct
<1>7. Cong(BigR * KSum, 1)
  <2>1. Cong(RBarSum, BigR * KSum)
    BY <1>1, <1>4, RBarSumIs DEF RBarSum
  <2> QED BY <2>1 DEF Cong
<1> QED BY <1>1, <1>4, <1>6, <1>7, SAddUp DEF BigSSum

\* The finalization of p.
LEMMA SgFinal ==
    ASSUME SgInv, NEW p \in Members, Finalization(p) PROVE SgInv'
<1> DEFINE t5 == abortingT5[p]
           t7 == abortingT7[p]
           B == CASE t7 /\ T7MuCulprits(p) # {} -> T7MuCulprits(p)
                  [] t7 /\ T7MuCulprits(p) = {} -> T7SigmaCulprits
                  [] ~t7 /\ \E j \in Members : abortingT7[j] -> {j \in Members : abortingT7[j]}
                  [] OTHER -> T8Culprits(p)
           good == ~t7 /\ B = {} /\ Valid(X(BigR), FinalS)
           n == at[p] + 1
           d == IF good THEN done[p] \cup {n} ELSE done[p]
           b == IF good THEN 0 ELSE n
           C == IF good THEN culprits[p] ELSE B
           cr == crashed[p]
           s == IF good THEN FinalSig ELSE sig[p]
<1>1. SgType /\ SgFaults /\ SgLock /\ PartyNow(p) /\ nonce \in Nonces
  BY DEF SgInv, SgRounds, SgType
<1>2. /\ at[p] = 7 /\ good \in BOOLEAN /\ StartRound(p, good)
      /\ culprits' = [culprits EXCEPT ![p] = C]
      /\ sig' = [sig EXCEPT ![p] = s]
      /\ nonce' = nonce /\ fault' = fault /\ abortingT5' = abortingT5 /\ abortingT7' = abortingT7
      /\ crashed' = crashed
  BY DEF Finalization, Ends
<1>3. Party(p, at[p], done[p], bad[p], t5, t7, culprits[p], cr, sig[p])
  BY <1>1 DEF PartyNow
<1>4. /\ t7 /\ T7MuCulprits(p) # {} => B = T7MuCulprits(p)
      /\ t7 /\ T7MuCulprits(p) = {} => B = T7SigmaCulprits
      /\ ~t7 /\ (\A j \in Members : ~abortingT7[j]) => B = T8Culprits(p)
      /\ ~t7 /\ (\E j \in Members : abortingT7[j]) => B = {j \in Members : abortingT7[j]}
  OBVIOUS
<1>5. /\ d = (IF good THEN done[p] \cup {at[p] + 1} ELSE done[p])
      /\ b = (IF good THEN 0 ELSE at[p] + 1) /\ n = 8
      /\ C = (IF good THEN culprits[p] ELSE B)
      /\ s = (IF good THEN FinalSig ELSE sig[p])
      /\ good <=> ~t7 /\ B = {} /\ Valid(X(BigR), FinalS)
  BY <1>2
<1> HIDE DEF B, good, C, d, b, n, s
<1>6. (at[p] = 2 /\ 2 \notin done[p]) => ~good
  BY <1>2
<1>7. /\ done[p] \in SUBSET (1 .. 8) /\ (\A r \in done[p] : r <= 7)
      /\ \A q \in Members : 5 \in done[q] /\ 6 \in done[q] /\ 7 \in done[q]
  <2>1. /\ done[p] \in SUBSET (1 .. 8) /\ (\A r \in done[p] : r <= at[p])
        /\ at[p] > 2 => \A q \in Members : \A r \in 1 .. at[p] : r \in done[q]
    BY <1>1, <1>2, <1>6, SgStart
  <2> QED BY <1>2, <2>1
<1>8. at'[p] = n /\ done'[p] = d /\ bad'[p] = b
  <2>1. /\ at'[p] = at[p] + 1
        /\ done'[p] = IF good THEN done[p] \cup {at[p] + 1} ELSE done[p]
        /\ bad'[p] = IF good THEN 0 ELSE at[p] + 1
    BY <1>1, <1>2, <1>6, SgNew
  <2> QED BY <1>2, <1>5, <2>1
<1>9. /\ sig[p] = Unset /\ ~cr /\ DeltaSum # 0 /\ ~t5 /\ RBarSum = 1
      /\ \A j \in Members \ {p, 0} : ~Is(j, "rbar")
      /\ \A j \in Members \ {p} : ~Is(j, "st")
  BY <1>2, <1>3, <1>7 DEF Party
<1>10. \A q \in Members : abortingT7[q] <=> BigSSum # KeyPoly[0]
  <2> SUFFICES ASSUME NEW q \in Members PROVE abortingT7[q] <=> BigSSum # KeyPoly[0]
    OBVIOUS
  <2>1. PartyNow(q)
    BY DEF SgInv, SgRounds
  <2> QED BY <1>7, <2>1 DEF PartyNow, Party
<1>11. /\ t7 /\ T7MuCulprits(p) # {} => B = T7MuCulprits(p)
       /\ t7 /\ T7MuCulprits(p) = {} => B = T7SigmaCulprits
       /\ ~t7 => B = T8Culprits(p)
       /\ t7 <=> BigSSum # KeyPoly[0]
  BY <1>4, <1>10
<1>12. \A j \in Members : Is(j, "none") => j \notin T8Culprits(p)
  BY <1>1, <1>9, ShareMatches DEF T8Culprits
<1>13. HonestRun => good
  <2> SUFFICES ASSUME HonestRun PROVE ~t7 /\ T8Culprits(p) = {} /\ Valid(X(BigR), FinalS)
    BY <1>5, <1>11
  <2>1. BigSSum = KeyPoly[0] /\ Valid(X(BigR), FinalS)
    BY <1>1, HonestNumbers
  <2>2. T8Culprits(p) = {}
    BY <1>12 DEF HonestRun, T8Culprits
  <2> QED BY <1>11, <2>1, <2>2
<1>14. p \in Honest => Just(B)
  <2> SUFFICES ASSUME NEW q \in B \cap Honest PROVE \E j \in Faulty : fault[j] = <<"mu", q>>
    BY DEF Just
  <2>1. q \in Members /\ Is(q, "none") /\ fault[q] # <<"mu", p>>
    BY <1>1, FaultsOfFaulty DEF Honest
  <2>2. t7
    BY <1>11, <1>12, <2>1
  <2>3. q \notin T7MuCulprits(p)
    BY <1>10, <1>11, <2>1, <2>2 DEF T7MuCulprits
  <2>4. GSigma(q) # Sigma(q)
    BY <1>11, <2>2, <2>3 DEF T7SigmaCulprits
  <2>5. PICK j \in Members : fault[j] = <<"mu", q>>
    BY <1>1, <2>1, <2>4, GSigmaRight
  <2>6. j \in Faulty
    BY <1>1, <2>5, FaultsOfFaulty DEF Honest
  <2> QED BY <2>5, <2>6
<1>15. (p \in Honest /\ 0 \in Honest /\ b = 8 /\ t7) => C # {}
  <2> SUFFICES ASSUME p \in Honest, 0 \in Honest, t7 PROVE B # {}
    BY <1>5
  <2>1. T7MuCulprits(p) = {} => T7SigmaCulprits # {}
    BY <1>1, <1>9, <1>11, T7Names
  <2> QED BY <1>11, <2>1
<1>16. /\ B \in SUBSET Members /\ culprits \in [Members -> SUBSET Members]
       /\ sig \in [Members -> SigValue] /\ C \in SUBSET Members
       /\ s \in SigValue
  <2>1. B \in SUBSET Members
    <3>1. CASE t7 /\ T7MuCulprits(p) # {}
      BY <1>11, <3>1 DEF T7MuCulprits
    <3>2. CASE t7 /\ T7MuCulprits(p) = {}
      BY <1>11, <3>2 DEF T7SigmaCulprits
    <3>3. CASE ~t7
      BY <1>11, <3>3 DEF T8Culprits
    <3> QED BY <3>1, <3>2, <3>3
  <2>2. FinalSig \in SigValue
    <3>1. FinalS \in 0 .. Q /\ RecId \in {0, 1}
      BY <1>1, <1>9, FinalSIs, QAssumption DEF Zq
    <3> QED BY <3>1 DEF FinalSig, SigValue
  <2> QED BY <1>1, <1>5, <2>1, <2>2 DEF SgType
<1>17. 5 \in d /\ 6 \in d /\ 7 \in d /\ (8 \in d <=> good) /\ n = 8 /\ b # 7
  BY <1>2, <1>5, <1>7
<1>18. HonestRun => b = 0
  BY <1>5, <1>13
<1>19. p \in Honest => Just(C)
  <2>1. p \in Honest => Just(culprits[p])
    BY <1>3 DEF Party
  <2> QED BY <1>5, <1>14, <2>1
<1>20. s # Unset => /\ 8 \in d /\ ~t7 /\ s = FinalSig /\ Valid(X(BigR), FinalS)
                    /\ T8Culprits(p) = {}
  BY <1>5, <1>9, <1>11, <1>17
<1>21. OnlyOf(p, culprits, culprits', SUBSET Members) /\ culprits'[p] = C
  BY <1>2, <1>16, SgAssign
<1>22. OnlyOf(p, sig, sig', SigValue) /\ sig'[p] = s
  BY <1>2, <1>16, SgAssign
<1>23. abortingT5'[p] = t5 /\ abortingT7'[p] = t7 /\ crashed'[p] = cr
  BY <1>2
<1>24. /\ OnlyOf(p, abortingT5, abortingT5', BOOLEAN) /\ OnlyOf(p, abortingT7, abortingT7', BOOLEAN)
       /\ OnlyOf(p, crashed, crashed', BOOLEAN)
  BY <1>1, <1>2, SgSame
<1> HIDE DEF t5, t7, cr
<1>25. Party(p, n, d, b, t5, t7, C, cr, s)
  BY <1>9, <1>11, <1>15, <1>17, <1>18, <1>19, <1>20 DEF Party
<1>26. PartyNow(p)'
  BY <1>2, <1>8, <1>21, <1>22, <1>23, <1>25, PartyFixed
<1> QED BY <1>2, <1>6, <1>21, <1>22, <1>24, <1>26, SgStep

\* The rounds 1 and 4 of p, which check nothing.
LEMMA SgSilent ==
    ASSUME SgInv, NEW p \in Members, StartRound(p, TRUE), at[p] \in {0, 3}, UNCHANGED sgVars
    PROVE  SgInv'
<1>1. PICK good \in BOOLEAN : good = TRUE /\ StartRound(p, good)
  BY Zenon
<1>2. /\ nonce' = nonce /\ fault' = fault /\ abortingT5' = abortingT5
      /\ abortingT7' = abortingT7 /\ crashed' = crashed /\ sig' = sig /\ culprits' = culprits
  BY DEF sgVars
<1>3. OnlyOf(p, culprits, culprits', SUBSET Members)
  BY <1>2, SgSame DEF SgInv
<1>4. good \in BOOLEAN /\ StartRound(p, good)
  BY <1>1
<1>5. (HonestRun => good) /\ (good => culprits'[p] = culprits[p])
  BY <1>1, <1>2
<1>6. ~good => culprits'[p] \cap Honest = {}
  BY <1>1
<1>7. (~good /\ at[p] = 1) => culprits'[p] = Refused(p) /\ Refused(p) # {}
  BY <1>1
<1>8. at[p] \in {0, 1, 3, 4} /\ ((good /\ at[p] = 4) => DeltaSum # 0)
  OBVIOUS
<1> QED BY <1>2, <1>3, <1>4, <1>5, <1>6, <1>7, <1>8, SgQuiet

LEMMA SgNext == SgInv /\ [Next]_vars => SgInv'
<1> SUFFICES ASSUME SgInv, [Next]_vars PROVE SgInv'
  OBVIOUS
<1>1. SgType /\ SgFaults /\ SgLock /\ SgRounds /\ nonce \in Nonces
  BY DEF SgInv, SgType
<1>2. CASE UNCHANGED vars
  <2>1. nonce' = nonce /\ fault' = fault
    BY <1>2 DEF vars, sgVars
  <2>2. SgType' /\ SgFaults' /\ SgLock'
    BY <1>1, <1>2 DEF vars, sgVars, lsVars, SgType, SgFaults, SgLock
  <2>3. ASSUME NEW p \in Members PROVE PartyNow(p)'
    <3>1. Party(p, at[p], done[p], bad[p], abortingT5[p], abortingT7[p], culprits[p], crashed[p], sig[p])
      BY <1>1 DEF SgRounds, PartyNow
    <3>2. /\ at'[p] = at[p] /\ done'[p] = done[p] /\ bad'[p] = bad[p]
          /\ abortingT5'[p] = abortingT5[p] /\ abortingT7'[p] = abortingT7[p]
          /\ culprits'[p] = culprits[p] /\ crashed'[p] = crashed[p] /\ sig'[p] = sig[p]
      BY <1>2 DEF vars, sgVars, lsVars
    <3> QED BY <2>1, <3>1, <3>2, PartyFixed
  <2> QED BY <2>2, <2>3 DEF SgInv, SgRounds
<1>3. ASSUME NEW p \in Members, Round1(p) PROVE SgInv'
  <2>1. StartRound(p, TRUE)
    BY <1>3, Zenon DEF Round1
  <2>2. at[p] \in {0, 3} /\ UNCHANGED sgVars
    BY <1>3 DEF Round1
  <2> QED BY <2>1, <2>2, SgSilent, Zenon
<1>4. ASSUME NEW p \in Members, Round2(p) PROVE SgInv'
  <2> DEFINE D == Refused(p)
  <2>1. D \in SUBSET Members /\ D \cap Honest = {} /\ (HonestRun => D = {})
    <3>1. \A j \in D : j \in Members /\ ~Is(j, "none") /\ j \notin Honest
      BY <1>1, FaultsOfFaulty DEF Refused
    <3> QED BY <3>1 DEF HonestRun
  <2>2. PICK good \in BOOLEAN : /\ good = (D = {}) /\ StartRound(p, good)
                                /\ culprits' = [culprits EXCEPT ![p] = IF good THEN culprits[p] ELSE D]
    BY <1>4, Zenon DEF Round2, Ends, Refused
  <2>3. /\ at[p] = 1 /\ nonce' = nonce /\ fault' = fault /\ abortingT5' = abortingT5
        /\ abortingT7' = abortingT7 /\ crashed' = crashed /\ sig' = sig
    BY <1>4 DEF Round2
  <2> HIDE DEF D
  <2>4. (~good /\ at[p] = 1) => D = Refused(p) /\ D # {}
    BY <2>2 DEF D
  <2>5. culprits \in [Members -> SUBSET Members] /\ culprits[p] \in SUBSET Members
    BY <1>1 DEF SgType
  <2>6. OnlyOf(p, culprits, culprits', SUBSET Members) /\ culprits'[p] = IF good THEN culprits[p] ELSE D
    BY <2>1, <2>2, <2>5, SgAssign
  <2>7. good \in BOOLEAN /\ StartRound(p, good)
    BY <2>2
  <2>8. (HonestRun => good) /\ (good => culprits'[p] = culprits[p])
    BY <2>1, <2>2, <2>6
  <2>9. ~good => culprits'[p] \cap Honest = {}
    BY <2>1, <2>6
  <2>10. (~good /\ at[p] = 1) => culprits'[p] = Refused(p) /\ Refused(p) # {}
    BY <2>4, <2>6
  <2>11. at[p] \in {0, 1, 3, 4} /\ ((good /\ at[p] = 4) => DeltaSum # 0)
    BY <2>3
  <2> QED BY <2>3, <2>6, <2>7, <2>8, <2>9, <2>10, <2>11, SgQuiet
<1>5. ASSUME NEW p \in Members, Round4(p) PROVE SgInv'
  <2>1. StartRound(p, TRUE)
    BY <1>5, Zenon DEF Round4
  <2>2. at[p] \in {0, 3} /\ UNCHANGED sgVars
    BY <1>5 DEF Round4
  <2> QED BY <2>1, <2>2, SgSilent, Zenon
<1>6. ASSUME NEW p \in Members, Round5(p) PROVE SgInv'
  <2> DEFINE E == First({j \in Members \ {p} : Is(j, "decommit")})
             D == IF Delta(p) = 0 THEN {} ELSE E
  <2>1. E \subseteq {j \in Members \ {p} : Is(j, "decommit")}
    BY FirstOf
  <2>2. \A j \in E : j \in Members /\ ~Is(j, "none") /\ j \notin Honest
    <3>1. \A j \in Members : Is(j, "decommit") => ~Is(j, "none")
      BY DEF Is
    <3> QED BY <1>1, <2>1, <3>1, FaultsOfFaulty
  <2>3. D \in SUBSET Members /\ D \cap Honest = {} /\ (HonestRun => E = {})
    BY <2>2 DEF HonestRun
  <2>4. PICK good \in BOOLEAN : /\ good = (Delta(p) # 0 /\ E = {} /\ DeltaSum # 0)
                                /\ StartRound(p, good)
                                /\ culprits' = [culprits EXCEPT ![p] = IF good THEN culprits[p] ELSE D]
    BY <1>6, Zenon DEF Round5, Ends
  <2>5. /\ at[p] = 4 /\ nonce' = nonce /\ fault' = fault /\ abortingT5' = abortingT5
        /\ abortingT7' = abortingT7 /\ crashed' = crashed /\ sig' = sig
    BY <1>6 DEF Round5
  <2> HIDE DEF D, E
  <2>6. HonestRun => good
    BY <1>1, <2>3, <2>4, HonestNumbers
  <2>7. good => DeltaSum # 0
    BY <2>4
  <2>8. culprits \in [Members -> SUBSET Members] /\ culprits[p] \in SUBSET Members
    BY <1>1 DEF SgType
  <2>9. OnlyOf(p, culprits, culprits', SUBSET Members) /\ culprits'[p] = IF good THEN culprits[p] ELSE D
    BY <2>3, <2>4, <2>8, SgAssign
  <2>10. good \in BOOLEAN /\ StartRound(p, good)
    BY <2>4
  <2>11. (HonestRun => good) /\ (good => culprits'[p] = culprits[p])
    BY <2>6, <2>9
  <2>12. ~good => culprits'[p] \cap Honest = {}
    BY <2>3, <2>9
  <2>13. (~good /\ at[p] = 1) => culprits'[p] = Refused(p) /\ Refused(p) # {}
    BY <2>5
  <2>14. at[p] \in {0, 1, 3, 4} /\ ((good /\ at[p] = 4) => DeltaSum # 0)
    BY <2>5, <2>7
  <2> QED BY <2>5, <2>9, <2>10, <2>11, <2>12, <2>13, <2>14, SgQuiet
<1> QED BY <1>2, <1>3, <1>4, <1>5, <1>6, SgRound3, SgRound6, SgRound7, SgFinal DEF Next

-----------------------------------------------------------------------------
\* The invariant: the lock step, what each completed round says about the numbers
\* and the faults, who is blamed.
THEOREM SigningInvariant == Spec => []SgInv
<1>1. Init => SgInv
  BY SgInit
<1>2. SgInv /\ [Next]_vars => SgInv'
  BY SgNext
<1> QED BY <1>1, <1>2, PTL DEF Spec

\* If nobody computes anything wrongly, no Start returns an error.
THEOREM SigningHonestRunSigns == Spec => []HonestRunSigns
<1>1. SgInv => HonestRunSigns
  BY DEF SgInv, SgRounds, PartyNow, Party, HonestRunSigns, HonestRun
<1> QED BY <1>1, SigningInvariant, PTL

\* What an honest party delivers is in the lower half, and its recovery id yields
\* the public key: the Rbar_j, the S_j and the s_j were all checked.
THEOREM SigningSignatureRecovers == Spec => []SignatureRecovers
<1>1. SgInv => SignatureRecovers
  <2> SUFFICES ASSUME SgInv, NEW p \in Honest, sig[p] # Unset
               PROVE  /\ sig[p].s <= Q \div 2
                      /\ (sig[p].s * Recovered(sig[p].v)) % Q = (Msg + X(BigR) * KeyPoly[0]) % Q
    BY DEF SignatureRecovers
  <2>1. PartyNow(p) /\ SgLock /\ SgType /\ SgFaults /\ nonce \in Nonces /\ p \in Members
    BY DEF SgInv, SgRounds, SgType, Honest
  <2>2. /\ 8 \in done[p] /\ sig[p] = FinalSig /\ Valid(X(BigR), FinalS)
        /\ T8Culprits(p) = {} /\ ~abortingT7[p]
    BY <2>1 DEF PartyNow, Party
  <2>3. 5 \in done[p] /\ 6 \in done[p] /\ 7 \in done[p]
    <3>1. at[p] \in 0 .. 8 /\ at[p] >= 8
      BY <2>1, <2>2 DEF SgLock, SgType
    <3> QED BY <2>1, <3>1 DEF SgLock
  <2>4. DeltaSum # 0 /\ RBarSum = 1 /\ BigSSum = KeyPoly[0]
    BY <2>1, <2>2, <2>3 DEF PartyNow, Party
  <2>5. ASSUME NEW i \in Members
        PROVE  (BigR * SI(i)) % Q = (BigRBar(i) * Msg + BigS(i) * X(BigR)) % Q
    <3>1. CASE i = p
      BY <2>1, <2>4, <3>1, FaultsOfFaulty, ShareMatches
    <3>2. CASE i # p
      BY <2>2, <3>2 DEF T8Culprits
    <3> QED BY <3>1, <3>2
  <2> DEFINE t == Msg + X(BigR) * KeyPoly[0]
             e == FinalS
             P == Recovered(RecId)
             R == BigR
             s == SSum
  <2>6. Cong(R * s, t)
    BY <2>1, <2>4, <2>5, RSIs DEF RBarSum, BigSSum
  <2>7. /\ R \in Zq /\ P = (IF s > Q \div 2 THEN Q - R ELSE R)
        /\ s \in Int /\ e <= Q \div 2 /\ e = (IF s > Q \div 2 THEN Q - s ELSE s)
    BY <2>1, <2>2, <2>4, RecoveredIs, FinalSIs DEF Valid, FinalS
  <2>8. sig[p].s = e /\ sig[p].v = RecId
    BY <2>2 DEF FinalSig
  <2> HIDE DEF t, e, P, R, s
  <2>9. (e * P) % Q = (R * s) % Q
    <3>1. R \in Int /\ Q \in Int /\ R * s \in Int
      BY <2>7, QAssumption DEF Zq
    <3>2. CASE s > Q \div 2
      <4>1. (Q - s) * (Q - R) = (R * s) + (Q * ((Q - s) - R)) /\ (Q - s) - R \in Int
        BY <2>7, <3>1
      <4> QED BY <2>7, <3>1, <3>2, <4>1, ModPlusMultiple
    <3>3. CASE ~(s > Q \div 2)
      <4>1. e * P = R * s
        BY <2>7, <3>1, <3>3
      <4> QED BY <4>1
    <3> QED BY <3>2, <3>3
  <2> QED BY <2>6, <2>7, <2>8, <2>9 DEF Cong, t, P
<1> QED BY <1>1, SigningInvariant, PTL

\* Honest parties, and all others, enter an identified abort together.
THEOREM SigningAbortTogether == Spec => []AbortTogether
<1>1. SgInv => AbortTogether
  <2> SUFFICES ASSUME SgInv, NEW p \in Members, NEW q \in Members
               PROVE  /\ (6 \in done[p] /\ 6 \in done[q]) => abortingT5[p] = abortingT5[q]
                      /\ (7 \in done[p] /\ 7 \in done[q]) => abortingT7[p] = abortingT7[q]
    BY DEF AbortTogether, Honest
  <2>1. PartyNow(p) /\ PartyNow(q)
    BY DEF SgInv, SgRounds
  <2>2. /\ abortingT5[p] \in BOOLEAN /\ abortingT5[q] \in BOOLEAN
        /\ abortingT7[p] \in BOOLEAN /\ abortingT7[q] \in BOOLEAN
    BY DEF SgInv, SgType
  <2>3. /\ (6 \in done[p] /\ 6 \in done[q]) => (abortingT5[p] <=> abortingT5[q])
        /\ (7 \in done[p] /\ 7 \in done[q]) => (abortingT7[p] <=> abortingT7[q])
    BY <2>1 DEF PartyNow, Party
  <2> QED BY <2>2, <2>3
<1> QED BY <1>1, SigningInvariant, PTL

\* An honest party is blamed only if a faulty one revealed a wrong mu for it.
THEOREM SigningBlameIsJust == Spec => []BlameIsJust
<1>1. SgInv => BlameIsJust
  BY DEF SgInv, SgRounds, PartyNow, Party, Just, BlameIsJust, Honest
<1> QED BY <1>1, SigningInvariant, PTL

\* A party crashes only after it refused a proof in round 2, and its error names
\* whom it refused.
THEOREM SigningCrashNeedsRefusal == Spec => []CrashNeedsRefusal
<1>1. SgInv => CrashNeedsRefusal
  <2> SUFFICES ASSUME SgInv, NEW p \in Members, crashed[p]
               PROVE  /\ \E j \in Faulty : fault[j] = <<"range", p>>
                      /\ culprits[p] = {j \in Faulty \ {p} : fault[j] = <<"range", p>>}
    BY DEF CrashNeedsRefusal
  <2>1. culprits[p] = Refused(p) /\ Refused(p) # {}
    BY DEF SgInv, SgRounds, PartyNow, Party
  <2>2. \A j \in Members : fault[j] = <<"range", p>> => j \in Faulty
    BY FaultsOfFaulty DEF SgInv, Honest
  <2>3. Refused(p) = {j \in Faulty \ {p} : fault[j] = <<"range", p>>}
    BY <2>2, SigningAssumption DEF Refused
  <2> QED BY <2>1, <2>3
<1> QED BY <1>1, SigningInvariant, PTL

\* An identified abort of an honest party names a culprit, provided that the first
\* party is honest: round 6 never looks at the PDL proof of that one.
THEOREM SigningAbortNamesCulprit ==
    ASSUME 0 \in Honest
    PROVE  Spec => []AbortNamesCulprit
<1>1. SgInv => AbortNamesCulprit
  BY DEF SgInv, SgRounds, PartyNow, Party, AbortNamesCulprit, Honest
<1> QED BY <1>1, SigningInvariant, PTL
=============================================================================
