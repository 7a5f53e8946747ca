----------------------------- MODULE FeldmanVss -----------------------------
(***************************************************************************)
(* Feldman verifiable secret sharing, crypto/vss/feldman_vss.go, and the   *)
(* Lagrange weights of the signers, PrepareForSigning in                   *)
(* ecdsa/signing/prepare.go and eddsa/signing/prepare.go.                  *)
(*                                                                         *)
(* The group has prime order Q; a point is represented by its discrete     *)
(* logarithm, so ScalarBaseMult is the identity on 0 .. Q-1, Add is        *)
(* addition and ScalarMult is multiplication mod Q.  (The code returns an  *)
(* error or nil for the point at infinity, which a curve of cryptographic  *)
(* size meets with negligible probability; here it is an ordinary point.)  *)
(***************************************************************************)
EXTENDS Integers, FiniteSets, Functions

CONSTANT Q   \* order of the group (tss.EC().Params().N), a prime

ASSUME QAssumption == Q \in Nat /\ Q > 1

Zq == 0 .. Q - 1

\* Q is prime: every number that is not 0 mod Q has an inverse.
ASSUME QPrime == \A g \in Zq \ {0} : \E y \in Zq : (g * y) % Q = 1

\* The sum and the product mod Q of the values of f, as the loops with modQ.Add
\* and modQ.Mul compute them.
SumQ(f) == SumFunction(f) % Q
ProdQ(f) == FoldFunction(LAMBDA x, y : x * y, 1, f) % Q

\* modQ.Inverse, defined on the numbers that are not 0 mod Q.
ModInverse(g) == CHOOSE y \in Zq : ((g % Q) * y) % Q = 1

\* x^0, x^1, ..., x^t mod Q.
Powers(t, x) ==
    LET pow[i \in 0 .. t] == IF i = 0 THEN 1 ELSE (pow[i - 1] * x) % Q
    IN  pow

-----------------------------------------------------------------------------
\* CheckIndexes: no share id is 0 mod Q, no two are equal mod Q.
CheckIndexes(ids) ==
    /\ \A i \in DOMAIN ids : ids[i] % Q # 0
    /\ \A i, j \in DOMAIN ids : i # j => ids[i] % Q # ids[j] % Q

\* The conditions under which Create returns no error.
CreateOk(t, ids) ==
    /\ t >= 1
    /\ CheckIndexes(ids)
    /\ Cardinality(DOMAIN ids) >= t

\* evaluatePolynomial: the value at id of the polynomial with coefficients v.
evaluatePolynomial(t, v, id) ==
    LET X == Powers(t, id) IN SumQ([i \in 0 .. t |-> v[i] * X[i]])

\* Create's shares for the sampled polynomial v; its Vs are the points v[c]*G.
CreateShares(t, v, ids) ==
    [i \in DOMAIN ids |->
        [threshold |-> t, id |-> ids[i], share |-> evaluatePolynomial(t, v, ids[i])]]

\* Share.Verify against the commitments vs.
Verify(s, t, vs) ==
    LET X == Powers(t, s.id)
    IN  s.threshold = t /\ s.share % Q = SumQ([c \in 0 .. t |-> vs[c] * X[c]])

\* Mutation of ReConstruct: the difference of the ids has the wrong sign.
ReConstructSignSwapped(S) ==
    IF \E s \in S : s.threshold > Cardinality(S) THEN -1
    ELSE SumQ([s \in S |-> s.share *
                ProdQ([u \in S \ {s} |-> u.id * ModInverse(s.id - u.id)])])

\* The error of ReConstruct, and ReConstruct on the shares S.
ErrNumSharesBelowThreshold == -1
ReConstruct(S) ==
    IF \E s \in S : s.threshold > Cardinality(S) THEN ErrNumSharesBelowThreshold
    ELSE SumQ([s \in S |-> s.share *
                ProdQ([u \in S \ {s} |-> u.id * ModInverse(u.id - s.id)])])

-----------------------------------------------------------------------------
\* Mutation of Lambda: the same for the signers' coefficients.
LambdaSignSwapped(i, I, ks) == ProdQ([j \in I \ {i} |-> ks[j] * ModInverse(ks[i] - ks[j])])

\* The Lagrange coefficient at 0 of signer i among the signers I with ids ks.
Lambda(i, I, ks) == ProdQ([j \in I \ {i} |-> ks[j] * ModInverse(ks[j] - ks[i])])

\* PrepareForSigning: w_i from x_i, and W_j from X_j for every signer j.
SigningWeight(i, I, ks, xi) == (xi * Lambda(i, I, ks)) % Q
SigningBigWs(I, ks, bigXs) == [j \in I |-> (bigXs[j] * Lambda(j, I, ks)) % Q]
=============================================================================
