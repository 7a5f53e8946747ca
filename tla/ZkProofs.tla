------------------------------ MODULE ZkProofs ------------------------------
(***************************************************************************)
(* The zero-knowledge proofs about curve points of crypto/zkp: knowledge   *)
(* of a discrete logarithm (dlog_proof.go), equality of two of them        *)
(* (ecddh_proof.go), the T and ST proofs (hv_proofs.go), and the equality  *)
(* of a logarithm and a Paillier plaintext (pdl_w_slack_proof.go).         *)
(*                                                                         *)
(* The random numbers of a prover are its arguments, `salt` stands for the *)
(* hash function.  A verification accepts, rejects or panics, and so does  *)
(* a prover whose commitment is the nil point.                             *)
(***************************************************************************)
EXTENDS EcPoint, Paillier, TssHash

\* p.X() and p.Y() compared with those of b: nil points panic.
Same(p, b) == IF p < 0 \/ b < 0 THEN "panic" ELSE IF p = b THEN "accept" ELSE "reject"

\* The challenge from the coordinates of points; nil ones panic.
Challenge(salt, points) == RejectionSample(Q, SHA512_256i(salt, points))

\* The outcome of "sum, err := a.Add(b); if err != nil { return false }", then
\* the comparison of the sum with p.
AddThenSame(a, b, p) == IF Add(a, b) = Nil THEN "reject" ELSE Same(Add(a, b), p)

\* Two checks in this order.
AndThen(first, second) == IF first = "accept" THEN second ELSE first

-----------------------------------------------------------------------------
\* NewDLogProof and Verify: X = g^x.
NewDLogProof(x, X, a, salt) ==
    LET alpha == ScalarBaseMult(a)
    IN  [alpha |-> alpha, t |-> (a + Challenge(salt, <<X, Base, alpha>>) * x) % Q]

\* Mutation of VerifyDLog: the statement is left out of the equation.
VerifyDLogNoX(X, pf, salt) == Same(pf.alpha, ScalarBaseMult(pf.t))

VerifyDLog(X, pf, salt) ==
    LET c == Challenge(salt, <<X, Base, pf.alpha>>)
    IN  AddThenSame(pf.alpha, ScalarMult(X, c), ScalarBaseMult(pf.t))

-----------------------------------------------------------------------------
\* NewECDDHProof and Verify: H1 = g^x and H2 = G2^x; the hash is not reduced.
ECDDHHash(salt, st, a1, a2) ==
    SHA512_256(salt, BigIntsToBytes(<<Base, st.H1, st.G2, st.H2, a1, a2>>))

NewECDDHProof(x, st, s, salt) ==
    LET a1 == ScalarBaseMult(s)
        a2 == ScalarMult(st.G2, s)
    IN  [a1 |-> a1, a2 |-> a2, z |-> s + ECDDHHash(salt, st, a1, a2) * x]

VerifyECDDH(st, pf, salt) ==
    LET e == ECDDHHash(salt, st, pf.a1, pf.a2)
        zG1 == ScalarBaseMult(pf.z)
        zG2 == ScalarMult(st.G2, pf.z)
        a1PlusEH1 == Add(ScalarMult(st.H1, e), pf.a1)
        a2PlusEH2 == Add(ScalarMult(st.H2, e), pf.a2)
    IN  IF a1PlusEH1 = Panic \/ (a1PlusEH1 # Nil /\ a2PlusEH2 = Panic) THEN "panic"
        ELSE IF Equals(zG1, a1PlusEH1) /\ Equals(zG2, a2PlusEH2) THEN "accept" ELSE "reject"

-----------------------------------------------------------------------------
calculateTAndU(a, c, sigma, b, l) == [t |-> (a + c * sigma) % Q, u |-> (b + c * l) % Q]

\* NewTProof and Verify: T = g^sigma * h^l.
NewTProof(T, h, sigma, l, a, b, salt) ==
    LET alpha == Add(ScalarBaseMult(a), ScalarMult(h, b))
        tu == calculateTAndU(a, Challenge(salt, <<T, h, Base, alpha>>), sigma, b, l)
    IN  [alpha |-> alpha, t |-> tu.t, u |-> tu.u]

VerifyT(T, h, pf, salt) ==
    LET c == Challenge(salt, <<T, h, Base, pf.alpha>>)
        tGuH == Add(ScalarBaseMult(pf.t), ScalarMult(h, pf.u))
    IN  IF tGuH = Panic THEN "panic" ELSE AddThenSame(pf.alpha, ScalarMult(T, c), tGuH)

\* NewSTProof and Verify: S = R^sigma and T = g^sigma * h^l.
NewSTProof(T, R, h, sigma, l, a, b, salt) ==
    LET alpha == ScalarMult(R, a)
        beta == Add(ScalarBaseMult(a), ScalarMult(h, b))
        tu == calculateTAndU(a, Challenge(salt, <<T, h, Base, alpha, beta>>), sigma, b, l)
    IN  [alpha |-> alpha, beta |-> beta, t |-> tu.t, u |-> tu.u]

VerifyST(S, T, R, h, pf, salt) ==
    LET c == Challenge(salt, <<T, h, Base, pf.alpha, pf.beta>>)
        tGuH == Add(ScalarBaseMult(pf.t), ScalarMult(h, pf.u))
    IN  AndThen(AddThenSame(pf.alpha, ScalarMult(S, c), ScalarMult(R, pf.t)),
                IF tGuH = Panic THEN "panic" ELSE AddThenSame(pf.beta, ScalarMult(T, c), tGuH))

-----------------------------------------------------------------------------
commitmentUnknownOrder(h1, h2, n, x, r) == MulMod(Exp(h1, x, n), Exp(h2, r, n), n)

\* NewPDLwSlackProof and Verify: the ciphertext st.c encrypts x and st.Y = st.G^x.
\* The hash e is not reduced mod Q.
PDLHash(salt, st, pf) ==
    SHA512_256i(salt, <<st.G, st.Y, st.c, pf.z, pf.u1, pf.u2, pf.u3>>)

NewPDLwSlackProof(st, x, r, rnd, salt) ==
    LET com == [z |-> commitmentUnknownOrder(st.h1, st.h2, st.NTilde, x, rnd.rho),
                u1 |-> ScalarMult(st.G, rnd.alpha),
                u2 |-> commitmentUnknownOrder(Gamma(st.N), rnd.beta, NSquare(st.N), rnd.alpha, st.N),
                u3 |-> commitmentUnknownOrder(st.h1, st.h2, st.NTilde, rnd.alpha, rnd.gamma)]
        e == PDLHash(salt, st, com)
    IN  [z |-> com.z, u1 |-> com.u1, u2 |-> com.u2, u3 |-> com.u3,
         s1 |-> e * x + rnd.alpha,
         s2 |-> commitmentUnknownOrder(r, rnd.beta, st.N, e, 1),
         s3 |-> e * rnd.rho + rnd.gamma]

\* Mutation of VerifyPDL: the exponent of the statement is e, not -e.
VerifyPDLSign(st, pf, salt) ==
    LET e == PDLHash(salt, st, pf)
    IN  IF Equals(pf.u1, Add(ScalarMult(st.G, pf.s1), ScalarMult(st.Y, e)))
        THEN "accept" ELSE "reject"

VerifyPDL(st, pf, salt) ==
    LET e == PDLHash(salt, st, pf)
        u1Test == Add(ScalarMult(st.G, pf.s1), ScalarMult(st.Y, Q - e))
        u2Test == commitmentUnknownOrder(
                    commitmentUnknownOrder(Gamma(st.N), pf.s2, NSquare(st.N), pf.s1, st.N),
                    st.c, NSquare(st.N), 1, -e)
        u3Test == commitmentUnknownOrder(
                    commitmentUnknownOrder(st.h1, st.h2, st.NTilde, pf.s1, pf.s3),
                    pf.z, st.NTilde, 1, -e)
    IN  IF u1Test = Panic THEN "panic"
        ELSE IF /\ u1Test # Nil
                /\ pf.s2 # 0 /\ GCD(pf.s2, st.N) = 1
                /\ pf.u2 # 0 /\ GCD(pf.u2, st.N) = 1
                /\ Equals(pf.u1, u1Test) /\ pf.u2 = u2Test /\ pf.u3 = u3Test
        THEN "accept" ELSE "reject"
=============================================================================
