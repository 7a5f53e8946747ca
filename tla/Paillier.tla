------------------------------ MODULE Paillier ------------------------------
(***************************************************************************)
(* The Paillier crypto-system and the proof that a modulus is well formed, *)
(* crypto/paillier/paillier.go.  A public key is its modulus N.            *)
(***************************************************************************)
EXTENDS ModArith, Sequences

\* The private key GenerateKeyPair makes from the two safe primes.
KeyPair(P, Q) ==
    LET phiN == (P - 1) * (Q - 1)
    IN  [N |-> P * Q, PhiN |-> phiN, LambdaN |-> phiN \div GCD(P - 1, Q - 1)]

NSquare(N) == N * N
Gamma(N) == N + 1

EncryptWithChosenRandomness(N, m, x) ==
    IF x = 0 \/ ~IsInInterval(m, N) THEN Nil
    ELSE MulMod(Exp(Gamma(N), m, NSquare(N)), Exp(x, N, NSquare(N)), NSquare(N))

\* Mutation of HomoMult: the plaintext is added, not multiplied.
HomoMultAdds(N, m, c1) == MulMod(c1, Exp(Gamma(N), m, NSquare(N)), NSquare(N))

HomoMult(N, m, c1) ==
    IF ~IsInInterval(m, N) \/ ~IsInInterval(c1, NSquare(N)) THEN Nil
    ELSE Exp(c1, m, NSquare(N))

HomoAdd(N, c1, c2) ==
    IF ~IsInInterval(c1, NSquare(N)) \/ ~IsInInterval(c2, NSquare(N)) THEN Nil
    ELSE MulMod(c1, c2, NSquare(N))

L(u, N) == (u - 1) \div N

Decrypt(sk, c) ==
    LET N == sk.N
        Lc == L(Exp(c, sk.LambdaN, NSquare(N)), N)
        Lg == L(Exp(Gamma(N), sk.LambdaN, NSquare(N)), N)
    IN  IF ~IsInInterval(c, NSquare(N)) THEN Nil ELSE MulMod(Lc, Inverse(Lg, N), N)

\* x from c: c * (1 - m*N) is x^N mod N^2, and N^-1 mod phi takes the root.
DecryptAndRecoverRandomness(sk, c) ==
    LET m == Decrypt(sk, c)
        cDash == MulMod(c, 1 - MulMod(m, sk.N, NSquare(sk.N)), NSquare(sk.N))
    IN  [m |-> m, x |-> Exp(cDash, Inverse(sk.N, sk.PhiN), sk.N)]

-----------------------------------------------------------------------------
(* GenerateXs hashes the key, the ECDSA public key and two counters until  *)
(* it has ProofIters numbers of the multiplicative group; prover and       *)
(* verifier compute the same ones, and they may be any.                    *)

GenerateXs(N, iters) == [1 .. iters -> RandomPositiveRelativelyPrimeInt(N)]

\* PrivateKey.Proof: the N-th roots of the challenges.
Proof(sk, xs) ==
    LET M == Inverse(sk.N, sk.PhiN) IN [i \in DOMAIN xs |-> Exp(xs[i], M, sk.N)]

\* Mutation of VerifyProof: small factors of N are not looked for.
VerifyProofNoPrimes(N, xs, pf, prms) == \A i \in DOMAIN xs : xs[i] % N = Exp(pf[i], N, N)

\* Proof.Verify: no small prime divides N and every root is one.
VerifyProof(N, xs, pf, prms) ==
    /\ \A prm \in prms : N % prm # 0
    /\ \A i \in DOMAIN xs : xs[i] % N = Exp(pf[i], N, N)
=============================================================================
