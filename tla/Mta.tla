--------------------------------- MODULE Mta --------------------------------
(***************************************************************************)
(* The conversion of a product into a sum, crypto/mta: share_protocol.go,  *)
(* the range proof of Alice (range_proof.go) and the proof of Bob with and *)
(* without check (proofs.go).  `par` holds what the parties know of each   *)
(* other: the modulus N of Alice's Paillier key, and NTilde, h1, h2 of the *)
(* party the proof is for.  The random numbers of a proof are its argument *)
(* `rnd`; `salt` stands for the hash function.                             *)
(***************************************************************************)
EXTENDS EcPoint, Paillier, TssHash

q3 == Q * Q * Q
q5 == q3 * Q * Q
q7 == q5 * Q * Q

Commit(par, x, r) == MulMod(Exp(par.h1, x, par.NTilde), Exp(par.h2, r, par.NTilde), par.NTilde)

Units(S, n) == \A v \in S : IsInInterval(v, n) /\ GCD(v, n) = 1

Challenge(salt, in) == RejectionSample(Q, SHA512_256i(salt, in))
AsInts(N) == <<N, Gamma(N)>>

\* The fields of a proof as they travel: a field that is 0 has no bytes, and the
\* ...FromBytes functions refuse it.
OnWire(fields) == NonEmptyMultiBytes(BigIntsToBytes(fields))

-----------------------------------------------------------------------------
\* Alice proves that the plaintext m of c = Enc(m; r) is small.
ProveRangeAlice(par, c, m, r, rnd, salt) ==
    LET NSq == NSquare(par.N)
        z == Commit(par, m, rnd.rho)
        u == MulMod(Exp(Gamma(par.N), rnd.alpha, NSq), Exp(rnd.beta, par.N, NSq), NSq)
        w == Commit(par, rnd.alpha, rnd.gamma)
        e == Challenge(salt, AsInts(par.N) \o <<c, z, u, w>>)
    IN  [z |-> z, u |-> u, w |-> w,
         s |-> MulMod(Exp(r, e, par.N), rnd.beta, par.N),
         s1 |-> e * m + rnd.alpha, s2 |-> e * rnd.rho + rnd.gamma]

RangeProofAliceFromBytes(pf) == OnWire(<<pf.z, pf.u, pf.w, pf.s, pf.s1, pf.s2>>)

VerifyRangeAlice(par, c, pf, salt) ==
    LET NSq == NSquare(par.N)
        e == Challenge(salt, AsInts(par.N) \o <<c, pf.z, pf.u, pf.w>>)
        u == MulMod(MulMod(Exp(Gamma(par.N), pf.s1, NSq), Exp(pf.s, par.N, NSq), NSq),
                    Exp(c, -e, NSq), NSq)
        w == MulMod(Commit(par, pf.s1, pf.s2), Exp(pf.z, -e, par.NTilde), par.NTilde)
    IN  /\ Units({pf.z, pf.w}, par.NTilde)
        /\ Units({pf.u}, NSq)
        /\ IsInInterval(pf.s, par.N)
        /\ pf.s1 <= q3
        /\ pf.u = u
        /\ pf.w = w

-----------------------------------------------------------------------------
\* Bob proves that c2 = c1^x * Enc(y; r) with x and y small, and with check also
\* that X = g^x (X is nil without check).
BobHash(salt, par, c1, c2, X, U, pf) ==
    Challenge(salt, AsInts(par.N) \o (IF X = Nil THEN <<c1, c2>> ELSE <<X, c1, c2, U>>)
                        \o <<pf.z, pf.zPrm, pf.t, pf.v, pf.w>>)

ProveBobWC(par, c1, c2, x, y, r, X, rnd, salt) ==
    LET NSq == NSquare(par.N)
        U == IF X = Nil THEN Nil ELSE ScalarBaseMult(rnd.alpha)
        com == [z |-> Commit(par, x, rnd.rho), zPrm |-> Commit(par, rnd.alpha, rnd.rhoPrm),
                t |-> Commit(par, y, rnd.sigma), w |-> Commit(par, rnd.gamma, rnd.tau),
                v |-> MulMod(MulMod(Exp(c1, rnd.alpha, NSq), Exp(Gamma(par.N), rnd.gamma, NSq), NSq),
                             Exp(rnd.beta, par.N, NSq), NSq)]
        e == BobHash(salt, par, c1, c2, X, U, com)
    IN  [z |-> com.z, zPrm |-> com.zPrm, t |-> com.t, v |-> com.v, w |-> com.w, U |-> U,
         s |-> MulMod(Exp(r, e, par.N), rnd.beta, par.N),
         s1 |-> e * x + rnd.alpha, s2 |-> e * rnd.rho + rnd.rhoPrm,
         t1 |-> e * y + rnd.gamma, t2 |-> e * rnd.sigma + rnd.tau]

\* u.X() on a nil point: the proof with check panics where it is made.
ProveBobPanics(X, pf) == X # Nil /\ pf.U = Nil

ProofBobFromBytes(pf) ==
    OnWire(<<pf.z, pf.zPrm, pf.t, pf.v, pf.w, pf.s, pf.s1, pf.s2, pf.t1, pf.t2>>)

\* ProofBobWC.Verify, and ProofBob.Verify for X = Nil: TRUE, FALSE, or Panic.
VerifyBobWC(par, c1, c2, X, pf, salt) ==
    LET NSq == NSquare(par.N)
        e == BobHash(salt, par, c1, c2, X, pf.U, pf)
        xEU == Add(ScalarMult(X, e), pf.U)
        bounds == /\ Units({pf.z, pf.zPrm, pf.t, pf.w}, par.NTilde)
                  /\ Units({pf.v}, NSq)
                  /\ Units({pf.s}, par.N) /\ pf.s # 0
                  /\ pf.s1 <= q3 /\ pf.t1 <= q7
        equations ==
            /\ Commit(par, pf.s1, pf.s2) = MulMod(Exp(pf.z, e, par.NTilde), pf.zPrm, par.NTilde)
            /\ Commit(par, pf.t1, pf.t2) = MulMod(Exp(pf.t, e, par.NTilde), pf.w, par.NTilde)
            /\ MulMod(MulMod(Exp(c1, pf.s1, NSq), Exp(pf.s, par.N, NSq), NSq),
                      Exp(Gamma(par.N), pf.t1, NSq), NSq)
                 = MulMod(Exp(c2, e, NSq), pf.v, NSq)
    IN  CASE ~bounds -> "reject"
          [] bounds /\ X # Nil /\ xEU = Panic -> "panic"
          [] bounds /\ X # Nil /\ xEU # Panic /\ ~Equals(ScalarBaseMult(pf.s1 % Q), xEU) -> "reject"
          [] OTHER -> IF equations THEN "accept" ELSE "reject"

-----------------------------------------------------------------------------
\* Mutation of BobBeta: the mask is not negated.
BobBetaPlus(betaPrm) == betaPrm % Q

\* BobMid and BobMidWC: Bob's ciphertext for his b and his additive share.
BobCipher(par, cA, b, betaPrm, cRand) ==
    HomoAdd(par.N, HomoMult(par.N, b, cA), EncryptWithChosenRandomness(par.N, betaPrm, cRand))
BobBeta(betaPrm) == (0 - betaPrm) % Q

\* AliceEnd and AliceEndWC: Alice's additive share.
AliceShare(sk, cB) == Decrypt(sk, cB) % Q
=============================================================================
