------------------------------- MODULE Crypto -------------------------------
(***************************************************************************)
(* The cryptographic building blocks, each run as its callers in the       *)
(* protocols run it: secret sharing, Paillier, the conversion of a product *)
(* into a sum and the zero-knowledge proofs.  A job is one such use with   *)
(* its inputs and its random numbers; `out` is what the calls returned.    *)
(*                                                                         *)
(* The jobs of a kind are a constant.  Its assumption says what the        *)
(* program can call the block with and what its random number generators   *)
(* can return, so that the theorems hold for every such call; the run      *)
(* takes a finite sample.                                                  *)
(***************************************************************************)
EXTENDS FeldmanVss, Sequences

CONSTANTS
    QMta,    \* order of the group where a Paillier modulus of q^5 + q^2 is needed
    Salts,   \* hash functions that an answer without a witness is tried with
    VssJobs, PaillierJobs, MtaJobs, DLogJobs, DDHJobs, STJobs, PDLJobs, DlnJobs, PaiProofJobs,
    ForgeJobs, ForgeDDHJobs, ModulusJobs

Pai == INSTANCE Paillier
Secp == INSTANCE ZkProofs WITH Cofactor <- 1, InfinityAffine <- FALSE
Edw == INSTANCE ZkProofs WITH Cofactor <- 8, InfinityAffine <- TRUE
Sml == INSTANCE ZkProofs WITH Q <- QMta, Cofactor <- 1, InfinityAffine <- FALSE
Mt == INSTANCE Mta WITH Q <- QMta, Cofactor <- 1, InfinityAffine <- FALSE
Dln == INSTANCE DlnProof

VARIABLES job, pc, out

vars == <<job, pc, out>>

Nil == -1
NoOut == <<>>

\* pc goes to pc', with the result r.
Step(kind, from, to, r) ==
    /\ job.kind = kind
    /\ pc = from
    /\ pc' = to
    /\ out' = r
    /\ UNCHANGED job

Done(kind) == job.kind = kind /\ pc = "done"

IsPrime(p) == p \in Nat /\ p > 1 /\ \A d \in 2 .. p - 1 : p % d # 0

ASSUME QMtaAssumption == IsPrime(QMta) /\ QMta # 2
ASSUME SaltsAssumption == Salts \subseteq Nat

\* Two primes that a Paillier key can be made of: N has an inverse mod phi(N).
\* Two odd primes with the same number of bits, as GenerateKeyPair takes, are.
KeyOk(P, R) ==
    IsPrime(P) /\ IsPrime(R) /\ P # R /\ Pai!GCD(P * R, (P - 1) * (R - 1)) = 1

\* The numbers S are of the multiplicative group mod n.
InGroup(n, S) == \A v \in S : v \in Nat /\ Pai!IsNumberInMultiplicativeGroup(n, v)
Draw(n) == Pai!RandomPositiveInt(n)

-----------------------------------------------------------------------------
(* Secret sharing: a dealer creates shares for a list of ids, some of them *)
(* perhaps 0 or equal mod the order, and some holders put their shares     *)
(* together.                                                               *)

ASSUME VssJobsAssumption ==
    \A j \in VssJobs :
        /\ j.kind = "vss"
        /\ j.t \in Nat
        /\ IsFiniteSet(DOMAIN j.ids) /\ \A i \in DOMAIN j.ids : j.ids[i] \in Int
        /\ j.poly \in [0 .. j.t -> Zq]

Shares == CreateShares(job.t, job.poly, job.ids)

Create ==
    Step("vss", "ready", IF CreateOk(job.t, job.ids) THEN "shared" ELSE "refused", NoOut)

Combine ==
    /\ job.kind = "vss"
    /\ \E S \in SUBSET (DOMAIN job.ids) \ {{}} :
          Step("vss", "shared", "done",
               [holders |-> S, secret |-> ReConstruct({Shares[i] : i \in S})])

\* More than t holders always recover the secret: Create let only ids pass
\* that are pairwise different and not 0 mod the group order, whatever size
\* they have (vss.CheckIndexes).
EnoughSharesRecover ==
    (Done("vss") /\ Cardinality(out.holders) > job.t) => out.secret = job.poly[0]

\* The signing weights of any t+1 or more holders add up to the secret, and the
\* assertion g^w_i == W_i of PrepareForSigning holds for each of them.
WeightsAddUp ==
    (Done("vss") /\ Cardinality(out.holders) > job.t) =>
        LET w(i) == SigningWeight(i, out.holders, job.ids, Shares[i].share)
            bigXs == [i \in out.holders |-> evaluatePolynomial(job.t, job.poly, job.ids[i])]
        IN  /\ SumQ([i \in out.holders |-> w(i)]) = job.poly[0]
            /\ \A i \in out.holders : w(i) = SigningBigWs(out.holders, job.ids, bigXs)[i]

-----------------------------------------------------------------------------
(* Paillier: two plaintexts, the first perhaps out of range, encrypted,    *)
(* added, multiplied and decrypted.                                        *)

ASSUME PaillierJobsAssumption ==
    \A j \in PaillierJobs :
        /\ j.kind = "paillier"
        /\ KeyOk(j.P, j.R)
        /\ j.m1 \in Int /\ j.m2 \in 0 .. j.P * j.R - 1
        /\ j.x1 = 0 \/ InGroup(j.P * j.R, {j.x1})
        /\ InGroup(j.P * j.R, {j.x2})

PaillierOut(j) ==
    LET sk == Pai!KeyPair(j.P, j.R)
        c1 == Pai!EncryptWithChosenRandomness(sk.N, j.m1, j.x1)
        c2 == Pai!EncryptWithChosenRandomness(sk.N, j.m2, j.x2)
    IN  [c1 |-> c1,
         sum |-> Pai!Decrypt(sk, Pai!HomoAdd(sk.N, c1, c2)),
         prod |-> Pai!Decrypt(sk, Pai!HomoMult(sk.N, j.m2, c1)),
         rec |-> Pai!DecryptAndRecoverRandomness(sk, c1)]

UsePaillier == Step("paillier", "ready", "done", PaillierOut(job))

\* What is in range is encrypted and comes back with its randomness, sums and
\* products of ciphertexts decrypt to sums and products mod N; what is not in
\* range is refused by every operation.
PaillierRoundTrip ==
    Done("paillier") =>
        LET N == job.P * job.R
            ok == job.m1 \in 0 .. N - 1 /\ job.x1 # 0
        IN  IF ok THEN /\ out.rec = [m |-> job.m1, x |-> job.x1]
                       /\ out.sum = (job.m1 + job.m2) % N
                       /\ out.prod = (job.m1 * job.m2) % N
            ELSE out.c1 = Nil /\ out.sum = Nil /\ out.prod = Nil /\ out.rec.m = Nil

-----------------------------------------------------------------------------
(* The conversion of a*b: AliceInit, BobMid or BobMidWC, AliceEnd or       *)
(* AliceEndWC, each proof through its bytes.  N has room for q^5 + q^2.    *)

\* A Paillier modulus, and NTilde, h1, h2 of the verifier of a range proof.
ParOf(j) == [N |-> j.P * j.R, NTilde |-> j.NTilde, h1 |-> j.h1, h2 |-> j.h2]
ParOk(j) ==
    /\ KeyOk(j.P, j.R)
    /\ j.NTilde \in Nat /\ j.NTilde > 1
    /\ InGroup(j.NTilde, {j.h1, j.h2})

ASSUME MtaJobsAssumption ==
    \A j \in MtaJobs :
        /\ j.kind = "mta" /\ j.wc \in BOOLEAN
        /\ ParOk(j) /\ Mt!q5 + QMta * QMta <= j.P * j.R
        /\ j.a \in 0 .. QMta - 1 /\ j.b \in 1 .. QMta - 1
        /\ j.rndA \in [alpha : Draw(Mt!q3), beta : Nat,
                       gamma : Draw(Mt!q3 * j.NTilde), rho : Draw(QMta * j.NTilde)]
        /\ j.betaPrm \in Draw(Mt!q5)
        /\ InGroup(j.P * j.R, {j.rA, j.rndA.beta, j.cRand, j.rndB.beta})
        /\ j.rndB \in [alpha : Draw(Mt!q3), beta : Nat, gamma : Draw(Mt!q7),
                       rho : Draw(QMta * j.NTilde), rhoPrm : Draw(Mt!q3 * j.NTilde),
                       sigma : Draw(QMta * j.NTilde), tau : Draw(Mt!q3 * j.NTilde)]
        /\ j.salt \in Nat

MtaX(j) == IF j.wc THEN Mt!ScalarBaseMult(j.b) ELSE Nil

\* Alice's ciphertext and range proof.
AliceOut(j) ==
    LET cA == Pai!EncryptWithChosenRandomness(j.P * j.R, j.a, j.rA)
    IN  [cA |-> cA, pfA |-> Mt!ProveRangeAlice(ParOf(j), cA, j.a, j.rA, j.rndA, j.salt)]

AliceInit == Step("mta", "ready", "bob", AliceOut(job))

BobOut(j, o) ==
    LET cB == Mt!BobCipher(ParOf(j), o.cA, j.b, j.betaPrm, j.cRand)
        pfB == Mt!ProveBobWC(ParOf(j), o.cA, cB, j.b, j.betaPrm, j.cRand, MtaX(j), j.rndB, j.salt)
    IN  [cA |-> o.cA, pfA |-> o.pfA, cB |-> cB, pfB |-> pfB,
         stop |-> IF ~Mt!RangeProofAliceFromBytes(o.pfA) THEN "range bytes"
                  ELSE IF ~Mt!VerifyRangeAlice(ParOf(j), o.cA, o.pfA, j.salt) THEN "range proof"
                  ELSE IF Mt!ProveBobPanics(MtaX(j), pfB) THEN "nil point"
                  ELSE "no",
         beta |-> Mt!BobBeta(j.betaPrm), alpha |-> Nil]

BobMid ==
    /\ job.kind = "mta" /\ pc = "bob"
    /\ LET r == BobOut(job, out)
       IN  Step("mta", "bob", IF r.stop = "no" THEN "alice" ELSE "done", r)

AliceEndOut(j, o) ==
    LET verdict == Mt!VerifyBobWC(ParOf(j), o.cA, o.cB, MtaX(j), o.pfB, j.salt)
        stop == IF ~Mt!ProofBobFromBytes(o.pfB) THEN "bob bytes"
                ELSE IF verdict = "accept" THEN "no" ELSE verdict
    IN  [o EXCEPT !.stop = stop,
                  !.alpha = IF stop = "no" THEN Mt!AliceShare(Pai!KeyPair(j.P, j.R), o.cB) ELSE Nil]

AliceEnd == Step("mta", "alice", "done", AliceEndOut(job, out))

\* An honest conversion ends with shares of a*b, or at one of the checks and
\* only for its reason: a response of a proof exceeds q^3 or q^7, a response is 0
\* and has no bytes, or, with check, a multiple of a point is the nil point.
MtaSharesAddUp ==
    Done("mta") =>
        LET zeroPoint == 0 \in {job.rndB.alpha % QMta, (out.pfB.s1 - job.rndB.alpha) % QMta,
                                out.pfB.s1 % QMta}
        IN  CASE out.stop = "no" -> (out.alpha + out.beta) % QMta = (job.a * job.b) % QMta
              [] out.stop = "range bytes" -> 0 \in {out.pfA.s1, out.pfA.s2}
              [] out.stop = "range proof" -> out.pfA.s1 > Mt!q3
              [] out.stop = "nil point" -> job.wc /\ job.rndB.alpha % QMta = 0
              [] out.stop = "bob bytes" -> 0 \in {out.pfB.s1, out.pfB.s2, out.pfB.t1, out.pfB.t2}
              [] out.stop = "panic" -> job.wc /\ zeroPoint
              [] out.stop = "reject" ->
                     out.pfB.s1 > Mt!q3 \/ out.pfB.t1 > Mt!q7 \/ (job.wc /\ zeroPoint)

-----------------------------------------------------------------------------
(* The zero-knowledge proofs of an honest prover about points.             *)

\* The points of secp256k1 that are not nil.
Points1 == 1 .. Q - 1

ASSUME PointJobsAssumption ==
    /\ DLogJobs \subseteq [kind : {"dlog"}, edwards : BOOLEAN, x : Zq, a : Zq, salt : Nat]
    /\ DDHJobs \subseteq [kind : {"ddh"}, x : Points1, G2 : Points1, s : Zq, salt : Nat]
    /\ STJobs \subseteq [kind : {"st"}, sigma : Points1, l : Zq, a : Zq, b : Zq, h : Points1,
                         R : Points1, salt : Nat]

\* The verdict on a proof whose prover could form the points ps.
Verdict(ps, v) == IF \E p \in ps : p < 0 THEN "nil point" ELSE v

\* X = g^x, on either curve.
DLogX(j) == IF j.edwards THEN Edw!ScalarBaseMult(j.x) ELSE Secp!ScalarBaseMult(j.x)
DLogOut(j) ==
    LET X == DLogX(j)
        pf == IF j.edwards THEN Edw!NewDLogProof(j.x, X, j.a, j.salt)
              ELSE Secp!NewDLogProof(j.x, X, j.a, j.salt)
    IN  [pf |-> pf,
         verdict |-> Verdict({pf.alpha}, IF j.edwards THEN Edw!VerifyDLog(X, pf, j.salt)
                                         ELSE Secp!VerifyDLog(X, pf, j.salt))]

ProveDLog ==
    /\ job.kind = "dlog"
    /\ Step("dlog", "ready", IF DLogX(job) = Nil THEN "refused" ELSE "done", DLogOut(job))

DDHOut(j) ==
    LET st == [G2 |-> j.G2, H1 |-> j.x, H2 |-> Secp!ScalarMult(j.G2, j.x)]
        pf == Secp!NewECDDHProof(j.x, st, j.s, j.salt)
    IN  [pf |-> pf, verdict |-> Verdict({pf.a1, pf.a2}, Secp!VerifyECDDH(st, pf, j.salt))]

ProveDDH == Step("ddh", "ready", "done", DDHOut(job))

\* The T proof and the ST proof of round 3 and round 6.
STOut(j) ==
    LET T == Secp!Add(j.sigma, Secp!ScalarMult(j.h, j.l))
        S == Secp!ScalarMult(j.R, j.sigma)
        pfT == Secp!NewTProof(T, j.h, j.sigma, j.l, j.a, j.b, j.salt)
        pfST == Secp!NewSTProof(T, j.R, j.h, j.sigma, j.l, j.a, j.b, j.salt)
    IN  [T |-> T, pfT |-> pfT, pfST |-> pfST,
         verdictT |-> Verdict({T, pfT.alpha}, Secp!VerifyT(T, j.h, pfT, j.salt)),
         verdictST |-> Verdict({T, pfST.alpha, pfST.beta},
                               Secp!VerifyST(S, T, j.R, j.h, pfST, j.salt))]

ProveST ==
    /\ job.kind = "st"
    /\ Step("st", "ready", IF STOut(job).T < 0 THEN "refused" ELSE "done", STOut(job))

\* The proof of an honest prover about points is accepted exactly if none of its
\* numbers is 0 mod the order of the group, which gives the nil point (on
\* edwards25519 it is always accepted); the T and ST proofs, whose sums of two
\* points may be nil as well, are accepted if none of their points is.
PointProofsComplete ==
    /\ Done("dlog") =>
         (out.verdict = "accept" <=>
            job.edwards \/ 0 \notin {job.x, job.a, (out.pf.t - job.a) % Q, out.pf.t})
    /\ Done("ddh") =>
         (out.verdict = "accept" <=> 0 \notin {job.s, (out.pf.z - job.s) % Q, out.pf.z % Q})
    /\ Done("st") =>
         LET zero(pf) == {pf.t, (pf.t - job.a) % Q, (pf.t + job.h * pf.u) % Q}
             mask == {job.a, job.b, (job.a + job.h * job.b) % Q}
         IN  /\ 0 \notin mask \cup zero(out.pfT) \cup {out.pfT.u} => out.verdictT = "accept"
             /\ 0 \notin mask \cup zero(out.pfST) \cup {out.pfST.u} => out.verdictST = "accept"
             /\ "reject" \in {out.verdictT, out.verdictST} =>
                    0 \in {out.pfT.t, (out.pfT.t + job.h * out.pfT.u) % Q,
                           out.pfST.t, (out.pfST.t + job.h * out.pfST.u) % Q}

-----------------------------------------------------------------------------
(* The proofs about moduli: that a Paillier ciphertext and a point hide    *)
(* the same number, that h1 and h2 are powers of each other, and that N is *)
(* a Paillier modulus.                                                     *)

ASSUME PDLJobsAssumption ==
    \A j \in PDLJobs :
        /\ j.kind = "pdl" /\ ParOk(j)
        /\ j.x \in 1 .. QMta - 1 /\ QMta <= j.P * j.R
        /\ j.G \in 1 .. QMta - 1 /\ InGroup(j.P * j.R, {j.r})
        /\ j.rnd \in [alpha : Draw(Mt!q3), beta : 1 .. j.P * j.R - 1,
                      gamma : Draw(Mt!q3 * j.NTilde), rho : Draw(QMta * j.NTilde)]
        /\ j.salt \in Nat

PDLStatement(j) ==
    [N |-> j.P * j.R, NTilde |-> j.NTilde, h1 |-> j.h1, h2 |-> j.h2, G |-> j.G,
     Y |-> Sml!ScalarMult(j.G, j.x),
     c |-> Pai!EncryptWithChosenRandomness(j.P * j.R, j.x, j.r)]

PDLOut(j) ==
    LET st == PDLStatement(j)
        pf == Sml!NewPDLwSlackProof(st, j.x, j.r, j.rnd, j.salt)
    IN  [pf |-> pf, verdict |-> Verdict({pf.u1}, Sml!VerifyPDL(st, pf, j.salt))]

ProvePDL == Step("pdl", "ready", "done", PDLOut(job))

ASSUME DlnJobsAssumption ==
    \A j \in DlnJobs :
        LET NTilde == (2 * j.p + 1) * (2 * j.q + 1)
        IN  /\ j.kind = "dln"
            /\ IsPrime(j.p) /\ IsPrime(j.q) /\ j.p # j.q
            /\ IsPrime(2 * j.p + 1) /\ IsPrime(2 * j.q + 1)
            /\ InGroup(NTilde, {j.f1, j.alpha})
            /\ j.a \in [1 .. Dln!Iterations -> Draw(j.p * j.q)]
            /\ j.salt \in Nat

DlnParams(j) == Dln!PreParams(j.p, j.q, j.f1, j.alpha)

\* The two proofs of round 1 of the key generation, h2 = h1^alpha and h1 = h2^beta.
DlnOut(j) ==
    LET pp == DlnParams(j)
        pf1 == Dln!NewProof(pp.H1i, pp.H2i, pp.Alpha, j.p, j.q, pp.NTildei, j.a, j.salt)
        pf2 == Dln!NewProof(pp.H2i, pp.H1i, pp.Beta, j.p, j.q, pp.NTildei, j.a, j.salt)
    IN  [pp |-> pp, pf1 |-> pf1, pf2 |-> pf2,
         ok1 |-> Dln!VerifyDln(pp.H1i, pp.H2i, pp.NTildei, pf1, j.salt),
         ok2 |-> Dln!VerifyDln(pp.H2i, pp.H1i, pp.NTildei, pf2, j.salt)]

ProveDln ==
    /\ job.kind = "dln"
    /\ Step("dln", "ready", IF DlnParams(job).Beta = Nil THEN "refused" ELSE "done", DlnOut(job))

\* The challenges are any that GenerateXs can return, and no small prime of the
\* verifier divides N, whose factors are large.
ASSUME PaiProofJobsAssumption ==
    \A j \in PaiProofJobs :
        /\ j.kind = "paiproof"
        /\ KeyOk(j.P, j.R) /\ \A prm \in j.prms : (j.P * j.R) % prm # 0
        /\ j.iters \in Nat /\ j.xs \in Pai!GenerateXs(j.P * j.R, j.iters)

ProvePaillier ==
    Step("paiproof", "ready", "done",
         [ok |-> Pai!VerifyProof(job.P * job.R, job.xs,
                                 Pai!Proof(Pai!KeyPair(job.P, job.R), job.xs), job.prms)])

\* The proof about a Paillier ciphertext is accepted exactly if none of its
\* numbers is 0 mod the order of the group, its mask shares no factor with N, and
\* its hash is below the order, whose difference to it else loses its sign; the
\* proofs about h1 and h2 are accepted unless a number of theirs is 0 or 1; the
\* proof about the modulus always is.
ModulusProofsComplete ==
    /\ Done("pdl") =>
         LET e == (out.pf.s1 - job.rnd.alpha) \div job.x
         IN  out.verdict = "accept" <=>
                /\ 0 < e /\ e < QMta
                /\ job.rnd.alpha % QMta # 0 /\ out.pf.s1 % QMta # 0
                /\ Pai!GCD(job.rnd.beta, job.P * job.R) = 1
    /\ Done("dln") =>
         LET good(pf) == \A i \in 1 .. Dln!Iterations : pf.t[i] > 1 /\ pf.alpha[i] > 1
             bases == out.pp.H1i # 1 /\ out.pp.H2i # 1 /\ out.pp.H1i # out.pp.H2i
         IN  out.ok1 = (bases /\ good(out.pf1)) /\ out.ok2 = (bases /\ good(out.pf2))
    /\ Done("paiproof") => out.ok

\* Whatever an honest prover proves, the verifier refuses it only for one of the
\* numbers above.
ProofsComplete == PointProofsComplete /\ ModulusProofsComplete

-----------------------------------------------------------------------------
(* What an accepted proof shows, for any prover.                           *)

ASSUME ForgeJobsAssumption ==
    /\ \A j \in ForgeJobs :
          /\ j.kind = "forge" /\ j.edwards \in BOOLEAN /\ j.t \in Zq /\ j.salt \in Nat
          /\ j.X \in (IF j.edwards THEN Edw!Point ELSE Secp!Point)
          /\ j.alpha \in (IF j.edwards THEN Edw!Point ELSE Secp!Point)
    /\ ForgeDDHJobs \subseteq [kind : {"ddhforge"}, G2 : Points1, H1 : Points1, H2 : Points1,
                               s1 : Points1, s2 : Points1]
    /\ ModulusJobs \subseteq [kind : {"modulus"}, N : Nat]

\* The challenge and the verdict for the answer t to the commitment j.alpha.  On
\* edwards25519 the statement is first cleared of its component of small order,
\* as round 3 of the EdDSA protocols does.
AnswerDLog(j, t, salt) ==
    LET pf == [alpha |-> j.alpha, t |-> t]
    IN  IF j.edwards
        THEN [c |-> Edw!Challenge(salt, <<Edw!EightInvEight(j.X), Edw!Base, j.alpha>>),
              verdict |-> Edw!VerifyDLog(Edw!EightInvEight(j.X), pf, salt)]
        ELSE [c |-> Secp!Challenge(salt, <<j.X, Secp!Base, j.alpha>>),
              verdict |-> Secp!VerifyDLog(j.X, pf, salt)]

ForgeDLog == Step("forge", "ready", "done", AnswerDLog(job, job.t, job.salt))

\* The challenges mod Q that some z answers for the commitment (s1*G, s2*G).
DDHAccepted(j, salt) ==
    LET st == [G2 |-> j.G2, H1 |-> j.H1, H2 |-> j.H2]
    IN  \E z \in Zq : Secp!VerifyECDDH(st, [a1 |-> j.s1, a2 |-> j.s2, z |-> z], salt) = "accept"
DDHAnswered(j) ==
    LET st == [G2 |-> j.G2, H1 |-> j.H1, H2 |-> j.H2]
    IN  {Secp!ECDDHHash(salt, st, j.s1, j.s2) % Q : salt \in {v \in Salts : DDHAccepted(j, v)}}

ForgeDDH == Step("ddhforge", "ready", "done", [answered |-> DDHAnswered(job)])

\* Two accepted answers t, t' to challenges c # c' for one alpha give the
\* discrete logarithm (t - t') / (c - c') of the statement; a statement that is
\* no Diffie-Hellman tuple has at most one challenge that can be answered.
PointProofsSound ==
    /\ (Done("forge") /\ out.verdict = "accept") =>
         \A t \in Zq, salt \in Salts :
             LET other == AnswerDLog(job, t, salt)
                 w == ((job.t - t) * ModInverse(out.c - other.c)) % Q
             IN  (other.verdict = "accept" /\ other.c # out.c) =>
                     IF job.edwards THEN Edw!ScalarBaseMult(w) = Edw!EightInvEight(job.X)
                     ELSE Secp!ScalarBaseMult(w) = job.X
    /\ Done("ddhforge") =>
         (job.H2 # (job.G2 * job.H1) % Q => Cardinality(out.answered) <= 1)

\* Any modulus, with the challenges that have an answer.
ForgePaillier ==
    LET answered(x) == \E y \in 0 .. job.N - 1 : Pai!VerifyProof(job.N, <<x>>, <<y>>, {2, 3})
    IN  Step("modulus", "ready", "done",
             [all |-> \A x \in Pai!RandomPositiveRelativelyPrimeInt(job.N) : answered(x)])

\* All challenges about a modulus can be answered only if it shares no factor
\* with the order of its group and has no small factor.
ModulusProofSound ==
    Done("modulus") =>
        (out.all <=> /\ Pai!GCD(job.N, Cardinality(Pai!RandomPositiveRelativelyPrimeInt(job.N))) = 1
                     /\ job.N % 2 # 0 /\ job.N % 3 # 0)

-----------------------------------------------------------------------------
Init ==
    /\ \/ job \in VssJobs \/ job \in PaillierJobs \/ job \in MtaJobs
       \/ job \in DLogJobs \/ job \in DDHJobs \/ job \in STJobs
       \/ job \in PDLJobs \/ job \in DlnJobs \/ job \in PaiProofJobs
       \/ job \in ForgeJobs \/ job \in ForgeDDHJobs \/ job \in ModulusJobs
    /\ pc = "ready"
    /\ out = NoOut

Next ==
    \/ Create \/ Combine
    \/ UsePaillier
    \/ AliceInit \/ BobMid \/ AliceEnd
    \/ ProveDLog \/ ProveDDH \/ ProveST \/ ProvePDL \/ ProveDln \/ ProvePaillier
    \/ ForgeDLog \/ ForgeDDH \/ ForgePaillier

Spec == Init /\ [][Next]_vars
=============================================================================
