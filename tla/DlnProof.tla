------------------------------ MODULE DlnProof ------------------------------
(***************************************************************************)
(* The parameters NTilde, h1, h2 of a party, the end of GeneratePreParams  *)
(* in ecdsa/keygen/prepare.go, and the proof that h2 is a power of h1,     *)
(* crypto/dlnp/proof.go, with Iterations rounds of one challenge bit.      *)
(***************************************************************************)
EXTENDS TssHash

Iterations == 2   \* 128 in the code

\* The pre-parameters from two safe primes 2p+1 and 2q+1, a unit f1 and a unit
\* alpha: Beta is nil if alpha, which is a unit mod NTilde, is none mod p*q.
PreParams(p, q, f1, alpha) ==
    LET NTildei == (2 * p + 1) * (2 * q + 1)
        h1i == MulMod(f1, f1, NTildei)
    IN  [NTildei |-> NTildei, H1i |-> h1i, H2i |-> Exp(h1i, alpha, NTildei),
         Alpha |-> alpha, Beta |-> Inverse(alpha, p * q), P |-> p, Q |-> q]

Bit(c, i) == (c \div 2 ^ (i - 1)) % 2

\* NewProof for h2 = h1^x with the random exponents a; a nil x panics.
NewProof(h1, h2, x, p, q, N, a, salt) ==
    LET alpha == [i \in 1 .. Iterations |-> Exp(h1, a[i], N)]
        c == SHA512_256i(salt, <<h1, h2, N>> \o alpha)
    IN  [alpha |-> alpha, t |-> [i \in 1 .. Iterations |-> (a[i] + Bit(c, i) * x) % (p * q)]]

\* 1 < v mod N < N.
InOpenInterval(v, N) == v % N > 1

\* Proof.Verify.
VerifyDln(h1, h2, N, pf, salt) ==
    /\ InOpenInterval(h1, N) /\ InOpenInterval(h2, N) /\ h1 % N # h2 % N
    /\ \A i \in 1 .. Iterations : InOpenInterval(pf.t[i], N) /\ InOpenInterval(pf.alpha[i], N)
    /\ LET c == SHA512_256i(salt, <<h1, h2, N>> \o pf.alpha)
       IN  \A i \in 1 .. Iterations :
               Exp(h1, pf.t[i], N) = MulMod(pf.alpha[i], Exp(h2, Bit(c, i), N), N)
=============================================================================
