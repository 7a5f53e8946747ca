---------------------------- MODULE EcdsaSigning ----------------------------
(***************************************************************************)
(* Threshold signing with identified aborts, ecdsa/signing: seven rounds   *)
(* and a finalization, on top of the lock step that the round engine       *)
(* provides.  In one-round signing the message is known only after round 7 *)
(* and the application exchanges the s_i and calls                         *)
(* FinalizeGetAndVerifyFinalSig, which is what the finalization does.      *)
(*                                                                         *)
(* Every party runs the code; a faulty one computes one value or one proof *)
(* wrongly, chosen in Init, and uses it from then on.  Points are discrete *)
(* logarithms (FeldmanVss), ciphertexts are their plaintexts, proofs are   *)
(* abstracted to whether they verify.                                      *)
(***************************************************************************)
EXTENDS LockStep, FeldmanVss

CONSTANTS
    KeyPoly,   \* the polynomial of the key, of degree Cardinality(Members) - 1
    Nonces,    \* the k_i and gamma_i the parties may sample
    Mask,      \* Mask[<<i, j>>]: beta' of Bob_mid at j for Alice i
    MaskWC,    \* MaskWC[<<i, j>>]: beta' of Bob_mid_wc at j for Alice i
    Msg,       \* the message to sign, as a number mod Q
    Faulty     \* the parties that may compute something wrongly

ASSUME SigningAssumption ==
    /\ IsFiniteSet(Members) /\ Cardinality(Members) \in 1 .. Q - 1
    /\ Members = 0 .. Cardinality(Members) - 1
    /\ Rounds = 8 /\ OwnOk = {2}
    /\ Faulty \subseteq Members
    /\ KeyPoly \in [0 .. Cardinality(Members) - 1 -> Zq]
    /\ Nonces \subseteq [k : [Members -> Zq \ {0}], gamma : [Members -> Zq \ {0}]]
    /\ Mask \in [Members \X Members -> Zq] /\ MaskWC \in [Members \X Members -> Zq]
    /\ Msg \in Zq

Honest == Members \ Faulty
Degree == Cardinality(Members) - 1
Keys == [p \in Members |-> p + 1]

VARIABLES
    nonce,     \* k_i and gamma_i of round 1
    fault,     \* fault[p]: what p computes wrongly, and for whom
    abortingT5, abortingT7,
    culprits,  \* the culprits of the error p's Start returned
    crashed,   \* p read a nil pointer
    sig        \* s and recovery id of the signature p delivered, Unset before

sgVars == <<nonce, fault, abortingT5, abortingT7, culprits, crashed, sig>>
vars == <<lsVars, sgVars>>

Unset == [s |-> Q, v |-> 0]

\* A range proof or a Bob proof that one receiver rejects; a gamma_i other than
\* the committed one, a delta_i, Rbar_i, sigma_i or s_i that is off by one; a
\* de-commitment, PDL proof or ST proof that does not verify; one wrong mu in
\* the data revealed in a type 7 abort.
Fault(p) ==
    {<<f, p>> : f \in {"none", "gamma", "delta", "decommit", "rbar", "pdl",
                       "sigma", "st", "s"}}
    \cup {<<f, v>> : f \in {"range", "bob", "mu"}, v \in Members \ {p}}

Is(p, f) == fault[p][1] = f
Off(p, f) == IF Is(p, f) THEN 1 ELSE 0

-----------------------------------------------------------------------------
(* The numbers the parties compute.                                        *)

\* prepare: w_i, the signing weight of p's share.
W == [p \in Members |->
        SigningWeight(p, Members, Keys, evaluatePolynomial(Degree, KeyPoly, Keys[p]))]

\* MtA: what Alice i recovers from Bob j, for gamma_j and for w_j.
Alpha(i, j) == (nonce.k[i] * nonce.gamma[j] + Mask[<<i, j>>]) % Q
Mu(i, j) == nonce.k[i] * W[j] + MaskWC[<<i, j>>]

\* Round 3: delta_i, as computed from k_i, gamma_i and the shares of products.
CalcDelta(i) ==
    (nonce.k[i] * nonce.gamma[i]
        + SumQ([j \in Members \ {i} |-> Alpha(i, j) - Mask[<<j, i>>]])) % Q
Delta(i) == (CalcDelta(i) + Off(i, "delta")) % Q

\* Mutation of SigmaI: the own share of the masks is added.
SigmaIPlus(i) ==
    (nonce.k[i] * W[i] + SumQ([j \in Members \ {i} |-> Mu(i, j) + MaskWC[<<j, i>>]])) % Q

\* Round 3: sigma_i, likewise with w_i.
SigmaI(i) ==
    (nonce.k[i] * W[i] + SumQ([j \in Members \ {i} |-> Mu(i, j) - MaskWC[<<j, i>>]])) % Q
Sigma(i) == (SigmaI(i) + Off(i, "sigma")) % Q

\* Round 5: the de-committed Gamma_j, delta and R; the x-coordinate is a
\* function of a point that does not tell R from -R.
BigGamma(j) == (nonce.gamma[j] + Off(j, "gamma")) % Q
DeltaSum == SumQ([j \in Members |-> Delta(j)])
BigR == (SumQ([j \in Members |-> BigGamma(j)]) * ModInverse(DeltaSum)) % Q
X(point) == (point * point) % Q

\* Rounds 5 to 7: Rbar_i, S_i and s_i.
BigRBar(i) == (BigR * nonce.k[i] + Off(i, "rbar")) % Q
BigS(i) == (BigR * Sigma(i) + Off(i, "st")) % Q
SI(i) == (Msg * nonce.k[i] + X(BigR) * Sigma(i) + Off(i, "s")) % Q

\* The last bit of the y-coordinate, which tells a point from its negative.
YOdd(point) == IF point > Q \div 2 THEN 1 ELSE 0

\* ecdsa.Verify with the key's public point.
Valid(r, s) == r # 0 /\ s # 0 /\ X(ModInverse(s) * (Msg + r * KeyPoly[0])) = r

\* The numbers of a run of this size that the code cannot go on with, and that
\* it meets with negligible probability: no inverse, a point at infinity.
Degenerate ==
    \/ DeltaSum = 0
    \/ \E p \in Members : Delta(p) = 0 \/ BigRBar(p) = 0 \/ BigS(p) = 0
    \/ BigR = 0 \/ SumQ([j \in Members |-> SI(j)]) = 0

Init ==
    /\ LSInit
    /\ nonce \in Nonces
    /\ \E f \in [Faulty -> UNION {Fault(p) : p \in Faulty}] :
          /\ \A p \in Faulty : f[p] \in Fault(p)
          /\ fault = [p \in Members |-> IF p \in Faulty THEN f[p] ELSE <<"none", p>>]
    /\ abortingT5 = [p \in Members |-> FALSE]
    /\ abortingT7 = [p \in Members |-> FALSE]
    /\ culprits = [p \in Members |-> {}]
    /\ crashed = [p \in Members |-> FALSE]
    /\ sig = [p \in Members |-> Unset]

-----------------------------------------------------------------------------
(* The rounds.                                                             *)

First(S) == IF S = {} THEN {} ELSE {CHOOSE j \in S : \A i \in S : j <= i}

\* The Start of p's next round returns an error with culprits C, or none.
Ends(p, good, C) ==
    /\ StartRound(p, good)
    /\ culprits' = [culprits EXCEPT ![p] = IF good THEN @ ELSE C]

\* Round 1: sample k_i and gamma_i, send Enc(k_i) and the commitment.
Round1(p) ==
    /\ at[p] = 0
    /\ StartRound(p, TRUE)
    /\ UNCHANGED sgVars

\* Round 2: Bob's part of the two MtAs with every other party.
Round2(p) ==
    LET C == {j \in Members \ {p} : fault[j] = <<"range", p>>}
    IN  /\ at[p] = 1
        /\ Ends(p, C = {}, C)
        /\ UNCHANGED <<nonce, fault, abortingT5, abortingT7, crashed, sig>>

\* Mutation of Round3: every party is taken for one whose round 2 failed.
Round3AlwaysNil(p) ==
    LET C == {j \in Members \ {p} : fault[j] = <<"bob", p>>}
    IN  /\ at[p] = 2
        /\ Ends(p, FALSE, culprits[p] \cup C)
        /\ crashed' = [crashed EXCEPT ![p] = C = {}]
        /\ UNCHANGED <<nonce, fault, abortingT5, abortingT7, sig>>

\* Round 3: Alice's part, delta_i and sigma_i.  A party whose round 2 failed
\* gets here, for that round sets its own ok, and finds no beta for the culprit.
Round3(p) ==
    LET C == {j \in Members \ {p} : fault[j] = <<"bob", p>>}
        nil == C = {} /\ 2 \notin done[p]
    IN  /\ at[p] = 2
        /\ Ends(p, C = {} /\ ~nil, culprits[p] \cup C)
        /\ crashed' = [crashed EXCEPT ![p] = nil]
        /\ UNCHANGED <<nonce, fault, abortingT5, abortingT7, sig>>

\* Round 4: open the commitment to Gamma_i.
Round4(p) ==
    /\ at[p] = 3
    /\ StartRound(p, TRUE)
    /\ UNCHANGED sgVars

\* Round 5: R from the Gamma_j and the delta_j; broadcast Rbar_i = k_i R.
Round5(p) ==
    LET C == First({j \in Members \ {p} : Is(j, "decommit")})
    IN  /\ at[p] = 4
        /\ Ends(p, Delta(p) # 0 /\ C = {} /\ DeltaSum # 0, IF Delta(p) = 0 THEN {} ELSE C)
        /\ UNCHANGED <<nonce, fault, abortingT5, abortingT7, crashed, sig>>

\* Mutation of Consistent5: the party leaves out its own point.
Consistent5Others(p) == SumQ([j \in Members \ {p} |-> BigRBar(j)]) = 1

\* Round 6: the product of the Rbar_j is the base point.
Consistent5(p) == SumQ([j \in Members |-> BigRBar(j)]) = 1

\* Round 6: the parties whose PDL proof does not verify.  The first message
\* only starts the product, its proof is skipped with the rest of the loop.
PDLCulprits(p) ==
    {j \in Members \ ({p} \cup First(Members)) : Is(j, "pdl") \/ Is(j, "rbar")}

Round6(p) ==
    LET C == PDLCulprits(p)
    IN  /\ at[p] = 5
        /\ Ends(p, C = {}, C)
        /\ abortingT5' = [abortingT5 EXCEPT ![p] = C = {} /\ ~Consistent5(p)]
        /\ UNCHANGED <<nonce, fault, abortingT7, crashed, sig>>

\* Mutation of T5Culprits: gamma_j is not compared with Gamma_j.
T5CulpritsNoGamma(p) ==
    {j \in Members \ {p} : ~abortingT5[j] \/ Delta(j) # CalcDelta(j)}

\* Round 7 of a type 5 abort: the parties that did not reveal, and those whose
\* gamma_j or delta_j does not match what they revealed.
T5Culprits(p) ==
    {j \in Members \ {p} :
        \/ ~abortingT5[j]
        \/ nonce.gamma[j] # BigGamma(j)
        \/ Delta(j) # CalcDelta(j)}

\* Round 7 otherwise: unexpected abort messages, ST proofs that do not verify.
STCulprits(p) ==
    {j \in Members : abortingT5[j]} \cup {j \in Members \ {p} : Is(j, "st")}

\* Round 7: blame after a type 5 abort, else check that the S_j add up to the
\* public key, and broadcast s_i or, in one-round signing, deliver the data.
Round7(p) ==
    LET C == IF abortingT5[p] THEN T5Culprits(p) ELSE STCulprits(p)
        good == ~abortingT5[p] /\ C = {}
    IN  /\ at[p] = 6
        /\ Ends(p, good, C)
        /\ abortingT7' = [abortingT7 EXCEPT ![p] = good /\ SumQ([j \in Members |-> BigS(j)]) # KeyPoly[0]]
        /\ UNCHANGED <<nonce, fault, abortingT5, crashed, sig>>

\* Finalization of a type 7 abort, first pass: the parties that did not reveal,
\* and those whose mu for p is not what p's ciphertext holds.
T7MuCulprits(p) ==
    {j \in Members : ~abortingT7[j] \/ fault[j] = <<"mu", p>>}

\* The mu_ij that i reveals.
MuRevealed(i, j) == IF fault[i] = <<"mu", j>> THEN Mu(i, j) + 1 ELSE Mu(i, j)

\* Mutation of GSigma: the nu_ji are left out.
GSigmaNoNu(i) ==
    (nonce.k[i] * W[i] + SumQ([j \in Members \ {i} |-> MuRevealed(i, j)])) % Q

\* Second pass: g^sigma_i from the revealed k and mu; nu_ji = k_j w_i - mu_ji.
GSigma(i) ==
    (nonce.k[i] * W[i]
        + SumQ([j \in Members \ {i} |->
                  MuRevealed(i, j) + nonce.k[j] * W[i] - MuRevealed(j, i)])) % Q
T7SigmaCulprits == {i \in Members : GSigma(i) # Sigma(i)}

\* Type 8: the parties whose s_j does not match their Rbar_j and S_j.
T8Culprits(p) ==
    {j \in Members \ {p} :
        (BigR * SI(j)) % Q # (BigRBar(j) * Msg + BigS(j) * X(BigR)) % Q}

\* s is replaced by Q - s if it is more than half of the group order.
SSum == SumQ([j \in Members |-> SI(j)])
FinalS == IF SSum > Q \div 2 THEN Q - SSum ELSE SSum

\* Mutation of RecId: the bit is kept when s is replaced.
RecIdKept == YOdd(BigR)

\* The recovery id, which says whose x-coordinate r is: the bit of R, flipped
\* with s.  The other bit, for an x-coordinate above the group order, is left out.
RecId == IF SSum > Q \div 2 THEN 1 - YOdd(BigR) ELSE YOdd(BigR)
FinalSig == [s |-> FinalS, v |-> RecId]

\* The finalization, or in one-round signing the parties' exchange of the s_i
\* and FinalizeGetAndVerifyFinalSig: blame, or deliver the signature.
Finalization(p) ==
    LET C == CASE abortingT7[p] /\ T7MuCulprits(p) # {} -> T7MuCulprits(p)
               [] abortingT7[p] /\ T7MuCulprits(p) = {} -> T7SigmaCulprits
               [] ~abortingT7[p] /\ \E j \in Members : abortingT7[j] ->
                      {j \in Members : abortingT7[j]}
               [] OTHER -> T8Culprits(p)
        good == ~abortingT7[p] /\ C = {} /\ Valid(X(BigR), FinalS)
    IN  /\ at[p] = 7
        /\ Ends(p, good, C)
        /\ sig' = [sig EXCEPT ![p] = IF good THEN FinalSig ELSE @]
        /\ UNCHANGED <<nonce, fault, abortingT5, abortingT7, crashed>>

Next == \E p \in Members :
    \/ Round1(p) \/ Round2(p) \/ Round3(p) \/ Round4(p) \/ Round5(p)
    \/ Round6(p) \/ Round7(p) \/ Finalization(p)

Spec == Init /\ [][Next]_vars

-----------------------------------------------------------------------------
\* If everybody computes what the code says, no Start returns an error: the
\* shares of the products add up, so that R = g^(1/k), the S_j add up to the
\* public key and the s_j to a signature.
HonestRunSigns ==
    ((\A p \in Members : Is(p, "none")) /\ ~Degenerate) =>
        \A p \in Members : bad[p] = 0

\* The point that a verifier recovers from r and the recovery id.
Recovered(v) == CHOOSE point \in Zq : X(point) = X(BigR) /\ YOdd(point) = v

\* What an honest party delivers has s in the lower half of the group order, and
\* its recovery id yields the public key that was shared (finalize.go:130): r^-1
\* (s R - m G) is that key and not the other one that verifies the signature.
\* ecdsa.Verify cannot tell the two apart; that the right one comes out rests on
\* the checks of the Rbar_j in round 6, of the S_j in round 7 and of each s_j.
SignatureRecovers ==
    \A p \in Honest : sig[p] # Unset =>
        /\ sig[p].s <= Q \div 2
        /\ (sig[p].s * Recovered(sig[p].v)) % Q = (Msg + X(BigR) * KeyPoly[0]) % Q

\* Honest parties enter an identified abort together or not at all: a party
\* that finds its peers in the other mode blames them (round_7.go:49, :111).
AbortTogether ==
    \A p, q \in Honest :
        /\ (6 \in done[p] /\ 6 \in done[q]) => abortingT5[p] = abortingT5[q]
        /\ (7 \in done[p] /\ 7 \in done[q]) => abortingT7[p] = abortingT7[q]

\* An honest party is blamed by another only when a faulty one revealed a wrong
\* mu for it: a third party has no ciphertext to compare that mu with, and the
\* g^sigma of both come out wrong.
BlameIsJust ==
    \A p \in Honest : \A q \in culprits[p] \cap Honest :
        \E j \in Faulty : fault[j] = <<"mu", q>>

\* An identified abort names somebody: "Type 5 identified abort, culprits known"
\* (round_7.go:90), "Type 7 identified abort, culprits known" (finalize.go:311).
AbortNamesCulprit ==
    \A p \in Honest : ((bad[p] = 7 /\ abortingT5[p]) \/ (bad[p] = 8 /\ abortingT7[p]))
        => culprits[p] # {}

\* A party reads a missing beta only if it refused a proof in round 2, and its
\* error then still names whom it refused (round_3.go:130).
CrashNeedsRefusal ==
    \A p \in Members : crashed[p] =>
        /\ \E j \in Faulty : fault[j] = <<"range", p>>
        /\ culprits[p] = {j \in Faulty \ {p} : fault[j] = <<"range", p>>}
=============================================================================
