---------------------------- MODULE EddsaSigning ----------------------------
(***************************************************************************)
(* Threshold EdDSA signing, eddsa/signing: three rounds and a finalization *)
(* on top of the lock step that the round engine provides.                 *)
(*                                                                         *)
(* A point is its discrete logarithm in the whole group of edwards25519,   *)
(* of order 8*Q with the base point 8 (EcPoint), so that a point with a    *)
(* component of small order can be told from one of the subgroup.  Every   *)
(* party runs the code; a faulty one computes or sends one value wrongly.  *)
(***************************************************************************)
EXTENDS FeldmanVss

CONSTANTS
    Signers,    \* the parties of the run
    EdKeyPoly,  \* the polynomial of the key, of degree Cardinality(Signers) - 1
    EdNonces,   \* the r_i the parties may sample: functions from Signers
    EdMsg,      \* the message to sign
    EdFaulty    \* the parties that may compute something wrongly

VARIABLES
    edAt, edDone, edBad,  \* the lock step
    edRi,        \* r_i of round 1
    edFault,     \* edFault[p]: what p does wrongly
    edBigR,      \* edBigR[p]: the R that p computed in round 3
    edCulprits,  \* the culprits of the error p's Start returned
    edCrashed,   \* p read a nil pointer
    edSig        \* s of the signature p delivered with edBigR[p], EdUnset before

Ec == INSTANCE EcPoint WITH Cofactor <- 8, InfinityAffine <- TRUE
Ls == INSTANCE LockStep WITH
    Members <- Signers, Rounds <- 4, OwnOk <- {}, at <- edAt, done <- edDone, bad <- edBad

edState == <<edRi, edFault, edBigR, edCulprits, edCrashed, edSig>>
edVars == <<edAt, edDone, edBad, edState>>

EdUnset == 8 * Q
EdDegree == Cardinality(Signers) - 1
EdKeys == [p \in Signers |-> p + 1]

\* A de-commitment that does not open, coordinates that are not on the curve, a
\* proof that does not verify, a point with a component of small order (and the
\* proof for the point without it), an s_i that is off by one.
EdFaultKind == {"none", "decommit", "offcurve", "proof", "small", "s"}

ASSUME EddsaAssumption ==
    /\ IsFiniteSet(Signers) /\ Cardinality(Signers) \in 1 .. Q - 1
    /\ Signers = 0 .. Cardinality(Signers) - 1
    /\ EdFaulty \subseteq Signers
    /\ EdKeyPoly \in [0 .. Cardinality(Signers) - 1 -> Zq]
    /\ EdNonces \subseteq [Signers -> Zq]
    /\ EdMsg \in Nat
    /\ Q # 2

-----------------------------------------------------------------------------
\* prepare: w_i, the signing weight of p's share.
EdW == [p \in Signers |->
        SigningWeight(p, Signers, EdKeys, evaluatePolynomial(EdDegree, EdKeyPoly, EdKeys[p]))]

\* The point R_j that j committed to in round 1 and opened in round 2.
SentR(j) == Ec!Add(Ec!ScalarBaseMult(edRi[j]), IF edFault[j] = "small" THEN Q ELSE 0)

\* Mutation of ReceivedR: the component of small order stays.
ReceivedRRaw(j) == SentR(j)

\* Round 3: R_j as the others use it.
ReceivedR(j) == Ec!EightInvEight(SentR(j))

\* Round 3: R of p, its own r_i*G plus what it received.
ComputedR(p) ==
    LET others == SumFunction([j \in Signers \ {p} |-> ReceivedR(j)]) % Ec!Order
    IN  Ec!Add(Ec!ScalarBaseMult(edRi[p]), others)

\* The hash of R, the public key and the message, reduced mod Q (external).
Lambda512(R) == (R + R * R + 3 * EdMsg + EdKeyPoly[0]) % Q

\* Round 3: s_i from the R that p computed.
EdSI(p) == (Lambda512(edBigR[p]) * EdW[p] + edRi[p] + (IF edFault[p] = "s" THEN 1 ELSE 0)) % Q

\* edwards.Verify: s*G = R + h*A.
EdValid(R, s) ==
    Ec!ScalarBaseMult(s) = Ec!Add(R, Ec!ScalarBaseMult(Lambda512(R) * EdKeyPoly[0]))

EdInit ==
    /\ Ls!LSInit
    /\ edRi \in EdNonces
    /\ \E f \in [EdFaulty -> EdFaultKind] :
          edFault = [p \in Signers |-> IF p \in EdFaulty THEN f[p] ELSE "none"]
    /\ edBigR = [p \in Signers |-> EdUnset]
    /\ edCulprits = [p \in Signers |-> {}]
    /\ edCrashed = [p \in Signers |-> FALSE]
    /\ edSig = [p \in Signers |-> EdUnset]

-----------------------------------------------------------------------------
\* Rounds 1 and 2: send the commitment to R_i, then open it and prove r_i.
EdRound1(p) == edAt[p] = 0 /\ Ls!StartRound(p, TRUE) /\ UNCHANGED edState
EdRound2(p) == edAt[p] = 1 /\ Ls!StartRound(p, TRUE) /\ UNCHANGED edState

\* The first peer whose round 2 message stops p, in the order of the parties.
Stops(p) == {j \in Signers \ {p} : edFault[j] \in {"decommit", "offcurve", "proof"}}
FirstStop(p) == CHOOSE j \in Stops(p) : \A i \in Stops(p) : j <= i

\* Mutation of Blamed: the loop variable has moved on.
BlamedNext(p) == {(FirstStop(p) + 1) % Cardinality(Signers)}

\* Whom the error names: the sender of a proof, nobody for a de-commitment.
Blamed(p) == IF edFault[FirstStop(p)] = "proof" THEN {FirstStop(p)} ELSE {}

\* Round 3: open and check what the others sent, R and s_i.  The point is cleared
\* of its small component before the error of NewECPoint is looked at: with
\* coordinates that are not on the curve the party reads a nil pointer.
EdRound3(p) ==
    LET good == Stops(p) = {}
        nil == ~good /\ edFault[FirstStop(p)] = "offcurve"
    IN  /\ edAt[p] = 2
        /\ Ls!StartRound(p, good)
        /\ edBigR' = [edBigR EXCEPT ![p] = IF good THEN ComputedR(p) ELSE @]
        /\ edCrashed' = [edCrashed EXCEPT ![p] = nil]
        /\ edCulprits' = [edCulprits EXCEPT ![p] = IF good THEN @ ELSE Blamed(p)]
        /\ UNCHANGED <<edRi, edFault, edSig>>

\* Mutation of Finalization: the signature is delivered without verification.
FinalizationUnverified(p) ==
    /\ edAt[p] = 3
    /\ Ls!StartRound(p, TRUE)
    /\ edSig' = [edSig EXCEPT ![p] = SumQ([j \in Signers |-> EdSI(j)])]
    /\ UNCHANGED <<edRi, edFault, edBigR, edCulprits, edCrashed>>

\* The finalization: add the s_j, verify, and deliver the signature or return an
\* error that names nobody.
EdFinalization(p) ==
    LET s == SumQ([j \in Signers |-> EdSI(j)])
        good == EdValid(edBigR[p], s)
    IN  /\ edAt[p] = 3
        /\ Ls!StartRound(p, good)
        /\ edSig' = [edSig EXCEPT ![p] = IF good THEN s ELSE @]
        /\ UNCHANGED <<edRi, edFault, edBigR, edCulprits, edCrashed>>

EdNext == \E p \in Signers : EdRound1(p) \/ EdRound2(p) \/ EdRound3(p) \/ EdFinalization(p)

EdSpec == EdInit /\ [][EdNext]_edVars

-----------------------------------------------------------------------------
(* Properties.                                                             *)

\* If no party sends a wrong value no Start returns an error, and a point with a
\* component of small order changes nothing: every party clears it before it is
\* added (round_3.go:53), so that all hash the same R.
EdHonestRunSigns ==
    (\A p \in Signers : edFault[p] \in {"none", "small"}) => \A p \in Signers : edBad[p] = 0

\* The parties that deliver a signature deliver the same valid one, and a wrong
\* s_i keeps every party from delivering.
EdOneSignature ==
    \A p, q \in Signers : (edSig[p] # EdUnset /\ edSig[q] # EdUnset) =>
        /\ edSig[p] = edSig[q] /\ edBigR[p] = edBigR[q]
        /\ EdValid(edBigR[p], edSig[p])
        /\ \A j \in Signers : edFault[j] # "s"

\* A party never blames a party that ran the code, and it panics only where a peer
\* opened its commitment to coordinates that are not on the curve.
EdBlameIsJust ==
    \A p \in Signers :
        /\ edCulprits[p] \subseteq EdFaulty
        /\ edCrashed[p] => \E j \in EdFaulty \ {p} : edFault[j] = "offcurve"
=============================================================================
