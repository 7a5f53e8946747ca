------------------------------- MODULE Keygen -------------------------------
(***************************************************************************)
(* Distributed key generation, ecdsa/keygen (four rounds) and eddsa/keygen *)
(* (three rounds), on top of the lock step that the round engine provides. *)
(*                                                                         *)
(* Every party deals a Feldman sharing of a random u_i; the key is the sum *)
(* of the u_i.  ECDSA parties also publish parameters for later proofs.  A *)
(* faulty party sends one kind of wrong content, chosen in Init, and may   *)
(* carry on where the code would stop.  Channels are as the README asks:   *)
(* all receivers of a broadcast see the same message.  Points are discrete *)
(* logarithms (FeldmanVss), commitments and proofs are abstracted to       *)
(* whether they verify.                                                    *)
(***************************************************************************)
EXTENDS LockStep, FeldmanVss

CONSTANTS
    T,            \* the threshold: T+1 parties can sign
    Poly,         \* the polynomials a party may sample (coefficients 0 .. T)
    Faulty,       \* the parties that may send wrong content
    IgnoreDupes   \* params.UNSAFE_KGIgnoreH1H2Dupes()

ASSUME KeygenAssumption ==
    /\ IsFiniteSet(Members) /\ Members = 0 .. Cardinality(Members) - 1
    /\ Rounds = 4 /\ OwnOk = {} /\ T \in Nat
    /\ Faulty \subseteq Members
    /\ Poly \subseteq [0 .. T -> Zq]

Honest == Members \ Faulty

\* The share id of a party, PartyID().KeyInt().
Key(p) == p + 1
Keys == [p \in Members |-> Key(p)]

VARIABLES
    ecdsa,     \* the protocol: ecdsa/keygen or eddsa/keygen
    poly,      \* poly[p]: the polynomial of p, poly[p][0] = u_p
    fault,     \* fault[p]: what is wrong with p's messages, and for whom
    xi,        \* save.Xi
    pub,       \* save.ECDSAPub or save.EDDSAPub
    bigX,      \* save.BigXj
    culprits,  \* the culprits of the error p's Start returned
    ended      \* p sent its save data through the end channel

kgVars == <<ecdsa, poly, fault, xi, pub, bigX, culprits, ended>>
vars == <<lsVars, kgVars>>

Unset == Q      \* a field of the save data that was not assigned

\* What can be wrong with a party's messages: a de-commitment that does not
\* open, a share that is off; EdDSA: a bad Schnorr proof; ECDSA: parameters of
\* the wrong size (or h1 = h2), the h1, h2 of another party, a bad dln proof 1
\* or 2, a bad Paillier proof.
Fault(p, ec) ==
    {<<k, p>> : k \in {"none", "decommit"} \cup
        (IF ec THEN {"sizes", "dln1", "dln2", "paillier"} ELSE {"schnorr"})}
    \cup {<<k, v>> : k \in {"share"} \cup (IF ec THEN {"copy"} ELSE {}),
                     v \in Members \ {p}}

Init ==
    /\ LSInit
    /\ ecdsa \in BOOLEAN
    /\ poly \in [Members -> Poly]
    /\ \E f \in [Faulty -> UNION {Fault(p, ecdsa) : p \in Faulty}] :
          /\ \A p \in Faulty : f[p] \in Fault(p, ecdsa)
          /\ fault = [p \in Members |-> IF p \in Faulty THEN f[p] ELSE <<"none", p>>]
    /\ xi = [p \in Members |-> Unset]
    /\ pub = [p \in Members |-> Unset]
    /\ bigX = [p \in Members |-> [j \in Members |-> Unset]]
    /\ culprits = [p \in Members |-> {}]
    /\ ended = [p \in Members |-> FALSE]

-----------------------------------------------------------------------------
(* Common to both protocols.                                               *)

\* KGRound2Message1: the share p sends to q.
ShareFor(p, q) ==
    LET s == evaluatePolynomial(T, poly[p], Key(q))
    IN  IF fault[p] = <<"share", q>> THEN (s + 1) % Q ELSE s

\* The results of a Start at p: no error if C is empty, else the culprits C.  A
\* faulty party may carry on.
GoodResults(p, C) == {C = {}} \cup (IF p \in Faulty THEN {TRUE} ELSE {})

\* Mutation of ShareCulprits: the share is not verified.
ShareCulpritsNoShare(p) ==
    {j \in Members \ {p} : fault[j][1] \in {"decommit", "schnorr"}}

\* Round 3: the parties whose de-commitment, proof or share p rejects.
ShareCulprits(p) ==
    {j \in Members \ {p} :
        \/ fault[j][1] \in {"decommit", "schnorr"}
        \/ ~Verify([threshold |-> T, id |-> Key(p), share |-> ShareFor(j, p)], T, poly[j])}

\* x_i.
SumShares(p) == SumQ([j \in Members |-> ShareFor(j, p)])

\* The commitments to the coefficients of the key polynomial, Vc.
Vc == [c \in 0 .. T |-> SumQ([j \in Members |-> poly[j][c]])]

\* Round 3: x_i is assigned whatever the outcome; only if every share passes
\* are the X_j and the public key.
SaveKey(p, good) ==
    /\ xi' = [xi EXCEPT ![p] = SumShares(p)]
    /\ culprits' = [culprits EXCEPT ![p] = IF good THEN @ ELSE ShareCulprits(p)]
    /\ pub' = [pub EXCEPT ![p] = IF good THEN Vc[0] ELSE @]
    /\ bigX' = [bigX EXCEPT ![p] =
          IF good THEN [j \in Members |-> evaluatePolynomial(T, Vc, Key(j))] ELSE @]

-----------------------------------------------------------------------------
(* ecdsa/keygen.                                                           *)

\* The owner of the h1, h2 that party p published.
Params(p) == IF fault[p][1] = "copy" THEN fault[p][2] ELSE p

\* Round 1: sample u_i and its sharing (vss.Create may refuse the ids), take or
\* generate the pre-params (which may fail), broadcast commitment, Paillier key,
\* h1, h2 and dln proofs.  An error names the party itself; the one about
\* pre-params of an older version names nobody.
EcdsaRound1(p) ==
    /\ ecdsa /\ at[p] = 0
    /\ \/ CreateOk(T, Keys) /\ StartRound(p, TRUE) /\ UNCHANGED culprits
       \/ /\ StartRound(p, FALSE)
          /\ \E C \in {{p}} \cup (IF CreateOk(T, Keys) THEN {{}} ELSE {}) :
                culprits' = [culprits EXCEPT ![p] = C]
    /\ UNCHANGED <<ecdsa, poly, fault, xi, pub, bigX, ended>>

First(S) == IF S = {} THEN {} ELSE {CHOOSE j \in S : \A i \in S : j <= i}

\* Mutation of Round2Culprit: a duplicate refuses both owners.
Round2CulpritBoth ==
    LET refused == {j \in Members :
            \/ fault[j][1] = "sizes"
            \/ ~IgnoreDupes /\ \E i \in Members : i # j /\ Params(i) = Params(j)}
        dln(k) == {j \in Members : fault[j][1] = k}
    IN  IF refused # {} THEN First(refused)
        ELSE IF dln("dln1") # {} THEN First(dln("dln1"))
        ELSE First(dln("dln2"))

\* The checks of round 2 in order: one pass over the messages for sizes and
\* duplicates that stops at the first offender, then the dln proofs.
Round2Culprit ==
    LET refused == {j \in Members :
            \/ fault[j][1] = "sizes"
            \/ ~IgnoreDupes /\ \E i \in Members : i < j /\ Params(i) = Params(j)}
        dln(k) == {j \in Members : fault[j][1] = k}
    IN  IF refused # {} THEN First(refused)
        ELSE IF dln("dln1") # {} THEN First(dln("dln1"))
        ELSE First(dln("dln2"))

\* Round 2: verify the parameters of all, send the shares and de-commitments.
EcdsaRound2(p) ==
    /\ ecdsa /\ at[p] = 1
    /\ \E good \in GoodResults(p, Round2Culprit) :
          /\ StartRound(p, good)
          /\ culprits' = [culprits EXCEPT ![p] = IF good THEN @ ELSE Round2Culprit]
    /\ UNCHANGED <<ecdsa, poly, fault, xi, pub, bigX, ended>>

\* Round 3: compute the key, broadcast the Paillier proof.
EcdsaRound3(p) ==
    /\ ecdsa /\ at[p] = 2
    /\ \E good \in GoodResults(p, ShareCulprits(p)) : StartRound(p, good) /\ SaveKey(p, good)
    /\ UNCHANGED <<ecdsa, poly, fault, ended>>

\* Mutation of Round4Culprits: the loop starts after the party's own index.
Round4CulpritsAfter(p) ==
    {j \in Members : j > p /\ (fault[j][1] = "paillier" \/ pub[j] # pub[p])}

\* The parties whose Paillier proof, bound to the public key, p rejects.
Round4Culprits(p) ==
    {j \in Members \ {p} : fault[j][1] = "paillier" \/ pub[j] # pub[p]}

\* Round 4: verify the Paillier proofs; if all pass, the key is delivered.
EcdsaRound4(p) ==
    /\ ecdsa /\ at[p] = 3
    /\ \E good \in GoodResults(p, Round4Culprits(p)) :
          /\ StartRound(p, good)
          /\ culprits' = [culprits EXCEPT ![p] = IF good THEN @ ELSE Round4Culprits(p)]
          /\ ended' = [ended EXCEPT ![p] = good]
    /\ UNCHANGED <<ecdsa, poly, fault, xi, pub, bigX>>

-----------------------------------------------------------------------------
(* eddsa/keygen.                                                           *)

\* Round 1: sample u_i and its sharing; if vss.Create refuses the ids, the error
\* names the party itself.
EddsaRound1(p) ==
    /\ ~ecdsa /\ at[p] = 0
    /\ StartRound(p, CreateOk(T, Keys))
    /\ culprits' = [culprits EXCEPT ![p] = IF CreateOk(T, Keys) THEN @ ELSE {p}]
    /\ UNCHANGED <<ecdsa, poly, fault, xi, pub, bigX, ended>>

\* Round 2: send the shares, the de-commitments and the Schnorr proofs.
EddsaRound2(p) ==
    /\ ~ecdsa /\ at[p] = 1
    /\ StartRound(p, TRUE)
    /\ UNCHANGED kgVars

\* Round 3: compute the key; there is no further round, it is delivered.
EddsaRound3(p) ==
    /\ ~ecdsa /\ at[p] = 2
    /\ \E good \in GoodResults(p, ShareCulprits(p)) :
          /\ StartRound(p, good)
          /\ SaveKey(p, good)
          /\ ended' = [ended EXCEPT ![p] = good]
    /\ UNCHANGED <<ecdsa, poly, fault>>

Next == \E p \in Members :
    \/ EcdsaRound1(p) \/ EcdsaRound2(p) \/ EcdsaRound3(p) \/ EcdsaRound4(p)
    \/ EddsaRound1(p) \/ EddsaRound2(p) \/ EddsaRound3(p)

Spec == Init /\ [][Next]_vars

-----------------------------------------------------------------------------
\* All honest parties that deliver a key deliver the same one, and the share of
\* each is the one everybody else has on record for it.
OneKey ==
    \A p, q \in Honest : (ended[p] /\ ended[q]) =>
        /\ pub[p] = pub[q]
        /\ bigX[p] = bigX[q]
        /\ bigX[p][q] = xi[q]

\* Any T+1 honest parties that delivered a key can recover the secret behind
\* its public key, whatever the faulty parties sent.
KeyRecoverable ==
    \A S \in SUBSET Honest :
        (Cardinality(S) = T + 1 /\ \A p \in S : ended[p]) =>
            SumQ([p \in S |-> SigningWeight(p, S, Keys, xi[p])])
                = pub[CHOOSE p \in S : TRUE]

\* If one honest ECDSA party delivers a key, no honest party failed: the round
\* 3 broadcast is the sign that its sender accepted every share, and the proofs
\* of round 4 are the same for all.  In EdDSA, where the key is delivered as
\* soon as the shares are verified, another honest party may have failed, but
\* only as the victim of a share that was wrong for it alone.
AllOrNone ==
    \A p, q \in Honest : (ended[p] /\ bad[q] # 0) =>
        ~ecdsa /\ \E j \in Faulty : fault[j] = <<"share", q>>

\* An honest party is blamed in two cases only: by itself, when it could not
\* complete round 1, and when a faulty party with a lower index published a copy
\* of its h1, h2: the duplicate check of round 2 names the second of the two.
BlameIsJust ==
    \A p \in Honest : \A j \in culprits[p] \cap Honest :
        \/ j = p /\ bad[p] = 1
        \/ \E i \in Faulty : i < j /\ fault[i] = <<"copy", j>>
=============================================================================
