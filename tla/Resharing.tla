----------------------------- MODULE Resharing -----------------------------
(***************************************************************************)
(* Re-sharing a key from an old to a new committee: ecdsa/resharing and    *)
(* eddsa/resharing (five rounds each), run by BaseStart and BaseUpdate of  *)
(* tss/party.go.  The two differ in round 2, where the new ECDSA parties   *)
(* also exchange their Paillier keys, and in the scan of round 4.          *)
(*                                                                         *)
(* Both committees walk through all five rounds, with two trackers, oldOK  *)
(* and newOK, which a round sets in full where it waits for nobody.  An    *)
(* Update call that advanced runs again with the same message; unlike in   *)
(* TssParty it does so before anybody else takes a step, since the Update  *)
(* of every round looks at all slots and a call that slips in between does *)
(* what the second pass would do.  Points are discrete logarithms          *)
(* (FeldmanVss), commitments and proofs are abstracted to whether they     *)
(* verify.                                                                 *)
(***************************************************************************)
EXTENDS FeldmanVss

CONSTANTS
    Old,        \* the old committee, ordered by index
    New,        \* the new committee; a party may be in both
    Protocols,  \* which of ecdsa/resharing and eddsa/resharing may be run
    OldT, NewT, \* the old and the new threshold
    KeyPoly,    \* the polynomial of the key being re-shared
    OtherPoly,  \* the polynomial of another key
    Coef,       \* Coef[p]: the coefficients 1 .. NewT that p samples
    Faulty,     \* the parties that may send wrong content or lack input
    MaxFaults   \* how many of them do so in one run

Party == Old \cup New

ASSUME ResharingAssumption ==
    /\ Party \subseteq 0 .. Q - 2
    /\ OldT \in 1 .. Cardinality(Old) - 1 /\ NewT \in 1 .. Cardinality(New) - 1
    /\ KeyPoly \in [0 .. OldT -> Zq] /\ OtherPoly \in [0 .. OldT -> Zq]
    /\ \A p \in Old : \A c \in 1 .. NewT : Coef[p][c] \in Zq
    /\ Faulty \subseteq Party /\ MaxFaults \in Nat
    /\ Protocols # {} /\ Protocols \subseteq {"ecdsa", "eddsa"}
    /\ Old \cap New = {} \/ Protocols = {"ecdsa"}

\* The share id of a party.
Keys == [p \in Party |-> p + 1]

VARIABLES
    protocol,  \* the protocol of this run
    rnd,       \* number of p.rnd, 0 when it is nil
    oldOK,     \* {j : round.oldOK[j]}
    newOK,     \* {j : round.newOK[j]}
    store,     \* the filled message slots of p.temp, as <<type, sender>>
    calls,     \* Update calls on p that have not returned
    busy,      \* the <<party, message>> of the call that runs again, if any
    pub,       \* save.ECDSAPub, save.EDDSAPub
    newXi,     \* temp.newXi
    fault,     \* what is wrong with p, and for whom
    status,    \* "idle", "up", "failed" (a Start or an Update returned an
               \* error), "panicked" or "ended"
    culprits   \* the culprits of the errors

vars == <<protocol, rnd, oldOK, newOK, store, calls, busy, pub, newXi, fault, status, culprits>>

Ecdsa == protocol = "ecdsa"

Unset == Q * Q    \* a nil pointer: no point, no share
OffCurve == Q     \* coordinates that are not those of a point
Type == {"r1", "r1again", "r2ack", "r2key", "r3share", "r3decommit", "r4"}
Message == Type \X Party

\* The parties that do what the code says.
Honest == {p \in Party : fault[p][1] = "none"}

First(S) == IF S = {} THEN {} ELSE {CHOOSE j \in S : \A i \in S : j <= i}

\* Old members: save data of another key, input that does not satisfy the
\* checks of round 1, a de-commitment that does not open, a wrong share; in
\* slot 0, DGRound1Message sent twice, with a key that is not on the curve, or
\* with another key the second time and to one new member only.  New members:
\* pre-params that cannot be generated or are of an old version, h1 = h2 or the
\* h1 and h2 of another member, a Paillier or a discrete logarithm proof that
\* does not verify.
Fault(p) ==
    {<<"none", p>>}
    \cup (IF p \in Old THEN {<<k, p>> : k \in {"otherKey", "input", "decommit"}}
                            \cup {<<"share", q>> : q \in New \ {p}} ELSE {})
    \cup (IF p \in First(Old) THEN {<<"offcurve", p>>} \cup {<<"twoKeys", q>> : q \in New \ {p}}
                                   ELSE {})
    \cup (IF p \in New /\ Ecdsa
          THEN {<<k, p>> : k \in {"preparams", "stale", "equal", "paillier", "dln1", "dln2"}}
               \cup {<<"copy", q>> : q \in New \ {p}} ELSE {})

Init ==
    /\ protocol \in Protocols
    /\ rnd = [p \in Party |-> 0]
    /\ oldOK = [p \in Party |-> {}]
    /\ newOK = [p \in Party |-> {}]
    /\ store = [p \in Party |-> {}]
    /\ calls = [p \in Party |-> {}]
    /\ busy = {}
    /\ pub = [p \in Party |-> Unset]
    /\ newXi = [p \in Party |-> Unset]
    /\ \E f \in [Faulty -> UNION {Fault(p) : p \in Faulty}] :
          /\ \A p \in Faulty : f[p] \in Fault(p)
          /\ Cardinality({p \in Faulty : f[p][1] # "none"}) <= MaxFaults
          /\ fault = [p \in Party |-> IF p \in Faulty THEN f[p] ELSE <<"none", p>>]
    /\ status = [p \in Party |-> "idle"]
    /\ culprits = [p \in Party |-> {}]

-----------------------------------------------------------------------------
(* What the parties send.                                                  *)

\* The key polynomial in the save data of old member p.
InputPoly(p) == IF fault[p][1] = "otherKey" THEN OtherPoly ELSE KeyPoly

\* The public key that old member p announces in its first or second
\* DGRound1Message.
Announced(t, p) ==
    IF fault[p][1] = "offcurve" THEN OffCurve
    ELSE IF fault[p][1] = "twoKeys" /\ t = "r1again" THEN OtherPoly[0]
    ELSE InputPoly(p)[0]

\* Round 1 of old member p: its weight w_p, shared again with threshold NewT.
VssPoly(p) ==
    LET w == SigningWeight(p, Old, Keys, evaluatePolynomial(OldT, InputPoly(p), Keys[p]))
    IN  [c \in 0 .. NewT |-> IF c = 0 THEN w ELSE Coef[p][c]]

\* DGRound3Message1: the share p sends to q.
ShareFor(p, q) ==
    LET s == evaluatePolynomial(NewT, VssPoly(p), Keys[q])
    IN  IF fault[p] = <<"share", q>> THEN (s + 1) % Q ELSE s

\* Mutation of To: the old committee does not get the last ACK.
ToNewOnly(t, p) ==
    CASE t \in {"r1", "r2key", "r3decommit"} -> New \ {p}
      [] t = "r1again" -> IF fault[p][1] = "twoKeys" THEN {fault[p][2]} ELSE New \ {p}
      [] t = "r2ack" -> Old \ {p}
      [] t \in {"r3share", "r4"} -> New

\* The receivers of a message of type t from p (MessageRouting.To).
To(t, p) ==
    CASE t \in {"r1", "r2key", "r3decommit"} -> New \ {p}
      [] t = "r1again" -> IF fault[p][1] = "twoKeys" THEN {fault[p][2]} ELSE New \ {p}
      [] t = "r2ack" -> Old \ {p}
      [] t = "r3share" -> New
      [] t = "r4" -> Old \cup New

-----------------------------------------------------------------------------
(* The Start of each round: the types it sends, the trackers it leaves,    *)
(* its result and the culprits it names.  S is the store and pk the public *)
(* key when it runs.                                                       *)

Result(send, o, n) ==
    [send |-> send, oldOK |-> o, newOK |-> n, res |-> "up", blame |-> {}]
Failing(R, B) == [R EXCEPT !.res = "failed", !.blame = B]
Panicking(R) == [R EXCEPT !.res = "panicked"]

\* Round 1: only the old committee sends; all trackers it needs are set first.
Round1(p) ==
    IF p \notin Old THEN Result({}, {}, New)
    ELSE IF fault[p][1] = "input" THEN Failing(Result({}, Old, New), {p})
    ELSE IF fault[p][1] \in {"offcurve", "twoKeys"} THEN Result({"r1", "r1again"}, Old, New)
    ELSE Result({"r1"}, Old, New)

\* ECDSA round 2: the ACK goes out before the pre-params are there, and the
\* Paillier proof dereferences the public key.
EcdsaRound2(p, pk) ==
    IF p \notin New THEN Result({}, Old, {})
    ELSE IF fault[p][1] = "preparams" THEN Failing(Result({"r2ack"}, Old, {}), {p})
    ELSE IF fault[p][1] = "stale" THEN Failing(Result({"r2ack"}, Old, {}), {})
    ELSE IF pk = Unset THEN Panicking(Result({"r2ack"}, Old, {}))
    ELSE Result({"r2ack", "r2key"}, Old, {})

\* EdDSA round 2: an ACK from the new to the old committee.
EddsaRound2(p) ==
    IF p \notin New THEN Result({}, Old, {}) ELSE Result({"r2ack"}, Old, New)

\* Round 3: the old committee sends shares and de-commitments; temp.NewShares
\* is empty if its round 1 failed.
Round3(p) ==
    IF p \notin Old THEN Result({}, {}, New)
    ELSE IF fault[p][1] = "input" THEN Panicking(Result({}, Old, New))
    ELSE Result({"r3share", "r3decommit"}, Old, New)

\* The commitments Vc to the coefficients of the re-shared key.
Vc == [c \in 0 .. NewT |-> SumQ([j \in Old |-> VssPoly(j)[c]])]

\* Whose h1 and h2 new member j publishes.
Params(j) == IF fault[j][1] = "copy" THEN fault[j][2] ELSE j

\* Round 4, first part (ECDSA only): one pass refuses h1 = h2 and an h1 or h2 that
\* a lower index published too; then the Paillier proofs, which are for the key
\* that the prover took from round 1, and the discrete logarithm proofs.
ParamCulprit(p) ==
    LET of(k) == {j \in New : fault[j][1] = k}
        refused == of("equal") \cup {j \in New : \E i \in New : i < j /\ Params(i) = Params(j)}
        paillier == of("paillier") \cup {j \in New : pub[j] # pub[p]}
    IN  IF refused # {} THEN First(refused)
        ELSE IF paillier # {} THEN First(paillier)
        ELSE IF of("dln1") # {} THEN First(of("dln1"))
        ELSE First(of("dln2"))

\* Mutation of ShareCulprit: the index is off by one.
ShareCulpritNext(p) ==
    {j + 1 : j \in First({j \in Old :
        \/ fault[j][1] = "decommit"
        \/ ~Verify([threshold |-> NewT, id |-> Keys[p], share |-> ShareFor(j, p)],
                   NewT, VssPoly(j))})}

\* Round 4, second part: the first old member whose commitments or share fail.
ShareCulprit(p) ==
    First({j \in Old :
        \/ fault[j][1] = "decommit"
        \/ ~Verify([threshold |-> NewT, id |-> Keys[p], share |-> ShareFor(j, p)],
                   NewT, VssPoly(j))})

\* Mutation of Round4: the ACK goes out before the checks.
Round4AckFirst(p, S, pk) ==
    IF p \notin New THEN Result({}, Old, {})
    ELSE IF Ecdsa /\ ParamCulprit(p) # {} THEN Failing(Result({"r4"}, Old, {}), ParamCulprit(p))
    ELSE IF ShareCulprit(p) # {} THEN Failing(Result({"r4"}, Old, {}), ShareCulprit(p))
    ELSE IF Vc[0] # pk THEN Failing(Result({"r4"}, Old, {}), {p})
    ELSE Result({"r4"}, Old, {})

\* Round 4: the new committee verifies everything and acknowledges to all.  It
\* reads the slots of rounds 1 to 3 without a nil check.
Round4(p, S, pk) ==
    IF p \notin New THEN Result({}, Old, {})
    ELSE IF Ecdsa /\ \E j \in New : <<"r2key", j>> \notin S THEN Panicking(Result({}, Old, {}))
    ELSE IF Ecdsa /\ ParamCulprit(p) # {} THEN Failing(Result({}, Old, {}), ParamCulprit(p))
    ELSE IF \E j \in Old, t \in {"r1", "r3share", "r3decommit"} : <<t, j>> \notin S
         THEN Panicking(Result({}, Old, {}))
    ELSE IF ShareCulprit(p) # {} THEN Failing(Result({}, Old, {}), ShareCulprit(p))
    ELSE IF Vc[0] # pk THEN Failing(Result({}, Old, {}), {p})
    ELSE Result({"r4"}, Old, {})

\* Round 5: the new committee saves, a party that is only in the old one sets
\* its share to zero; the save data goes through the end channel.
Round5 == [Result({}, Old, New) EXCEPT !.res = "ended"]

Start(p, r, S, pk) ==
    CASE r = 1 -> Round1(p)
      [] r = 2 -> IF Ecdsa THEN EcdsaRound2(p, pk) ELSE EddsaRound2(p)
      [] r = 3 -> Round3(p)
      [] r = 4 -> Round4(p, S, pk)
      [] r = 5 -> Round5

-----------------------------------------------------------------------------
(* The Update of each round: the trackers after the slots S were looked at *)

\* The members of C from whom every type of T is in S.
From(T, C, S) == {j \in C : \A t \in T : <<t, j>> \in S}

\* The same, up to the first member of C that is neither there nor in K.
Scan(T, C, S, K) ==
    {j \in From(T, C, S) : \A i \in C : i <= j => i \in K \cup From(T, C, S)}

\* What the new members wait for in round 2, and the old ones.
Round2Types(p) ==
    (IF p \in Old THEN {"r2ack"} ELSE {}) \cup (IF p \in New /\ Ecdsa THEN {"r2key"} ELSE {})

\* Mutation of OldAfter: round 3 does not wait for the de-commitment.
OldAfterShareOnly(p, S) ==
    CASE rnd[p] = 1 /\ p \in New -> oldOK[p] \cup From({"r1"}, Old, S)
      [] rnd[p] = 3 /\ p \in New -> oldOK[p] \cup Scan({"r3share"}, Old, S, oldOK[p])
      [] OTHER -> oldOK[p]

OldAfter(p, S) ==
    CASE rnd[p] = 1 /\ p \in New -> oldOK[p] \cup From({"r1"}, Old, S)
      [] rnd[p] = 3 /\ p \in New ->
            oldOK[p] \cup Scan({"r3share", "r3decommit"}, Old, S, oldOK[p])
      [] OTHER -> oldOK[p]

NewAfter(p, S) ==
    CASE rnd[p] = 2 -> newOK[p] \cup From(Round2Types(p), New, S)
      [] rnd[p] = 4 -> newOK[p] \cup (IF Ecdsa THEN Scan({"r4"}, New, S, newOK[p])
                                      ELSE From({"r4"}, New, S))
      [] OTHER -> newOK[p]

\* The old members whose DGRound1Message the Update of round 1 finds anew.
Fresh(p, S) == IF rnd[p] = 1 /\ p \in New THEN From({"r1"}, Old, S) \ oldOK[p] ELSE {}

\* The public keys in slot 0, of which there is at most one.
SlotKey(S) ==
    {Announced(IF <<"r1again", j>> \in S THEN "r1again" ELSE "r1", j) :
        j \in {i \in First(Old) : <<"r1", i>> \in S}}

\* The Update of round 1 looks at slot 0 whenever it finds a new message, whoever
\* sent that: the key there is no point, or not the one it took before.
KeyError(p, S) ==
    Fresh(p, S) # {} /\ \E k \in SlotKey(S) : k = OffCurve \/ pub[p] \notin {Unset, k}

\* Otherwise it takes that key.
PubAfter(p, S) ==
    IF Fresh(p, S) # {} /\ SlotKey(S) # {} THEN CHOOSE k \in SlotKey(S) : TRUE ELSE pub[p]

\* base.CanProceed after the Update.
CanProceed(p, S) == OldAfter(p, S) = Old /\ NewAfter(p, S) = New

-----------------------------------------------------------------------------
\* The calls that can take a step.
Ready(p, m) ==
    /\ m \in calls[p]
    /\ status[p] # "panicked"
    /\ busy \subseteq {<<p, m>>}

\* Start of round r at p: its messages go to their receivers and into p's own
\* slots, round 4 fills temp.newXi (a sum that is not reduced).  M is the
\* message of the call, if any: on an error the call returns.  (R is bound by a
\* quantifier so that TLC computes it once.)
RunRound(p, r, S, pk, M) ==
    \E R \in {Start(p, r, S, pk)} :
    LET sent(q) == {<<t, p>> : t \in {u \in R.send : q \in To(u, p)}}
        over == IF R.res \in {"failed", "panicked"} THEN M ELSE {}
    IN  /\ rnd' = [rnd EXCEPT ![p] = r]
        /\ oldOK' = [oldOK EXCEPT ![p] = R.oldOK]
        /\ newOK' = [newOK EXCEPT ![p] = R.newOK]
        /\ store' = [store EXCEPT ![p] = S \cup {<<t, p>> : t \in R.send}]
        /\ calls' = [q \in Party |-> (calls[q] \ (IF q = p THEN over ELSE {})) \cup sent(q)]
        /\ busy' = {<<p, m>> : m \in M \ over}
        /\ pub' = [pub EXCEPT ![p] = pk]
        /\ newXi' = [newXi EXCEPT ![p] =
              IF r = 4 /\ p \in New /\ R.res = "up"
              THEN SumFunction([j \in Old |-> ShareFor(j, p)])
              ELSE @]
        /\ status' = [status EXCEPT ![p] = R.res]
        /\ culprits' = [culprits EXCEPT ![p] = @ \cup R.blame]
        /\ UNCHANGED <<protocol, fault>>

BaseStart(p) ==
    /\ status[p] = "idle"
    /\ busy = {}
    /\ RunRound(p, 1, store[p], pub[p], {})

\* StoreMessage: a slot holds the last message of its sender, and the second
\* DGRound1Message goes into the slot of the first.
Put(S, m) ==
    CASE m[1] = "r1again" -> S \cup {m, <<"r1", m[2]>>}
      [] m[1] = "r1" -> (S \ {<<"r1again", m[2]>>}) \cup {m}
      [] OTHER -> S \cup {m}

\* BaseUpdate without a round (before Start, after the end): store only.
UpdateStore(p, m) ==
    /\ Ready(p, m)
    /\ rnd[p] = 0
    /\ store' = [store EXCEPT ![p] = Put(@, m)]
    /\ calls' = [calls EXCEPT ![p] = @ \ {m}]
    /\ busy' = {}
    /\ UNCHANGED <<protocol, rnd, oldOK, newOK, pub, newXi, fault, status, culprits>>

\* BaseUpdate when the round cannot proceed.
UpdateWait(p, m) ==
    LET S == Put(store[p], m)
    IN  /\ Ready(p, m)
        /\ rnd[p] # 0
        /\ ~KeyError(p, S) /\ ~CanProceed(p, S)
        /\ store' = [store EXCEPT ![p] = S]
        /\ oldOK' = [oldOK EXCEPT ![p] = OldAfter(p, S)]
        /\ newOK' = [newOK EXCEPT ![p] = NewAfter(p, S)]
        /\ pub' = [pub EXCEPT ![p] = PubAfter(p, S)]
        /\ calls' = [calls EXCEPT ![p] = @ \ {m}]
        /\ busy' = {}
        /\ UNCHANGED <<protocol, rnd, newXi, fault, status, culprits>>

\* BaseUpdate when the Update of round 1 returns an error: it stops at the first
\* message it finds anew, marks its sender ok all the same and names it.
UpdateFail(p, m) ==
    LET S == Put(store[p], m)
        C == First(Fresh(p, S))
    IN  /\ Ready(p, m)
        /\ KeyError(p, S)
        /\ store' = [store EXCEPT ![p] = S]
        /\ oldOK' = [oldOK EXCEPT ![p] = @ \cup C]
        /\ calls' = [calls EXCEPT ![p] = @ \ {m}]
        /\ busy' = {}
        /\ status' = [status EXCEPT ![p] = "failed"]
        /\ culprits' = [culprits EXCEPT ![p] = @ \cup C]
        /\ UNCHANGED <<protocol, rnd, newOK, pub, newXi, fault>>

\* BaseUpdate when the round can proceed: the next one starts, and unless it
\* returns an error the call runs again with the same message.
UpdateAdvance(p, m) ==
    LET S == Put(store[p], m)
    IN  /\ Ready(p, m)
        /\ rnd[p] \in 1 .. 4
        /\ ~KeyError(p, S) /\ CanProceed(p, S)
        /\ RunRound(p, rnd[p] + 1, S, PubAfter(p, S), {m})

\* BaseUpdate after round 5: p.rnd becomes nil.
UpdateFinish(p, m) ==
    /\ Ready(p, m)
    /\ rnd[p] = 5
    /\ rnd' = [rnd EXCEPT ![p] = 0]
    /\ store' = [store EXCEPT ![p] = Put(@, m)]
    /\ busy' = {<<p, m>>}
    /\ UNCHANGED <<protocol, oldOK, newOK, calls, pub, newXi, fault, status, culprits>>

BaseUpdate(p, m) ==
    \/ UpdateStore(p, m) \/ UpdateWait(p, m) \/ UpdateFail(p, m)
    \/ UpdateAdvance(p, m) \/ UpdateFinish(p, m)

Next == \E p \in Party : BaseStart(p) \/ \E m \in calls[p] : BaseUpdate(p, m)

Spec == Init /\ [][Next]_vars

\* The application starts every party and hands every message over, and while
\* Update calls wait, the mutex of the party is given to one of them.
FairSpec ==
    /\ Spec
    /\ \A p \in Party : WF_vars(BaseStart(p))
    /\ \A p \in Party : WF_vars(\E m \in calls[p] : BaseUpdate(p, m))

-----------------------------------------------------------------------------
(* Properties.                                                             *)

\* The key that comes out when the old members J re-share the other key.
MixedKey(J) ==
    SumQ([j \in Old |-> SigningWeight(j, Old, Keys,
            evaluatePolynomial(OldT, IF j \in J THEN OtherPoly ELSE KeyPoly, Keys[j]))])

\* Neither the key nor a mixture comes out as the other key, which on a curve of
\* cryptographic size has negligible probability.  It may only be announced if
\* the old member in slot 0 is faulty.
OtherKeyIsSeen ==
    First(Old) \subseteq Faulty => \A J \in SUBSET (Old \cap Faulty) : MixedKey(J) # OtherPoly[0]

\* Every new member holds a share it verified, and any NewT+1 of them recover
\* the key of the old committee.
Moved ==
    /\ \A q \in New : newXi[q] # Unset
    /\ \A I \in SUBSET New : Cardinality(I) = NewT + 1 =>
          SumQ([q \in I |-> SigningWeight(q, I, Keys, newXi[q])]) = KeyPoly[0]

\* Nobody finishes before the key has moved: an old member zeroes its share
\* (round_5_new_step_3.go:45), and a new one delivers its save data, only when
\* every new member accepted a share of the same key.
EndMeansMoved == (\E p \in Party : status[p] = "ended") => Moved

\* No Start reads a message or a public key that is not there.
NoPanic == \A p \in Party : status[p] # "panicked"

\* The old member in slot 0 announces its key with fault k.
SlotFault(k) == \E j \in First(Old) : fault[j][1] = k

\* The only value a Start reads that may be missing is the public key: round 1
\* marks the sender ok before it refuses the key in slot 0 (ecdsa/resharing,
\* round_1_old_step_1.go:105, :115), so that a later message takes the party
\* into round 2 without one.  By then an Update has returned an error: a caller
\* that stops at the first error meets no nil pointer.
PanicAfterError ==
    \A p \in Party : status[p] = "panicked" =>
        Ecdsa /\ p \in New /\ culprits[p] # {} /\ SlotFault("offcurve")

\* An honest party blames a faulty one.  The exceptions: it names itself when
\* V_0 does not match, that is when an old member re-shares another key than it
\* or slot 0 announced (round_4_new_step_2.go:155); it names an old member whose
\* message it found while slot 0 held a bad key (round_1_old_step_1.go:115, :120)
\* and, if slot 0 announced two keys, a new member that took the other one; and
\* it names whoever a new member of a lower index copied h1 and h2 from.
BlameIsJust ==
    \A p \in Honest : \A q \in culprits[p] \cap Honest :
        \/ SlotFault("twoKeys")
        \/ SlotFault("offcurve") /\ q \in Old \cup {p}
        \/ q = p /\ \E j \in Old : fault[j][1] = "otherKey"
        \/ \E i \in New : i < q /\ Params(i) = q

\* All parties finish ("the `endCh` will receive save data or a signature when
\* the protocol is complete", README.md:131).
AllEnd == <>(\A p \in Party : status[p] = "ended")

\* Both committees finish if everybody is honest and no new member is started
\* only after the last DGRound1Message was handed to it: the two trackers, the
\* messages of later rounds that come early and the prefix scans lose no
\* wake-up after that.
EndsIfStartedInTime ==
    /\ \A p \in Party : fault[p][1] = "none"
    /\ [](\A p \in New : status[p] = "idle" => \E j \in Old : <<"r1", j>> \notin store[p])
    => AllEnd
=============================================================================
