---------------------------- MODULE KeygenProofs ----------------------------
(***************************************************************************)
(* Proofs about Keygen, for every committee, threshold, group order, set   *)
(* of faulty parties and choice of polynomials.                            *)
(***************************************************************************)
EXTENDS Keygen, FeldmanVssProofs

\* The values every variable takes.
KgType ==
    /\ at \in [Members -> 0 .. 4]
    /\ done \in [Members -> SUBSET (1 .. 4)]
    /\ bad \in [Members -> 0 .. 4]
    /\ ecdsa \in BOOLEAN
    /\ poly \in [Members -> Poly]
    /\ xi \in [Members -> Zq \cup {Unset}]
    /\ pub \in [Members -> Zq \cup {Unset}]
    /\ bigX \in [Members -> [Members -> Zq \cup {Unset}]]
    /\ culprits \in [Members -> SUBSET Members]
    /\ ended \in [Members -> BOOLEAN]

\* Honest parties have no fault; a fault is a kind and a party.
KgFaults ==
    /\ \A p \in Honest : fault[p] = <<"none", p>>
    /\ \A p \in Members : fault[p] = <<fault[p][1], fault[p][2]>> /\ fault[p][2] \in Members

\* The lock step: a party is past a round only if everybody completed it, and
\* an error is the end of its party.
KgLock ==
    \A p \in Members :
        /\ \A r \in done[p] : r <= at[p]
        /\ bad[p] = 0 \/ (bad[p] = at[p] /\ at[p] \notin done[p])
        /\ \A r \in 1 .. at[p] - 1 : \A q \in Members : r \in done[q]

\* What a party that completed round 3 has saved.
SavedKey(p) ==
    /\ xi[p] = SumShares(p)
    /\ pub[p] = Vc[0]
    /\ bigX[p] = [j \in Members |-> evaluatePolynomial(T, Vc, Key(j))]

\* What completing or failing a round says about the messages received.
PartyRounds(p) ==
    /\ 1 \in done[p] => CreateOk(T, Keys)
    /\ 3 \in done[p] => SavedKey(p)
    /\ ended[p] => (IF ecdsa THEN 4 ELSE 3) \in done[p]
    /\ ~ecdsa => at[p] <= 3
    /\ p \in Honest =>
          /\ 3 \in done[p] => ShareCulprits(p) = {}
          /\ (ecdsa /\ ended[p]) => \A j \in Members \ {p} : fault[j][1] # "paillier"
          /\ bad[p] = 4 => \E j \in Members : fault[j][1] = "paillier"
          /\ (~ecdsa /\ bad[p] = 3) => ShareCulprits(p) # {}

KgRounds == \A p \in Members : PartyRounds(p)

\* C names honest party j only for a copy of its parameters, or because j is p
\* itself and round r, which failed, is the first.
BlameOf(p, C, r) ==
    p \in Honest => \A j \in C \cap Honest :
        \/ j = p /\ r = 1
        \/ \E i \in Faulty : i < j /\ fault[i] = <<"copy", j>>

\* The inductive invariant.
KgInv == KgType /\ KgFaults /\ KgLock /\ KgRounds /\ BlameIsJust

-----------------------------------------------------------------------------
(* The operators.                                                          *)

LEMMA MembersFinite == IsFiniteSet(Members) /\ Members \subseteq Nat
<1>1. Cardinality(Members) \in Nat
  BY KeygenAssumption, FS_CardinalityType
<1> QED BY <1>1, KeygenAssumption

LEMMA Shares ==
    ASSUME KgType, NEW p \in Members, NEW q \in Members
    PROVE  /\ evaluatePolynomial(T, poly[p], Key(q)) \in Zq
           /\ ShareFor(p, q) \in Zq
           /\ fault[p] # <<"share", q>> => ShareFor(p, q) = evaluatePolynomial(T, poly[p], Key(q))
           /\ fault[p] = <<"share", q>> => ShareFor(p, q) # evaluatePolynomial(T, poly[p], Key(q))
<1> DEFINE s == evaluatePolynomial(T, poly[p], Key(q))
<1>1. T \in Nat /\ IntOn(poly[p], 0 .. T) /\ Key(q) \in Int
  <2>1. poly[p] \in [0 .. T -> Zq] /\ T \in Nat
    BY KeygenAssumption DEF KgType
  <2>2. Zq \subseteq Int
    BY QAssumption DEF Zq
  <2>3. Key(q) \in Int
    BY MembersFinite DEF Key
  <2> QED BY <2>1, <2>2, <2>3 DEF IntOn
<1>2. s \in Zq /\ s \in Int
  BY <1>1, EvalType
<1>3. (s + 1) % Q \in Zq /\ (s + 1) % Q # s
  <2> HIDE DEF s
  <2> QED BY <1>2, QAssumption DEF Zq
<1>4. ShareFor(p, q) = IF fault[p] = <<"share", q>> THEN (s + 1) % Q ELSE s
  BY DEF ShareFor
<1> HIDE DEF s
<1>5. s \in Zq /\ ShareFor(p, q) \in Zq
      /\ (fault[p] # <<"share", q>> => ShareFor(p, q) = s)
      /\ (fault[p] = <<"share", q>> => ShareFor(p, q) # s)
  BY <1>2, <1>3, <1>4
<1> QED BY <1>5 DEF s

\* The parties that p rejects in round 3 are those that sent something wrong.
LEMMA ShareCulpritsAre ==
    ASSUME KgType, NEW p \in Members
    PROVE  ShareCulprits(p) =
              {j \in Members \ {p} : fault[j][1] \in {"decommit", "schnorr"} \/ fault[j] = <<"share", p>>}
<1> SUFFICES ASSUME NEW j \in Members
             PROVE  Verify([threshold |-> T, id |-> Key(p), share |-> ShareFor(j, p)], T, poly[j])
                       <=> fault[j] # <<"share", p>>
  BY DEF ShareCulprits
<1>1. T \in Nat /\ IntOn(poly[j], 0 .. T) /\ Key(p) \in Int
  <2>1. poly[j] \in [0 .. T -> Zq] /\ T \in Nat
    BY KeygenAssumption DEF KgType
  <2>2. Zq \subseteq Int
    BY QAssumption DEF Zq
  <2>3. Key(p) \in Int
    BY MembersFinite DEF Key
  <2> QED BY <2>1, <2>2, <2>3 DEF IntOn
<1>2. ShareFor(j, p) \in Zq
  BY Shares
<1>3. Verify([threshold |-> T, id |-> Key(p), share |-> ShareFor(j, p)], T, poly[j])
         <=> ShareFor(j, p) = evaluatePolynomial(T, poly[j], Key(p))
  BY <1>1, <1>2, VerifyIff
<1> QED BY <1>3, Shares

\* If p rejects no share, the sum of its shares is the value of the key polynomial.
LEMMA SharesAddUp ==
    ASSUME KgType, NEW p \in Members, \A j \in Members : fault[j] # <<"share", p>>
    PROVE  SumShares(p) = evaluatePolynomial(T, Vc, Key(p))
<1>1. T \in Nat /\ IsFiniteSet(Members) /\ Key(p) \in Int
  BY MembersFinite, KeygenAssumption DEF Key
<1>2. \A j \in Members : IntOn(poly[j], 0 .. T)
  <2>1. \A j \in Members : poly[j] \in [0 .. T -> Zq]
    BY KeygenAssumption DEF KgType
  <2>2. Zq \subseteq Int
    BY QAssumption DEF Zq
  <2> QED BY <2>1, <2>2 DEF IntOn
<1>3. Vc = PolySum(T, Members, poly)
  BY DEF Vc, PolySum
<1>4. evaluatePolynomial(T, PolySum(T, Members, poly), Key(p)) = SumQ(Values(T, Members, poly, Key(p)))
  BY <1>1, <1>2, EvalSum
<1>5. Values(T, Members, poly, Key(p)) = [j \in Members |-> ShareFor(j, p)]
  BY Shares DEF Values
<1> QED BY <1>3, <1>4, <1>5 DEF SumShares

\* The coefficients of the key polynomial.
LEMMA VcType == ASSUME KgType PROVE IntOn(Vc, 0 .. T) /\ \A c \in 0 .. T : Vc[c] \in Zq
<1>1. IsFiniteSet(Members) /\ Zq \subseteq Int
  BY MembersFinite, QAssumption DEF Zq
<1>2. \A j \in Members : poly[j] \in [0 .. T -> Zq]
  BY KeygenAssumption DEF KgType
<1>3. ASSUME NEW c \in 0 .. T PROVE Vc[c] \in Zq
  <2> DEFINE f == [j \in Members |-> poly[j][c]]
  <2>1. IntOn(f, Members) /\ DOMAIN f = Members
    BY <1>1, <1>2 DEF IntOn
  <2>2. Vc[c] = SumQ(f)
    BY DEF Vc
  <2> HIDE DEF f
  <2> QED BY <1>1, <2>1, <2>2, SumQType
<1> QED BY <1>1, <1>3 DEF IntOn

LEMMA SavedTypes ==
    ASSUME KgType, NEW p \in Members
    PROVE  /\ SumShares(p) \in Zq
           /\ Vc[0] \in Zq
           /\ [j \in Members |-> evaluatePolynomial(T, Vc, Key(j))] \in [Members -> Zq]
<1>1. T \in Nat /\ IsFiniteSet(Members) /\ Zq \subseteq Int
  BY MembersFinite, KeygenAssumption, QAssumption DEF Zq
<1>2. SumShares(p) \in Zq
  <2> DEFINE f == [j \in Members |-> ShareFor(j, p)]
  <2>1. IntOn(f, Members) /\ DOMAIN f = Members
    BY <1>1, Shares DEF IntOn
  <2> HIDE DEF f
  <2>2. SumQ(f) \in Zq
    BY <1>1, <2>1, SumQType
  <2> QED BY <2>2 DEF SumShares, f
<1>3. \A j \in Members : evaluatePolynomial(T, Vc, Key(j)) \in Zq
  <2>1. \A j \in Members : Key(j) \in Int
    BY MembersFinite DEF Key
  <2> QED BY <1>1, <2>1, VcType, EvalType
<1> QED BY <1>1, <1>2, <1>3, VcType

\* What the operators read does not change after Init.
LEMMA Fixed ==
    ASSUME ecdsa' = ecdsa, poly' = poly, fault' = fault
    PROVE  /\ \A p \in Members : SumShares(p)' = SumShares(p) /\ ShareCulprits(p)' = ShareCulprits(p)
           /\ Vc' = Vc
BY DEF SumShares, ShareCulprits, ShareFor, Vc

\* First returns a part of its argument.
LEMMA FirstIn == ASSUME NEW S \in SUBSET Nat PROVE First(S) \subseteq S /\ (S # {} => First(S) # {})
<1>1. CASE S = {}
  BY <1>1 DEF First
<1>2. CASE S # {}
  <2>1. \E j \in S : \A i \in S : j <= i
    BY <1>2, Least
  <2>2. (CHOOSE j \in S : \A i \in S : j <= i) \in S
    BY <2>1, Zenon
  <2> QED BY <1>2, <2>2 DEF First
<1> QED BY <1>1, <1>2

\* Honest parties send nothing wrong.
LEMMA HonestFaults ==
    ASSUME KgFaults, NEW j \in Honest
    PROVE  /\ fault[j][1] = "none"
           /\ \A x \in Members : fault[j] # <<"share", x>>
BY DEF KgFaults

LEMMA HonestShares ==
    ASSUME KgType, KgFaults, NEW p \in Members, NEW j \in Honest
    PROVE  j \notin ShareCulprits(p)
BY ShareCulpritsAre, HonestFaults

\* The parties that round 2 refuses: a duplicate is a fault of the first of two.
LEMMA Round2Blame ==
    ASSUME KgFaults, NEW j \in Round2Culprit
    PROVE  j \in Members /\ (j \in Honest => \E i \in Faulty : i < j /\ fault[i] = <<"copy", j>>)
<1> DEFINE refused == {x \in Members :
            \/ fault[x][1] = "sizes"
            \/ ~IgnoreDupes /\ \E i \in Members : i < x /\ Params(i) = Params(x)}
           dln(k) == {x \in Members : fault[x][1] = k}
<1>1. Members \subseteq Nat
  BY MembersFinite
<1>2. j \in refused \/ j \in dln("dln1") \/ j \in dln("dln2")
  <2>1. First(refused) \subseteq refused
    BY <1>1, FirstIn
  <2>2. \A k \in {"dln1", "dln2"} : First(dln(k)) \subseteq dln(k)
    BY <1>1, FirstIn
  <2>3. j \in First(refused) \/ j \in First(dln("dln1")) \/ j \in First(dln("dln2"))
    BY DEF Round2Culprit
  <2> HIDE DEF refused, dln
  <2> QED BY <2>1, <2>2, <2>3
<1>3. j \in Members
  BY <1>2
<1>4. ASSUME j \in Honest PROVE \E i \in Faulty : i < j /\ fault[i] = <<"copy", j>>
  <2>1. fault[j][1] = "none"
    BY <1>4, HonestFaults
  <2>2. PICK i \in Members : i < j /\ Params(i) = Params(j)
    BY <1>2, <2>1
  <2>3. Params(j) = j /\ i # j
    BY <1>1, <1>3, <2>1, <2>2 DEF Params
  <2>4. fault[i][1] = "copy" /\ fault[i][2] = j
    BY <2>2, <2>3 DEF Params
  <2>5. i \in Faulty
    BY <2>4, HonestFaults DEF Honest
  <2>6. fault[i] = <<"copy", j>>
    BY <2>4 DEF KgFaults
  <2> QED BY <2>2, <2>5, <2>6
<1> QED BY <1>3, <1>4

-----------------------------------------------------------------------------
(* The invariant.                                                          *)

LEMMA KgInit == Init => KgInv
<1> SUFFICES ASSUME Init PROVE KgInv
  OBVIOUS
<1>1. KgType
  BY KeygenAssumption DEF Init, LSInit, KgType
<1>2. KgFaults
  <2>1. PICK f \in [Faulty -> UNION {Fault(p, ecdsa) : p \in Faulty}] :
            /\ \A p \in Faulty : f[p] \in Fault(p, ecdsa)
            /\ fault = [p \in Members |-> IF p \in Faulty THEN f[p] ELSE <<"none", p>>]
    BY DEF Init
  <2>2. \A p \in Honest : fault[p] = <<"none", p>>
    BY <2>1 DEF Honest
  <2>3. ASSUME NEW p \in Faulty
        PROVE  fault[p] = <<fault[p][1], fault[p][2]>> /\ fault[p][2] \in Members
    <3>1. fault[p] \in Fault(p, ecdsa) /\ p \in Members
      BY <2>1, KeygenAssumption
    <3>2. \E k, v : v \in Members /\ fault[p] = <<k, v>>
      <4> DEFINE K == {"none", "decommit"} \cup
                        (IF ecdsa THEN {"sizes", "dln1", "dln2", "paillier"} ELSE {"schnorr"})
                 V == {"share"} \cup (IF ecdsa THEN {"copy"} ELSE {})
      <4>1. fault[p] \in {<<k, p>> : k \in K} \cup {<<k, v>> : k \in V, v \in Members \ {p}}
        BY <3>1 DEF Fault
      <4> HIDE DEF K, V
      <4> QED BY <3>1, <4>1
    <3> QED BY <3>2
  <2>4. \A p \in Honest : fault[p] = <<fault[p][1], fault[p][2]>> /\ fault[p][2] \in Members
    <3> SUFFICES ASSUME NEW p \in Honest
                 PROVE  fault[p] = <<fault[p][1], fault[p][2]>> /\ fault[p][2] \in Members
      OBVIOUS
    <3>1. fault[p] = <<"none", p>> /\ p \in Members
      BY <2>2 DEF Honest
    <3> QED BY <3>1
  <2>5. \A p \in Members : fault[p] = <<fault[p][1], fault[p][2]>> /\ fault[p][2] \in Members
    <3> SUFFICES ASSUME NEW p \in Members
                 PROVE  fault[p] = <<fault[p][1], fault[p][2]>> /\ fault[p][2] \in Members
      OBVIOUS
    <3>1. p \in Honest \/ p \in Faulty
      BY DEF Honest
    <3> QED BY <2>3, <2>4, <3>1
  <2> QED BY <2>2, <2>5 DEF KgFaults
<1>3. \A p \in Members : at[p] = 0 /\ done[p] = {} /\ bad[p] = 0 /\ ended[p] = FALSE
  BY DEF Init, LSInit
<1>4. KgLock /\ KgRounds
  BY <1>3 DEF KgLock, KgRounds, PartyRounds
<1>5. BlameIsJust
  BY DEF Init, BlameIsJust, Honest
<1> QED BY <1>1, <1>2, <1>4, <1>5 DEF KgInv

\* A Start keeps the lock step.
LEMMA KgStart ==
    ASSUME KgType, KgLock, NEW p \in Members, NEW good \in BOOLEAN, StartRound(p, good)
    PROVE  /\ at' \in [Members -> 0 .. 4]
           /\ done' \in [Members -> SUBSET (1 .. 4)]
           /\ bad' \in [Members -> 0 .. 4]
           /\ KgLock'
           /\ at[p] > 0 => \A q \in Members : at[p] \in done[q]
           /\ bad[p] = 0 /\ at[p] + 1 \notin done[p]
           /\ at' = [at EXCEPT ![p] = at[p] + 1]
           /\ done' = [done EXCEPT ![p] = IF good THEN done[p] \cup {at[p] + 1} ELSE done[p]]
           /\ bad' = [bad EXCEPT ![p] = IF good THEN 0 ELSE at[p] + 1]
<1>1. at[p] \in 0 .. 3 /\ done[p] \in SUBSET (1 .. 4)
  BY KeygenAssumption DEF StartRound, KgType
<1>2. at[p] > 0 => \A q \in Members : at[p] \in done[q]
  BY KeygenAssumption DEF StartRound, RoundComplete
<1>3. bad[p] = 0 /\ at[p] + 1 \notin done[p]
  BY <1>1, <1>2 DEF KgLock
<1>4. /\ at' = [at EXCEPT ![p] = at[p] + 1]
      /\ done' = [done EXCEPT ![p] = IF good THEN done[p] \cup {at[p] + 1} ELSE done[p]]
      /\ bad' = [bad EXCEPT ![p] = IF good THEN 0 ELSE at[p] + 1]
  BY <1>3 DEF StartRound
<1>5. /\ at' \in [Members -> 0 .. 4]
      /\ done' \in [Members -> SUBSET (1 .. 4)]
      /\ bad' \in [Members -> 0 .. 4]
  BY <1>1, <1>4 DEF KgType
<1>6. \A q \in Members : done[q] \subseteq done'[q]
  BY <1>4 DEF KgType
<1>7. KgLock'
  <2> SUFFICES ASSUME NEW q \in Members
               PROVE  /\ \A r \in done'[q] : r <= at'[q]
                      /\ bad'[q] = 0 \/ (bad'[q] = at'[q] /\ at'[q] \notin done'[q])
                      /\ \A r \in 1 .. at'[q] - 1 : \A x \in Members : r \in done'[x]
    BY DEF KgLock
  <2>1. CASE q = p
    <3>1. \A r \in done'[q] : r <= at'[q]
      BY <1>1, <1>4, <2>1 DEF KgLock, KgType
    <3>2. bad'[q] = 0 \/ (bad'[q] = at'[q] /\ at'[q] \notin done'[q])
      BY <1>3, <1>4, <2>1 DEF KgType
    <3>3. \A r \in 1 .. at'[q] - 1 : \A x \in Members : r \in done'[x]
      BY <1>1, <1>2, <1>4, <1>6, <2>1 DEF KgLock, KgType
    <3> QED BY <3>1, <3>2, <3>3
  <2>2. CASE q # p
    BY <1>4, <1>6, <2>2 DEF KgLock, KgType
  <2> QED BY <2>1, <2>2
<1> QED BY <1>2, <1>3, <1>4, <1>5, <1>7

\* For the steps that do not assign the saved key.
LEMMA KgSavedKept ==
    ASSUME ecdsa' = ecdsa, poly' = poly, fault' = fault, NEW q \in Members,
           xi'[q] = xi[q], pub'[q] = pub[q], bigX'[q] = bigX[q], SavedKey(q)
    PROVE  SavedKey(q)'
BY Fixed DEF SavedKey

\* A step of p leaves alone what is said of another party.
LEMMA KgOthers ==
    ASSUME KgType, KgLock, KgRounds, NEW p \in Members, NEW good \in BOOLEAN, StartRound(p, good),
           ecdsa' = ecdsa, poly' = poly, fault' = fault, NEW q \in Members \ {p},
           xi'[q] = xi[q], pub'[q] = pub[q], bigX'[q] = bigX[q], ended'[q] = ended[q]
    PROVE  PartyRounds(q)'
<1>1. at'[q] = at[q] /\ done'[q] = done[q] /\ bad'[q] = bad[q]
  BY KgStart DEF KgType
<1>2. PartyRounds(q)
  BY DEF KgRounds
<1>3. (3 \in done[q] => SavedKey(q)) => (3 \in done'[q] => SavedKey(q)')
  BY <1>1, KgSavedKept
<1>4. ShareCulprits(q)' = ShareCulprits(q)
  BY Fixed
<1> QED BY <1>1, <1>2, <1>3, <1>4 DEF PartyRounds

\* The same in one formula: what remains to be shown of a step of p.
LEMMA KgStep ==
    ASSUME KgInv, NEW p \in Members, NEW good \in BOOLEAN, StartRound(p, good),
           ecdsa' = ecdsa, poly' = poly, fault' = fault,
           NEW x \in Zq \cup {Unset}, xi' = [xi EXCEPT ![p] = x],
           NEW y \in Zq \cup {Unset}, pub' = [pub EXCEPT ![p] = y],
           NEW z \in [Members -> Zq \cup {Unset}], bigX' = [bigX EXCEPT ![p] = z],
           NEW C \in SUBSET Members, culprits' = [culprits EXCEPT ![p] = C],
           NEW e \in BOOLEAN, ended' = [ended EXCEPT ![p] = e],
           PartyRounds(p)',
           BlameOf(p, C, bad'[p])
    PROVE  KgInv'
<1>1. KgType /\ KgFaults /\ KgLock /\ KgRounds /\ BlameIsJust
  BY DEF KgInv
<1>2. KgType'
  BY <1>1, KgStart DEF KgType
<1>3. KgFaults'
  BY <1>1 DEF KgFaults
<1>4. KgLock'
  BY <1>1, KgStart
<1>5. KgRounds'
  <2>1. \A q \in Members \ {p} :
            xi'[q] = xi[q] /\ pub'[q] = pub[q] /\ bigX'[q] = bigX[q] /\ ended'[q] = ended[q]
    BY <1>1 DEF KgType
  <2>2. \A q \in Members \ {p} : PartyRounds(q)'
    BY <1>1, <2>1, KgOthers
  <2> QED BY <2>2 DEF KgRounds
<1>6. BlameIsJust'
  <2> SUFFICES ASSUME NEW q \in Honest
               PROVE  \A j \in culprits'[q] \cap Honest :
                         \/ j = q /\ bad'[q] = 1
                         \/ \E i \in Faulty : i < j /\ fault'[i] = <<"copy", j>>
    BY DEF BlameIsJust
  <2>1. CASE q = p
    <3>1. culprits'[q] = C
      BY <1>1, <2>1 DEF KgType
    <3> QED BY <2>1, <3>1 DEF BlameOf
  <2>2. CASE q # p
    <3>1. culprits'[q] = culprits[q] /\ bad'[q] = bad[q]
      BY <1>1, <2>2, KgStart DEF KgType, Honest
    <3> QED BY <1>1, <3>1 DEF BlameIsJust
  <2> QED BY <2>1, <2>2
<1> QED BY <1>2, <1>3, <1>4, <1>5, <1>6 DEF KgInv

\* What does not change, in the form KgStep asks for.
LEMMA KgSame ==
    ASSUME KgType, NEW p \in Members
    PROVE  /\ xi = [xi EXCEPT ![p] = xi[p]] /\ xi[p] \in Zq \cup {Unset}
           /\ pub = [pub EXCEPT ![p] = pub[p]] /\ pub[p] \in Zq \cup {Unset}
           /\ bigX = [bigX EXCEPT ![p] = bigX[p]] /\ bigX[p] \in [Members -> Zq \cup {Unset}]
           /\ culprits = [culprits EXCEPT ![p] = culprits[p]] /\ culprits[p] \in SUBSET Members
           /\ ended = [ended EXCEPT ![p] = ended[p]] /\ ended[p] \in BOOLEAN
BY DEF KgType

\* A party that starts a round has not failed: what it said of others so far
\* stands, whatever becomes of the round.
LEMMA KgKept ==
    ASSUME KgType, KgLock, BlameIsJust, NEW p \in Members,
           NEW good \in BOOLEAN, StartRound(p, good)
    PROVE  \A r : BlameOf(p, culprits[p], r)
<1>1. bad[p] = 0
  BY KgStart
<1> QED BY <1>1 DEF BlameOf, BlameIsJust

\* The rounds 1 and 2 of p, in which the key is not computed.
LEMMA KgEarly ==
    ASSUME KgInv, NEW p \in Members, NEW good \in BOOLEAN, StartRound(p, good), at[p] \in {0, 1},
           (good /\ at[p] = 0) => CreateOk(T, Keys),
           ecdsa' = ecdsa, poly' = poly, fault' = fault,
           xi' = xi, pub' = pub, bigX' = bigX, ended' = ended
    PROVE  PartyRounds(p)'
<1>1. KgType /\ KgLock /\ PartyRounds(p)
  BY DEF KgInv, KgRounds
<1>2. at'[p] = at[p] + 1 /\ done'[p] \subseteq done[p] \cup {at[p] + 1}
      /\ bad'[p] \in {0, at[p] + 1} /\ (~good => done'[p] = done[p])
  BY <1>1, KgStart DEF KgType
<1>3. 3 \notin done[p] /\ 4 \notin done[p] /\ 3 \notin done'[p] /\ 4 \notin done'[p]
  BY <1>1, <1>2 DEF KgLock
<1>4. ~ended[p]
  BY <1>1, <1>3 DEF PartyRounds
<1>5. 1 \in done'[p] => CreateOk(T, Keys)
  BY <1>1, <1>2 DEF PartyRounds, KgType
<1> QED BY <1>2, <1>3, <1>4, <1>5 DEF PartyRounds

\* Round 3, in which p computes its share and, unless it stops, the key.
LEMMA KgShares ==
    ASSUME KgInv, NEW p \in Members, NEW good \in GoodResults(p, ShareCulprits(p)),
           StartRound(p, good), at[p] = 2, SaveKey(p, good),
           ecdsa' = ecdsa, poly' = poly, fault' = fault,
           NEW e \in BOOLEAN, ended' = [ended EXCEPT ![p] = e], e => good /\ ~ecdsa
    PROVE  KgInv'
<1> DEFINE x == SumShares(p)
           y == IF good THEN Vc[0] ELSE pub[p]
           z == IF good THEN [j \in Members |-> evaluatePolynomial(T, Vc, Key(j))] ELSE bigX[p]
           C == IF good THEN culprits[p] ELSE ShareCulprits(p)
<1>1. KgType /\ KgFaults /\ KgLock /\ PartyRounds(p) /\ BlameIsJust /\ good \in BOOLEAN
  BY DEF KgInv, KgRounds, GoodResults
<1>2. /\ xi' = [xi EXCEPT ![p] = x]
      /\ pub' = [pub EXCEPT ![p] = y]
      /\ bigX' = [bigX EXCEPT ![p] = z]
      /\ culprits' = [culprits EXCEPT ![p] = C]
  BY DEF SaveKey
<1>3. x \in Zq \cup {Unset} /\ y \in Zq \cup {Unset} /\ z \in [Members -> Zq \cup {Unset}]
  BY <1>1, KgSame, SavedTypes
<1>4. C \in SUBSET Members
  BY <1>1, KgSame DEF ShareCulprits
<1>5. xi'[p] = x /\ pub'[p] = y /\ bigX'[p] = z /\ ended'[p] = e
  BY <1>1, <1>2 DEF KgType
<1>6. /\ at'[p] = 3 /\ bad'[p] = (IF good THEN 0 ELSE 3)
      /\ done'[p] = IF good THEN done[p] \cup {3} ELSE done[p]
  <2>1. /\ at' = [at EXCEPT ![p] = at[p] + 1]
        /\ done' = [done EXCEPT ![p] = IF good THEN done[p] \cup {at[p] + 1} ELSE done[p]]
        /\ bad' = [bad EXCEPT ![p] = IF good THEN 0 ELSE at[p] + 1]
    BY <1>1, KgStart
  <2>2. at[p] + 1 = 3
    OBVIOUS
  <2> QED BY <1>1, <2>1, <2>2 DEF KgType
<1>7. 3 \notin done[p] /\ 4 \notin done[p]
  BY <1>1 DEF KgLock
<1>8. p \in Honest => (good <=> ShareCulprits(p) = {})
  BY DEF GoodResults, Honest
<1>9. ShareCulprits(p)' = ShareCulprits(p) /\ Vc' = Vc /\ SumShares(p)' = SumShares(p)
  BY Fixed
<1>10. 3 \in done'[p] => SavedKey(p)'
  BY <1>5, <1>6, <1>7, <1>9 DEF SavedKey
<1>11. PartyRounds(p)'
  <2>1. 1 \in done'[p] => CreateOk(T, Keys)
    BY <1>1, <1>6 DEF PartyRounds
  <2>2. (ended'[p] => (IF ecdsa THEN 4 ELSE 3) \in done'[p]) /\ at'[p] <= 3
    BY <1>5, <1>6
  <2>3. p \in Honest =>
          /\ 3 \in done'[p] => ShareCulprits(p) = {}
          /\ ~(ecdsa /\ ended'[p])
          /\ bad'[p] # 4
          /\ bad'[p] = 3 => ShareCulprits(p) # {}
    BY <1>5, <1>6, <1>7, <1>8
  <2> QED BY <1>9, <1>10, <2>1, <2>2, <2>3 DEF PartyRounds
<1>12. BlameOf(p, C, bad'[p])
  <2>1. CASE good
    BY <1>1, <2>1, KgKept
  <2>2. CASE ~good
    BY <1>1, <2>2, HonestShares DEF BlameOf
  <2> QED BY <2>1, <2>2
<1> HIDE DEF x, y, z, C
<1> QED BY <1>1, <1>2, <1>3, <1>4, <1>11, <1>12, KgStep

\* Round 4 of ECDSA.
LEMMA KgPaillier ==
    ASSUME KgInv, NEW p \in Members, EcdsaRound4(p)
    PROVE  KgInv'
<1>1. PICK good \in GoodResults(p, Round4Culprits(p)) :
          /\ StartRound(p, good)
          /\ culprits' = [culprits EXCEPT ![p] = IF good THEN @ ELSE Round4Culprits(p)]
          /\ ended' = [ended EXCEPT ![p] = good]
  BY DEF EcdsaRound4
<1> DEFINE C == IF good THEN culprits[p] ELSE Round4Culprits(p)
<1>2. /\ ecdsa /\ at[p] = 3 /\ UNCHANGED <<ecdsa, poly, fault, xi, pub, bigX>>
      /\ culprits' = [culprits EXCEPT ![p] = C]
  BY <1>1 DEF EcdsaRound4
<1>3. KgType /\ KgFaults /\ KgLock /\ KgRounds /\ BlameIsJust /\ good \in BOOLEAN
  BY <1>1 DEF KgInv, GoodResults
<1>4. /\ at'[p] = 4 /\ bad'[p] = (IF good THEN 0 ELSE 4) /\ ended'[p] = good
      /\ done'[p] = IF good THEN done[p] \cup {4} ELSE done[p]
  <2>1. /\ at' = [at EXCEPT ![p] = at[p] + 1]
        /\ done' = [done EXCEPT ![p] = IF good THEN done[p] \cup {at[p] + 1} ELSE done[p]]
        /\ bad' = [bad EXCEPT ![p] = IF good THEN 0 ELSE at[p] + 1]
    BY <1>1, <1>3, KgStart
  <2>2. at[p] + 1 = 4
    BY <1>2
  <2> QED BY <1>1, <1>3, <2>1, <2>2 DEF KgType
<1>5. \A q \in Members : 3 \in done[q] /\ pub[q] = Vc[0]
  <2>1. \A q \in Members : at[p] \in done[q]
    <3>1. at[p] > 0 => \A q \in Members : at[p] \in done[q]
      BY <1>1, <1>3, KgStart
    <3> QED BY <1>2, <3>1
  <2> QED BY <1>2, <1>3, <2>1 DEF KgRounds, PartyRounds, SavedKey
<1>6. Round4Culprits(p) = {j \in Members \ {p} : fault[j][1] = "paillier"}
  BY <1>5 DEF Round4Culprits
<1>7. p \in Honest => (good <=> Round4Culprits(p) = {})
  BY <1>1 DEF GoodResults, Honest
<1>8. SavedKey(p)'
  BY <1>2, <1>3, <1>5, KgSavedKept DEF KgRounds, PartyRounds
<1>9. PartyRounds(p)'
  <2>1. PartyRounds(p) /\ ShareCulprits(p)' = ShareCulprits(p)
    BY <1>2, <1>3, Fixed DEF KgRounds
  <2>2. p \in Honest =>
          /\ ShareCulprits(p) = {}
          /\ ended'[p] => \A j \in Members \ {p} : fault[j][1] # "paillier"
          /\ bad'[p] = 4 => \E j \in Members : fault[j][1] = "paillier"
    BY <1>4, <1>5, <1>6, <1>7, <2>1 DEF PartyRounds
  <2>3. (1 \in done'[p] => CreateOk(T, Keys)) /\ (ended'[p] => 4 \in done'[p])
    BY <1>4, <2>1 DEF PartyRounds
  <2> QED BY <1>2, <1>8, <2>1, <2>2, <2>3 DEF PartyRounds
<1>10. BlameOf(p, C, bad'[p])
  <2>1. CASE good
    BY <1>1, <1>3, <2>1, KgKept
  <2>2. CASE ~good
    BY <1>3, <1>6, <2>2, HonestFaults DEF BlameOf
  <2> QED BY <2>1, <2>2
<1>11. C \in SUBSET Members
  BY <1>3, KgSame DEF Round4Culprits
<1> HIDE DEF C
<1>12. /\ xi' = [xi EXCEPT ![p] = xi[p]] /\ xi[p] \in Zq \cup {Unset}
       /\ pub' = [pub EXCEPT ![p] = pub[p]] /\ pub[p] \in Zq \cup {Unset}
       /\ bigX' = [bigX EXCEPT ![p] = bigX[p]] /\ bigX[p] \in [Members -> Zq \cup {Unset}]
  BY <1>2, <1>3, KgSame
<1> QED BY <1>1, <1>2, <1>3, <1>9, <1>10, <1>11, <1>12, KgStep

LEMMA KgNext == KgInv /\ [Next]_vars => KgInv'
<1> SUFFICES ASSUME KgInv, [Next]_vars PROVE KgInv'
  OBVIOUS
<1>1. CASE UNCHANGED vars
  <2>1. UNCHANGED <<at, done, bad, ecdsa, poly, fault, xi, pub, bigX, culprits, ended>>
    BY <1>1 DEF vars, lsVars, kgVars
  <2>2. KgType' /\ KgFaults' /\ KgLock' /\ BlameIsJust'
    BY <2>1 DEF KgInv, KgType, KgFaults, KgLock, BlameIsJust
  <2>3. KgRounds'
    BY <2>1, Fixed DEF KgInv, KgRounds, PartyRounds, SavedKey
  <2> QED BY <2>2, <2>3 DEF KgInv
<1>2. ASSUME NEW p \in Members, NEW good \in BOOLEAN, StartRound(p, good), at[p] \in {0, 1},
             (good /\ at[p] = 0) => CreateOk(T, Keys),
             ecdsa' = ecdsa, poly' = poly, fault' = fault,
             xi' = xi, pub' = pub, bigX' = bigX, ended' = ended,
             NEW C \in SUBSET Members, culprits' = [culprits EXCEPT ![p] = C],
             BlameOf(p, C, bad'[p])
      PROVE  KgInv'
  <2>1. PartyRounds(p)'
    BY <1>2, KgEarly
  <2>2. /\ xi' = [xi EXCEPT ![p] = xi[p]] /\ xi[p] \in Zq \cup {Unset}
        /\ pub' = [pub EXCEPT ![p] = pub[p]] /\ pub[p] \in Zq \cup {Unset}
        /\ bigX' = [bigX EXCEPT ![p] = bigX[p]] /\ bigX[p] \in [Members -> Zq \cup {Unset}]
        /\ ended' = [ended EXCEPT ![p] = ended[p]] /\ ended[p] \in BOOLEAN
    BY <1>2, KgSame DEF KgInv
  <2> QED BY <1>2, <2>1, <2>2, KgStep
<1>3. ASSUME NEW p \in Members
      PROVE  /\ culprits = [culprits EXCEPT ![p] = culprits[p]] /\ culprits[p] \in SUBSET Members
             /\ \A good \in BOOLEAN : StartRound(p, good) => BlameOf(p, culprits[p], bad'[p])
  <2>1. \A good \in BOOLEAN : StartRound(p, good) => BlameOf(p, culprits[p], bad'[p])
    BY KgKept DEF KgInv
  <2> QED BY <2>1, KgSame DEF KgInv
\* A party that fails its first round names itself, or nobody.
<1>3a. ASSUME NEW p \in Members, at[p] = 0, StartRound(p, FALSE), NEW C \in {{p}, {}}
       PROVE  C \in SUBSET Members /\ BlameOf(p, C, bad'[p])
  <2>1. bad'[p] = 1
    <3>1. bad' = [bad EXCEPT ![p] = at[p] + 1] /\ bad \in [Members -> 0 .. 4]
      BY <1>3a, KgStart DEF KgInv, KgType
    <3> QED BY <1>3a, <3>1
  <2> QED BY <1>3a, <2>1 DEF BlameOf
<1>4. ASSUME NEW p \in Members, EcdsaRound1(p) PROVE KgInv'
  <2>1. /\ at[p] \in {0, 1} /\ at[p] = 0
        /\ ecdsa' = ecdsa /\ poly' = poly /\ fault' = fault
        /\ xi' = xi /\ pub' = pub /\ bigX' = bigX /\ ended' = ended
    BY <1>4 DEF EcdsaRound1
  <2>2. CASE CreateOk(T, Keys) /\ StartRound(p, TRUE) /\ UNCHANGED culprits
    BY <1>2, <1>3, <2>1, <2>2
  <2>3. ASSUME StartRound(p, FALSE),
               \E C \in {{p}} \cup (IF CreateOk(T, Keys) THEN {{}} ELSE {}) :
                   culprits' = [culprits EXCEPT ![p] = C]
        PROVE  KgInv'
    <3>1. PICK C \in {{p}, {}} : culprits' = [culprits EXCEPT ![p] = C]
      BY <2>3
    <3>2. C \in SUBSET Members /\ BlameOf(p, C, bad'[p])
      BY <1>3a, <2>1, <2>3
    <3> QED BY <1>2, <2>1, <2>3, <3>1, <3>2
  <2> QED BY <1>4, <2>2, <2>3 DEF EcdsaRound1
<1>5. ASSUME NEW p \in Members, EcdsaRound2(p) PROVE KgInv'
  <2>1. PICK good \in GoodResults(p, Round2Culprit) :
            /\ StartRound(p, good)
            /\ culprits' = [culprits EXCEPT ![p] = IF good THEN @ ELSE Round2Culprit]
    BY <1>5 DEF EcdsaRound2
  <2> DEFINE C == IF good THEN culprits[p] ELSE Round2Culprit
  <2>2. good \in BOOLEAN /\ culprits' = [culprits EXCEPT ![p] = C]
    BY <2>1 DEF GoodResults
  <2>3. C \in SUBSET Members
    BY <1>3, Round2Blame DEF KgInv
  <2>4. BlameOf(p, C, bad'[p])
    <3>1. CASE good
      BY <1>3, <2>1, <2>2, <3>1
    <3>2. CASE ~good
      BY <3>2, Round2Blame DEF KgInv, BlameOf
    <3> QED BY <3>1, <3>2
  <2> HIDE DEF C
  <2>5. /\ at[p] \in {0, 1} /\ at[p] # 0
        /\ ecdsa' = ecdsa /\ poly' = poly /\ fault' = fault
        /\ xi' = xi /\ pub' = pub /\ bigX' = bigX /\ ended' = ended
    BY <1>5 DEF EcdsaRound2
  <2> QED BY <1>2, <2>1, <2>2, <2>3, <2>4, <2>5
<1>6. ASSUME NEW p \in Members, EcdsaRound3(p) PROVE KgInv'
  <2>1. PICK good \in GoodResults(p, ShareCulprits(p)) : StartRound(p, good) /\ SaveKey(p, good)
    BY <1>6 DEF EcdsaRound3
  <2>2. at[p] = 2 /\ ecdsa' = ecdsa /\ poly' = poly /\ fault' = fault /\ ended' = ended
    BY <1>6 DEF EcdsaRound3
  <2>3. ended' = [ended EXCEPT ![p] = FALSE]
    <3>1. ~ended[p] /\ ended = [ended EXCEPT ![p] = ended[p]]
      BY <2>2, KgSame DEF KgInv, KgLock, KgRounds, PartyRounds
    <3>2. ended[p] = FALSE
      BY <3>1 DEF KgInv, KgType
    <3> QED BY <2>2, <3>1, <3>2
  <2> QED BY <2>1, <2>2, <2>3, KgShares
<1>7. ASSUME NEW p \in Members, EcdsaRound4(p) PROVE KgInv'
  BY <1>7, KgPaillier
<1>8. ASSUME NEW p \in Members, EddsaRound1(p) PROVE KgInv'
  <2>1. /\ at[p] \in {0, 1} /\ at[p] = 0
        /\ ecdsa' = ecdsa /\ poly' = poly /\ fault' = fault
        /\ xi' = xi /\ pub' = pub /\ bigX' = bigX /\ ended' = ended
    BY <1>8 DEF EddsaRound1
  <2>2. /\ CreateOk(T, Keys) \in BOOLEAN /\ StartRound(p, CreateOk(T, Keys))
        /\ culprits' = [culprits EXCEPT ![p] = IF CreateOk(T, Keys) THEN culprits[p] ELSE {p}]
    BY <1>8 DEF EddsaRound1, CreateOk
  <2>3. CASE CreateOk(T, Keys)
    <3>1. StartRound(p, TRUE) /\ culprits' = [culprits EXCEPT ![p] = culprits[p]]
      BY <2>2, <2>3
    <3>2. culprits[p] \in SUBSET Members /\ BlameOf(p, culprits[p], bad'[p])
      BY <1>3, <3>1
    <3> QED BY <1>2, <2>1, <2>3, <3>1, <3>2
  <2>4. CASE ~CreateOk(T, Keys)
    <3>1. StartRound(p, FALSE) /\ culprits' = [culprits EXCEPT ![p] = {p}]
      BY <2>2, <2>4
    <3>2. {p} \in SUBSET Members /\ BlameOf(p, {p}, bad'[p])
      BY <1>3a, <2>1, <3>1
    <3> QED BY <1>2, <2>1, <3>1, <3>2
  <2> QED BY <2>3, <2>4
<1>9. ASSUME NEW p \in Members, EddsaRound2(p) PROVE KgInv'
  <2>1. StartRound(p, TRUE)
    BY <1>9, Zenon DEF EddsaRound2
  <2>2. /\ at[p] \in {0, 1} /\ at[p] # 0
        /\ ecdsa' = ecdsa /\ poly' = poly /\ fault' = fault /\ culprits' = culprits
        /\ xi' = xi /\ pub' = pub /\ bigX' = bigX /\ ended' = ended
    BY <1>9 DEF EddsaRound2, kgVars
  <2> QED BY <1>2, <1>3, <2>1, <2>2
<1>10. ASSUME NEW p \in Members, EddsaRound3(p) PROVE KgInv'
  <2>1. PICK good \in GoodResults(p, ShareCulprits(p)) :
            /\ StartRound(p, good)
            /\ SaveKey(p, good)
            /\ ended' = [ended EXCEPT ![p] = good]
    BY <1>10 DEF EddsaRound3
  <2>2. ~ecdsa /\ at[p] = 2 /\ ecdsa' = ecdsa /\ poly' = poly /\ fault' = fault
    BY <1>10 DEF EddsaRound3
  <2>3. good \in BOOLEAN
    BY <2>1 DEF GoodResults
  <2> QED BY <2>1, <2>2, <2>3, KgShares
<1> QED BY <1>1, <1>4, <1>5, <1>6, <1>7, <1>8, <1>9, <1>10 DEF Next

-----------------------------------------------------------------------------
(* The theorems.                                                           *)

\* The inductive invariant holds.
THEOREM KeygenInvariant == Spec => []KgInv
<1>1. Init => KgInv
  BY KgInit
<1>2. KgInv /\ [Next]_vars => KgInv'
  BY KgNext
<1> QED BY <1>1, <1>2, PTL DEF Spec

\* What a party that delivered its save data has been through.
LEMMA EndedMeans ==
    ASSUME KgInv, NEW p \in Honest, ended[p]
    PROVE  /\ 3 \in done[p] /\ SavedKey(p) /\ ShareCulprits(p) = {}
           /\ \A q \in Members : 1 \in done[q] /\ 2 \in done[q] /\ (ecdsa => 3 \in done[q])
<1>1. p \in Members /\ KgLock /\ PartyRounds(p) /\ KgType
  BY DEF KgInv, KgRounds, Honest
<1>2. CASE ecdsa
  <2>1. 4 \in done[p]
    BY <1>1, <1>2 DEF PartyRounds
  <2>2. at[p] = 4
    BY <1>1, <2>1 DEF KgLock, KgType
  <2>3. \A q \in Members : 1 \in done[q] /\ 2 \in done[q] /\ 3 \in done[q]
    BY <1>1, <2>2 DEF KgLock
  <2> QED BY <1>1, <2>3 DEF PartyRounds
<1>3. CASE ~ecdsa
  <2>1. 3 \in done[p]
    BY <1>1, <1>3 DEF PartyRounds
  <2>2. at[p] = 3
    BY <1>1, <1>3, <2>1 DEF KgLock, KgType, PartyRounds
  <2>3. \A q \in Members : 1 \in done[q] /\ 2 \in done[q]
    BY <1>1, <2>2 DEF KgLock
  <2> QED BY <1>1, <1>3, <2>1, <2>3 DEF PartyRounds
<1> QED BY <1>2, <1>3

\* The share of an honest party that delivered its save data is the value of the
\* key polynomial at its id.
LEMMA EndedShare ==
    ASSUME KgInv, NEW p \in Honest, ended[p]
    PROVE  xi[p] = evaluatePolynomial(T, Vc, Key(p)) /\ pub[p] = Vc[0]
<1>1. p \in Members /\ KgType /\ KgFaults
  BY DEF KgInv, Honest
<1>2. xi[p] = SumShares(p) /\ pub[p] = Vc[0] /\ ShareCulprits(p) = {}
  BY EndedMeans DEF SavedKey
<1>3. \A j \in Members : fault[j] # <<"share", p>>
  <2>1. \A j \in Members \ {p} : fault[j] # <<"share", p>>
    BY <1>1, <1>2, ShareCulpritsAre
  <2> QED BY <1>1, <2>1, HonestFaults
<1> QED BY <1>1, <1>2, <1>3, SharesAddUp

\* All honest parties that deliver a key deliver the same one, and the share of
\* each is the one everybody else has on record for it.
THEOREM KeygenOneKey == Spec => []OneKey
<1>1. KgInv => OneKey
  <2> SUFFICES ASSUME KgInv, NEW p \in Honest, NEW q \in Honest, ended[p], ended[q]
               PROVE  pub[p] = pub[q] /\ bigX[p] = bigX[q] /\ bigX[p][q] = xi[q]
    BY DEF OneKey
  <2>1. SavedKey(p) /\ SavedKey(q)
    BY EndedMeans
  <2>2. xi[q] = evaluatePolynomial(T, Vc, Key(q)) /\ q \in Members
    BY EndedShare DEF Honest
  <2> QED BY <2>1, <2>2 DEF SavedKey
<1> QED BY <1>1, KeygenInvariant, PTL

\* If one honest ECDSA party delivers a key, no honest party failed; in EdDSA one
\* that failed was sent a share that was wrong for it alone.
THEOREM KeygenAllOrNone == Spec => []AllOrNone
<1>1. KgInv => AllOrNone
  <2> SUFFICES ASSUME KgInv, NEW p \in Honest, NEW q \in Honest, ended[p], bad[q] # 0
               PROVE  ~ecdsa /\ \E j \in Faulty : fault[j] = <<"share", q>>
    BY DEF AllOrNone
  <2>1. /\ p \in Members /\ q \in Members /\ KgType /\ KgFaults /\ KgLock
        /\ PartyRounds(p) /\ PartyRounds(q)
    BY DEF KgInv, KgRounds, Honest
  <2>2. /\ ShareCulprits(p) = {}
        /\ 1 \in done[q] /\ 2 \in done[q] /\ (ecdsa => 3 \in done[q])
    BY <2>1, EndedMeans
  <2>3. bad[q] = at[q] /\ at[q] \notin done[q]
    BY <2>1 DEF KgLock
  <2>4. ~ecdsa
    <3> SUFFICES ASSUME ecdsa PROVE FALSE
      BY <2>1 DEF KgType
    <3>1. bad[q] = 4
      BY <2>1, <2>2, <2>3 DEF KgType
    <3>2. PICK j \in Members : fault[j][1] = "paillier"
      BY <2>1, <3>1 DEF PartyRounds
    <3>3. j # p
      BY <3>2, <2>1, HonestFaults
    <3> QED BY <2>1, <3>2, <3>3 DEF PartyRounds
  <2>5. bad[q] = 3
    BY <2>1, <2>2, <2>3, <2>4 DEF KgType, PartyRounds
  <2>6. PICK j \in ShareCulprits(q) : TRUE
    BY <2>1, <2>4, <2>5 DEF PartyRounds
  <2>7. j \in Members /\ (fault[j][1] \in {"decommit", "schnorr"} \/ fault[j] = <<"share", q>>)
    BY <2>1, <2>6, ShareCulpritsAre
  <2>8. j \notin Honest
    BY <2>1, <2>6, HonestShares
  <2>9. fault[j][1] \notin {"decommit", "schnorr"}
    <3>1. j # p
      BY <2>8
    <3> QED BY <2>1, <2>2, <2>7, <3>1, ShareCulpritsAre
  <2> QED BY <2>4, <2>7, <2>8, <2>9 DEF Honest
<1> QED BY <1>1, KeygenInvariant, PTL

\* An honest party is blamed only by itself, when it could not complete round 1,
\* and when a faulty party with a lower index published a copy of its h1, h2.
THEOREM KeygenBlameIsJust == Spec => []BlameIsJust
<1>1. KgInv => BlameIsJust
  BY DEF KgInv
<1> QED BY <1>1, KeygenInvariant, PTL

\* Any T+1 honest parties that delivered a key can recover the secret behind its
\* public key: their shares lie on the key polynomial, whatever the faulty
\* parties dealt.
THEOREM KeygenKeyRecoverable == Spec => []KeyRecoverable
<1>1. KgInv => KeyRecoverable
  <2> SUFFICES ASSUME KgInv, NEW S \in SUBSET Honest, Cardinality(S) = T + 1, \A p \in S : ended[p]
               PROVE  SumQ([p \in S |-> SigningWeight(p, S, Keys, xi[p])])
                         = pub[CHOOSE p \in S : TRUE]
    BY DEF KeyRecoverable
  <2>1. T \in Nat /\ S \subseteq Members /\ IsFiniteSet(S) /\ T < Cardinality(S) /\ KgType
    <3>1. T \in Nat
      BY KeygenAssumption
    <3>2. S \subseteq Members
      BY DEF Honest
    <3>3. IsFiniteSet(S)
      BY <3>2, MembersFinite, FS_Subset
    <3>4. T < Cardinality(S)
      BY <3>1
    <3> QED BY <3>1, <3>2, <3>3, <3>4 DEF KgInv
  <2>2. PICK q \in S : TRUE
    BY <2>1, FS_EmptySet
  <2>3. CheckIndexes(Keys)
    <3>1. 1 \in done[q] /\ PartyRounds(q)
      BY <2>1, EndedMeans DEF KgInv, KgRounds
    <3> QED BY <3>1 DEF PartyRounds, CreateOk
  <2>4. Distinct(Keys, S)
    <3>1. \A i \in S : Keys[i] = Key(i) /\ Key(i) \in Int
      BY <2>1, MembersFinite DEF Keys, Key
    <3>2. \A i, j \in S : i # j => Keys[i] % Q # Keys[j] % Q
      BY <2>1, <2>3 DEF CheckIndexes, Keys
    <3> QED BY <3>1, <3>2 DEF Distinct, IntOn
  <2>5. \A p \in S : xi[p] = evaluatePolynomial(T, Vc, Keys[p]) /\ pub[p] = Vc[0]
    BY <2>1, EndedShare DEF Keys
  <2>6. IntOn(Vc, 0 .. T) /\ Vc[0] \in Zq
    BY <2>1, VcType
  <2>7. SumQ([p \in S |-> SigningWeight(p, S, Keys, xi[p])]) = Vc[0] % Q
    BY <2>1, <2>4, <2>5, <2>6, WeightsRecover
  <2>8. (CHOOSE p \in S : TRUE) \in S
    BY <2>2
  <2>9. pub[CHOOSE p \in S : TRUE] = Vc[0]
    BY <2>5, <2>8
  <2> QED BY <2>6, <2>7, <2>9, ModSmall
<1> QED BY <1>1, KeygenInvariant, PTL
=============================================================================
