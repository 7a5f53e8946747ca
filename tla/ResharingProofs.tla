--------------------------- MODULE ResharingProofs ---------------------------
(***************************************************************************)
(* Proofs about Resharing, for every pair of committees, thresholds, group *)
(* order, set of faulty parties and choice of polynomials.                 *)
(***************************************************************************)
EXTENDS Resharing, FeldmanVssProofs

\* The old member in slot 0, whose public key everybody takes.
FirstOld == CHOOSE j \in First(Old) : TRUE

\* The points that this member announces.
AnnouncedKeys == {Announced(t, FirstOld) : t \in {"r1", "r1again"}} \ {OffCurve}

\* The values every variable takes.
RsType ==
    /\ protocol \in Protocols
    /\ rnd \in [Party -> 0 .. 5]
    /\ oldOK \in [Party -> SUBSET Old]
    /\ newOK \in [Party -> SUBSET New]
    /\ store \in [Party -> SUBSET Message]
    /\ calls \in [Party -> SUBSET Message]
    /\ pub \in [Party -> {Unset} \cup AnnouncedKeys]
    /\ newXi \in [Party -> Int]
    /\ status \in [Party -> {"idle", "up", "failed", "panicked", "ended"}]
    /\ culprits \in [Party -> SUBSET Party]

RsFaults == Party \ Faulty \subseteq Honest

\* New member q verified all its shares, and they are of an announced key.
Acked(q) ==
    /\ newXi[q] = SumFunction([j \in Old |-> ShareFor(j, q)])
    /\ ShareCulprit(q) = {}
    /\ Vc[0] \in AnnouncedKeys

NoBadInput == \A j \in Old : fault[j][1] # "input"

\* What a message on its way or in a slot says about its sender.
Genuine(m) ==
    /\ m[1] \in {"r1", "r1again"} => fault[m[2]][1] # "input"
    /\ m[1] = "r2key" => pub[m[2]] # Unset
    /\ (m[1] = "r2ack" /\ m[2] \notin Old) => NoBadInput
    /\ m[1] = "r4" => Acked(m[2])

RsSent == \A p \in Party : \A m \in store[p] \cup calls[p] : Genuine(m)

\* A new member without a public key has refused the one in slot 0.
Keyed(p, pk) == pk # Unset \/ (culprits[p] # {} /\ SlotFault("offcurve"))

\* What the trackers of p say about its slots in each round, and what follows.
Tracked(p) ==
    /\ rnd[p] = 1 => newOK[p] = New
    /\ (p \in New \ Old /\ rnd[p] = 1) =>
          oldOK[p] \subseteq From({"r1"}, Old, store[p]) /\ (oldOK[p] = Old => Keyed(p, pub[p]))
    /\ (p \in New \ Old /\ rnd[p] >= 2) =>
          Old \subseteq From({"r1"}, Old, store[p]) /\ Keyed(p, pub[p])
    /\ (p \in New /\ Ecdsa /\ rnd[p] = 2) => newOK[p] \subseteq From({"r2key"}, New, store[p])
    /\ (p \in New /\ Ecdsa /\ rnd[p] >= 3) => New \subseteq From({"r2key"}, New, store[p])
    /\ (p \in Old /\ rnd[p] = 2) => newOK[p] \subseteq From({"r2ack"}, New, store[p])
    /\ (p \in New \ Old /\ rnd[p] = 3) =>
          oldOK[p] \subseteq From({"r3share", "r3decommit"}, Old, store[p])
    /\ rnd[p] = 4 => newOK[p] \subseteq From({"r4"}, New, store[p])
    /\ (p \in Honest \cap New /\ Ecdsa /\ rnd[p] >= 2 /\ pub[p] = Unset) =>
          status[p] = "panicked"

\* Why honest p may name honest q.
Excused(p, q) ==
    \/ SlotFault("twoKeys")
    \/ SlotFault("offcurve") /\ q \in Old \cup {p}
    \/ q = p /\ \E j \in Old : fault[j][1] = "otherKey"
    \/ \E i \in New : i < q /\ Params(i) = q

\* What is true of p at each status, and when it blames somebody.
Reported(p) ==
    /\ status[p] = "ended" => \A q \in New : Acked(q)
    /\ (Old \cap New = {} /\ status[p] = "panicked") =>
          Ecdsa /\ p \in New /\ culprits[p] # {} /\ SlotFault("offcurve")
    /\ p \in Honest => \A q \in culprits[p] \cap Honest : Excused(p, q)

\* The inductive invariant.
RsInv ==
    /\ RsType /\ RsFaults /\ RsSent
    /\ \A p \in Party : Tracked(p) /\ Reported(p)

-----------------------------------------------------------------------------
(* The operators.                                                          *)

LEMMA PartyFacts ==
    /\ IsFiniteSet(Party) /\ Party \subseteq 0 .. Q - 2
    /\ IsFiniteSet(Old) /\ Old \subseteq Party /\ IsFiniteSet(New) /\ New \subseteq Party
    /\ OldT \in Nat /\ OldT < Cardinality(Old) /\ NewT \in Nat /\ NewT < Cardinality(New)
    /\ Old # {} /\ New # {}
    /\ Cardinality(Old) \in Nat /\ Cardinality(Old) <= Q - 1
    /\ Zq \subseteq Int /\ Q \in Nat /\ Q > 1
<1>1. Q \in Nat /\ Q > 1 /\ Zq \subseteq Int
  BY QAssumption DEF Zq
<1>2. Party \subseteq 0 .. Q - 2 /\ Old \subseteq Party /\ New \subseteq Party
  BY ResharingAssumption DEF Party
<1>3. IsFiniteSet(0 .. Q - 2) /\ Cardinality(0 .. Q - 2) = Q - 1
  BY <1>1, FS_Interval
<1>4. IsFiniteSet(Party) /\ IsFiniteSet(Old) /\ IsFiniteSet(New)
      /\ Cardinality(Old) <= Cardinality(0 .. Q - 2)
  <2>1. Old \subseteq 0 .. Q - 2
    BY <1>2
  <2>2. IsFiniteSet(Party)
    BY <1>2, <1>3, FS_Subset
  <2>3. IsFiniteSet(Old) /\ Cardinality(Old) <= Cardinality(0 .. Q - 2)
    BY <2>1, <1>3, FS_Subset
  <2>4. IsFiniteSet(New)
    BY <1>2, <2>2, FS_Subset
  <2> QED BY <2>2, <2>3, <2>4
<1>5. Cardinality(Old) \in Nat /\ Cardinality(New) \in Nat
  BY <1>4, FS_CardinalityType
<1>6. OldT \in Nat /\ OldT < Cardinality(Old) /\ NewT \in Nat /\ NewT < Cardinality(New)
  BY <1>5, ResharingAssumption
<1>7. Old # {} /\ New # {}
  BY <1>6, FS_EmptySet
<1> QED BY <1>1, <1>2, <1>3, <1>4, <1>5, <1>6, <1>7

\* First returns a part of its argument.
LEMMA FirstIn == ASSUME NEW S \in SUBSET Nat PROVE First(S) \subseteq S /\ (S # {} => First(S) # {})
<1>1. CASE S = {}
  BY <1>1 DEF First
<1>2. CASE S # {}
  <2>1. \E j \in S : \A i \in S : j <= i
    BY <1>2, Least
  <2>2. (CHOOSE j \in S : \A i \in S : j <= i) \in S
    BY <2>1, Zenon
  <2> QED BY <1>2, <2>2 DEF First
<1> QED BY <1>1, <1>2

LEMMA FirstOldIn == FirstOld \in Old /\ FirstOld \in First(Old)
<1>1. Old \in SUBSET Nat /\ Old # {}
  BY PartyFacts
<1>2. First(Old) \subseteq Old /\ First(Old) # {}
  BY <1>1, FirstIn
<1>3. FirstOld \in First(Old)
  BY <1>2 DEF FirstOld
<1> QED BY <1>2, <1>3

\* The share ids are distinct mod Q.
LEMMA KeysDistinct ==
    ASSUME NEW S \in SUBSET Party
    PROVE  Distinct(Keys, S) /\ \A p \in S : Keys[p] \in Int
<1>1. \A p \in S : Keys[p] = p + 1 /\ p \in 0 .. Q - 2
  BY PartyFacts DEF Keys
<1>2. \A p \in S : Keys[p] \in Zq
  BY <1>1, PartyFacts DEF Zq
<1>3. \A p \in S : Keys[p] \in Int /\ Keys[p] % Q = Keys[p]
  BY <1>2, ModSmall, PartyFacts
<1>4. \A p, q \in S : p # q => Keys[p] # Keys[q]
  BY <1>1
<1> QED BY <1>3, <1>4 DEF Distinct, IntOn

\* The polynomial an old member holds a share of.
LEMMA InputPolyType ==
    ASSUME NEW p \in Old
    PROVE  /\ InputPoly(p) \in [0 .. OldT -> Zq]
           /\ IntOn(InputPoly(p), 0 .. OldT) /\ InputPoly(p)[0] \in Zq
           /\ evaluatePolynomial(OldT, InputPoly(p), Keys[p]) \in Int
<1>1. InputPoly(p) \in [0 .. OldT -> Zq]
  BY ResharingAssumption DEF InputPoly
<1>2. IntOn(InputPoly(p), 0 .. OldT)
  BY <1>1, PartyFacts DEF IntOn
<1>3. InputPoly(p)[0] \in Zq
  <2>1. 0 \in 0 .. OldT
    BY PartyFacts
  <2> QED BY <1>1, <2>1
<1>4. Keys[p] \in Int
  BY KeysDistinct, PartyFacts
<1> QED BY <1>1, <1>2, <1>3, <1>4, PartyFacts, EvalType

\* What the member in slot 0 announces.
LEMMA AnnouncedIs ==
    /\ First(Old) = {FirstOld} /\ \A k : SlotFault(k) <=> fault[FirstOld][1] = k
    /\ AnnouncedKeys \subseteq Zq /\ Unset \notin Zq /\ Unset # OffCurve
    /\ \A k \in AnnouncedKeys :
          k = InputPoly(FirstOld)[0] \/ (SlotFault("twoKeys") /\ k = OtherPoly[0])
<1>1. First(Old) = {FirstOld}
  <2>1. \E j : First(Old) = {j}
    BY PartyFacts DEF First
  <2> QED BY <2>1, FirstOldIn
<1>2. \A k : SlotFault(k) <=> fault[FirstOld][1] = k
  BY <1>1 DEF SlotFault
<1>3. Unset \notin Zq /\ OffCurve \notin Zq /\ Unset # OffCurve
  <2>1. Q * Q > Q
    BY QAssumption
  <2> QED BY <2>1, QAssumption DEF Unset, OffCurve, Zq
<1>4. OtherPoly[0] \in Zq /\ InputPoly(FirstOld)[0] \in Zq
  <2>1. 0 \in 0 .. OldT
    BY PartyFacts
  <2> QED BY <2>1, InputPolyType, FirstOldIn, ResharingAssumption
<1>5. ASSUME NEW k \in AnnouncedKeys
      PROVE  k = InputPoly(FirstOld)[0] \/ (SlotFault("twoKeys") /\ k = OtherPoly[0])
  <2>1. PICK t \in {"r1", "r1again"} : k = Announced(t, FirstOld)
    BY DEF AnnouncedKeys
  <2>2. k # OffCurve
    BY DEF AnnouncedKeys
  <2> QED BY <1>2, <2>1, <2>2 DEF Announced
<1> QED BY <1>1, <1>2, <1>3, <1>4, <1>5

\* What is in slot 0.
LEMMA SlotIs ==
    ASSUME NEW S
    PROVE  /\ SlotKey(S) \subseteq AnnouncedKeys \cup {OffCurve}
           /\ OffCurve \in SlotKey(S) => SlotFault("offcurve")
           /\ <<"r1", FirstOld>> \in S => SlotKey(S) # {}
<1> DEFINE t == IF <<"r1again", FirstOld>> \in S THEN "r1again" ELSE "r1"
           k == Announced(t, FirstOld)
<1>1. SlotKey(S) = IF <<"r1", FirstOld>> \in S THEN {k} ELSE {}
  BY AnnouncedIs DEF SlotKey
<1>2. k = OffCurve => SlotFault("offcurve")
  <2>1. OtherPoly[0] \in Zq /\ InputPoly(FirstOld)[0] \in Zq /\ OffCurve \notin Zq
    <3>1. 0 \in 0 .. OldT
      BY PartyFacts
    <3>2. OffCurve \notin Zq
      BY QAssumption DEF OffCurve, Zq
    <3> QED BY <3>1, <3>2, InputPolyType, FirstOldIn, ResharingAssumption
  <2> QED BY <2>1, AnnouncedIs DEF Announced
<1>3. k \in AnnouncedKeys \cup {OffCurve}
  BY DEF AnnouncedKeys
<1> HIDE DEF k
<1> QED BY <1>1, <1>2, <1>3

\* The polynomial it shares its weight with.
LEMMA VssPolyType ==
    ASSUME NEW p \in Old
    PROVE  /\ \A c \in 0 .. NewT : VssPoly(p)[c] \in Zq
           /\ IntOn(VssPoly(p), 0 .. NewT)
           /\ VssPoly(p)[0] = SigningWeight(p, Old, Keys,
                                  evaluatePolynomial(OldT, InputPoly(p), Keys[p]))
<1> DEFINE x == evaluatePolynomial(OldT, InputPoly(p), Keys[p])
           w == SigningWeight(p, Old, Keys, x)
<1>1. x \in Int
  BY InputPolyType
<1>2. Lambda(p, Old, Keys) \in Int
  <2>1. Distinct(Keys, Old)
    BY KeysDistinct, PartyFacts
  <2> QED BY <2>1, LambdaIs, PartyFacts
<1>3. VssPoly(p) = [c \in 0 .. NewT |-> IF c = 0 THEN w ELSE Coef[p][c]]
  BY DEF VssPoly
<1> HIDE DEF x
<1>4. w \in Zq
  <2> DEFINE l == Lambda(p, Old, Keys)
  <2>1. l \in Int
    BY <1>2
  <2> HIDE DEF l
  <2>2. x * l \in Int
    BY <1>1, <2>1
  <2>3. (x * l) % Q \in Zq
    BY <2>2, ModType
  <2> QED BY <2>3 DEF SigningWeight, l
<1> HIDE DEF w
<1>5. \A c \in 1 .. NewT : Coef[p][c] \in Zq
  BY ResharingAssumption
<1>6. \A c \in 0 .. NewT : VssPoly(p)[c] \in Zq
  BY <1>3, <1>4, <1>5, PartyFacts
<1>7. VssPoly(p)[0] = w
  BY <1>3, PartyFacts
<1> QED BY <1>6, <1>7, PartyFacts DEF IntOn, w, x

LEMMA SharesAre ==
    ASSUME NEW j \in Old, NEW q \in Party
    PROVE  /\ ShareFor(j, q) \in Zq
           /\ fault[j] # <<"share", q>> =>
                 ShareFor(j, q) = evaluatePolynomial(NewT, VssPoly(j), Keys[q])
<1> DEFINE s == evaluatePolynomial(NewT, VssPoly(j), Keys[q])
<1>1. IntOn(VssPoly(j), 0 .. NewT) /\ Keys[q] \in Int /\ NewT \in Nat
  BY VssPolyType, KeysDistinct, PartyFacts
<1>2. s \in Zq /\ s \in Int
  BY <1>1, EvalType
<1>3. ShareFor(j, q) = IF fault[j] = <<"share", q>> THEN (s + 1) % Q ELSE s
  BY DEF ShareFor
<1> HIDE DEF s
<1>4. (s + 1) % Q \in Zq
  BY <1>2, QAssumption DEF Zq
<1>5. ShareFor(j, q) \in Zq /\ (fault[j] # <<"share", q>> => ShareFor(j, q) = s)
  BY <1>2, <1>3, <1>4
<1> QED BY <1>5 DEF s

\* An old member that q does not reject sent it the share it committed to.
LEMMA ShareCulpritIs ==
    ASSUME NEW q \in Party
    PROVE  /\ ShareCulprit(q) \subseteq Old
           /\ ShareCulprit(q) \cap Honest = {}
           /\ ShareCulprit(q) = {} =>
                 \A j \in Old : ShareFor(j, q) = evaluatePolynomial(NewT, VssPoly(j), Keys[q])
<1> DEFINE ok(j) == Verify([threshold |-> NewT, id |-> Keys[q], share |-> ShareFor(j, q)],
                           NewT, VssPoly(j))
           bad == {j \in Old : fault[j][1] = "decommit" \/ ~ok(j)}
<1>1. \A j \in Old : ok(j) <=> ShareFor(j, q) = evaluatePolynomial(NewT, VssPoly(j), Keys[q])
  <2> TAKE j \in Old
  <2>1. IntOn(VssPoly(j), 0 .. NewT) /\ Keys[q] \in Int /\ NewT \in Nat /\ ShareFor(j, q) \in Zq
    BY VssPolyType, KeysDistinct, PartyFacts, SharesAre
  <2> QED BY <2>1, VerifyIff
<1>2. ShareCulprit(q) = First(bad)
  BY DEF ShareCulprit
<1> HIDE DEF ok
<1>3. bad \in SUBSET Nat /\ bad \subseteq Old
  <2>1. Old \subseteq Nat
    BY PartyFacts
  <2>2. bad \subseteq Old
    OBVIOUS
  <2> HIDE DEF bad
  <2> QED BY <2>1, <2>2
<1>4. First(bad) \subseteq bad /\ (bad # {} => First(bad) # {})
  BY <1>3, FirstIn
<1>5. ASSUME NEW j \in Honest, j \in bad PROVE FALSE
  <2>1. fault[j][1] = "none" /\ j \in Old
    BY <1>5 DEF Honest
  <2>2. fault[j][1] # "decommit" /\ fault[j] # <<"share", q>>
    BY <2>1
  <2>3. ok(j)
    BY <1>1, <2>1, <2>2, SharesAre
  <2> QED BY <1>5, <2>2, <2>3
<1>6. ShareCulprit(q) \cap Honest = {}
  <2> HIDE DEF bad
  <2> QED BY <1>2, <1>4, <1>5
<1>7. ShareCulprit(q) = {} => \A j \in Old : ok(j)
  BY <1>2, <1>4
<1> QED BY <1>1, <1>2, <1>3, <1>4, <1>6, <1>7

\* The commitments to the re-shared key.
LEMMA VcType == IntOn(Vc, 0 .. NewT) /\ Vc[0] \in Zq /\ Vc = PolySum(NewT, Old, [j \in Old |-> VssPoly(j)])
<1>1. ASSUME NEW c \in 0 .. NewT PROVE Vc[c] \in Zq
  <2> DEFINE f == [j \in Old |-> VssPoly(j)[c]]
  <2>1. \A j \in Old : VssPoly(j)[c] \in Zq
    BY VssPolyType
  <2>2. IntOn(f, Old) /\ DOMAIN f = Old
    BY <2>1, PartyFacts DEF IntOn
  <2>3. Vc[c] = SumQ(f)
    BY DEF Vc
  <2> HIDE DEF f
  <2> QED BY <2>2, <2>3, SumQType, PartyFacts
<1>2. 0 \in 0 .. NewT
  BY PartyFacts
<1>3. Vc = PolySum(NewT, Old, [j \in Old |-> VssPoly(j)])
  <2> DEFINE v == [j \in Old |-> VssPoly(j)]
  <2>1. \A j \in Old : v[j] = VssPoly(j)
    OBVIOUS
  <2>2. \A c : [j \in Old |-> v[j][c]] = [j \in Old |-> VssPoly(j)[c]]
    BY <2>1
  <2> HIDE DEF v
  <2>3. Vc = PolySum(NewT, Old, v)
    BY <2>2 DEF Vc, PolySum
  <2> QED BY <2>3 DEF v
<1> QED BY <1>1, <1>2, <1>3, PartyFacts DEF IntOn

\* A new member that acknowledged holds the value of the re-shared polynomial.
LEMMA AckedShare ==
    ASSUME NEW q \in New, Acked(q)
    PROVE  newXi[q] \in Int /\ newXi[q] # Unset
           /\ newXi[q] % Q = evaluatePolynomial(NewT, Vc, Keys[q])
<1> DEFINE f == [j \in Old |-> ShareFor(j, q)]
           v == [j \in Old |-> VssPoly(j)]
<1>1. q \in Party /\ Keys[q] \in Int /\ NewT \in Nat /\ IsFiniteSet(Old)
  BY PartyFacts, KeysDistinct
<1>2. \A j \in Old : f[j] \in Zq
  BY <1>1, SharesAre
<1>3. newXi[q] = SumFunctionOnSet(f, Old)
  BY DEF Acked, SumFunction
<1>4. Values(NewT, Old, v, Keys[q]) = f
  <2>1. \A j \in Old : ShareFor(j, q) = evaluatePolynomial(NewT, VssPoly(j), Keys[q])
    BY <1>1, ShareCulpritIs DEF Acked
  <2>2. \A j \in Old : v[j] = VssPoly(j)
    OBVIOUS
  <2> HIDE DEF v
  <2> QED BY <2>1, <2>2 DEF Values
<1>5. \A j \in Old : IntOn(v[j], 0 .. NewT)
  BY VssPolyType
<1>6. Vc = PolySum(NewT, Old, v)
  BY VcType
<1>7. DOMAIN f = Old
  OBVIOUS
<1> HIDE DEF f, v
<1>8. evaluatePolynomial(NewT, Vc, Keys[q]) = SumQ(f)
  BY <1>1, <1>4, <1>5, <1>6, EvalSum
<1>9. newXi[q] \in Int /\ newXi[q] <= Cardinality(Old) * (Q - 1)
  <2>1. Q - 1 \in Nat /\ \A j \in Old : f[j] \in 0 .. Q - 1
    BY <1>2, QAssumption DEF Zq
  <2> QED BY <1>1, <1>3, <2>1, SumBound
<1>10. newXi[q] # Unset
  <2> DEFINE n == Cardinality(Old)
             d == Q - 1
  <2>1. n \in Nat /\ n <= d /\ d \in Nat /\ Q = d + 1 /\ Q \in Nat
    BY PartyFacts
  <2>2. newXi[q] <= n * d
    BY <1>9
  <2> HIDE DEF n, d
  <2>3. n * d <= d * d
    BY <2>1
  <2>4. d * d < (d + 1) * (d + 1) /\ d * d \in Int /\ n * d \in Int
    BY <2>1
  <2>5. Unset = (d + 1) * (d + 1)
    BY <2>1 DEF Unset
  <2> QED BY <1>9, <2>1, <2>2, <2>3, <2>4, <2>5
<1> QED BY <1>3, <1>7, <1>8, <1>9, <1>10, SumQDef

\* A weight depends on the share mod Q only.
LEMMA WeightMod ==
    ASSUME NEW x \in Int, NEW i, NEW S, NEW ks, Lambda(i, S, ks) \in Int
    PROVE  SigningWeight(i, S, ks, x) = SigningWeight(i, S, ks, x % Q)
<1> DEFINE l == Lambda(i, S, ks)
<1>1. l \in Int
  OBVIOUS
<1> HIDE DEF l
<1>2. x % Q \in Int /\ x % Q = (x % Q) % Q
  BY ModType, ModMod
<1>3. (x * l) % Q = ((x % Q) * l) % Q
  BY <1>1, <1>2, CongScale
<1> QED BY <1>3 DEF SigningWeight, l

\* Enough new members recover key k.
Recovered(k) ==
    /\ \A q \in New : newXi[q] # Unset
    /\ \A I \in SUBSET New : Cardinality(I) = NewT + 1 =>
          SumQ([q \in I |-> SigningWeight(q, I, Keys, newXi[q])]) = k

LEMMA AckedRecover ==
    ASSUME \A q \in New : Acked(q)
    PROVE  Recovered(Vc[0]) /\ Vc[0] \in AnnouncedKeys
<1>1. \A q \in New : newXi[q] \in Int /\ newXi[q] # Unset
          /\ newXi[q] % Q = evaluatePolynomial(NewT, Vc, Keys[q])
  BY AckedShare
<1>2. ASSUME NEW I \in SUBSET New, Cardinality(I) = NewT + 1
      PROVE  SumQ([q \in I |-> SigningWeight(q, I, Keys, newXi[q])]) = Vc[0]
  <2> DEFINE y == [q \in I |-> newXi[q] % Q]
  <2>1. NewT \in Nat /\ IsFiniteSet(I) /\ NewT < Cardinality(I) /\ I \subseteq Party
    <3>1. NewT \in Nat /\ IsFiniteSet(New) /\ I \subseteq Party
      BY PartyFacts
    <3>2. IsFiniteSet(I)
      BY <3>1, FS_Subset
    <3> QED BY <1>2, <3>1, <3>2
  <2>2. Distinct(Keys, I)
    BY <2>1, KeysDistinct
  <2>3. \A q \in I : y[q] = evaluatePolynomial(NewT, Vc, Keys[q])
    BY <1>1
  <2>4. \A q \in I : SigningWeight(q, I, Keys, newXi[q]) = SigningWeight(q, I, Keys, y[q])
    <3> TAKE q \in I
    <3>1. Lambda(q, I, Keys) \in Int
      BY <2>1, <2>2, LambdaIs
    <3> QED BY <1>1, <3>1, WeightMod
  <2> HIDE DEF y
  <2>5. SumQ([q \in I |-> SigningWeight(q, I, Keys, y[q])]) = Vc[0] % Q
    BY <2>1, <2>2, <2>3, VcType, WeightsRecover
  <2>6. [q \in I |-> SigningWeight(q, I, Keys, newXi[q])] = [q \in I |-> SigningWeight(q, I, Keys, y[q])]
    BY <2>4
  <2> QED BY <2>5, <2>6, VcType, ModSmall
<1>3. Vc[0] \in AnnouncedKeys
  BY PartyFacts DEF Acked
<1> QED BY <1>1, <1>2, <1>3 DEF Recovered

\* If everybody re-shares the same key, the weights add up to it.
LEMMA SameKey ==
    ASSUME NEW k, \A j \in Old : InputPoly(j) = k
    PROVE  Vc[0] = k[0]
<1> DEFINE x == [j \in Old |-> evaluatePolynomial(OldT, k, Keys[j])]
<1>1. IntOn(k, 0 .. OldT) /\ k[0] \in Zq
  BY InputPolyType, FirstOldIn
<1>2. Distinct(Keys, Old) /\ OldT \in Nat /\ IsFiniteSet(Old) /\ OldT < Cardinality(Old)
  BY KeysDistinct, PartyFacts
<1>3. \A j \in Old : x[j] = evaluatePolynomial(OldT, k, Keys[j])
  OBVIOUS
<1> HIDE DEF x
<1>4. SumQ([j \in Old |-> SigningWeight(j, Old, Keys, x[j])]) = k[0] % Q
  BY <1>1, <1>2, <1>3, WeightsRecover
<1>5. \A j \in Old : VssPoly(j)[0] = SigningWeight(j, Old, Keys, x[j])
  BY <1>3, VssPolyType
<1>6. Vc[0] = SumQ([j \in Old |-> VssPoly(j)[0]])
  BY PartyFacts DEF Vc
<1>7. [j \in Old |-> VssPoly(j)[0]] = [j \in Old |-> SigningWeight(j, Old, Keys, x[j])]
  BY <1>5
<1> QED BY <1>1, <1>4, <1>6, <1>7, ModSmall

-----------------------------------------------------------------------------
(* The Starts.                                                             *)

\* What the operators read does not change after Init.
LEMMA Fixed ==
    ASSUME protocol' = protocol, fault' = fault
    PROVE  /\ \A p, q : ShareFor(p, q)' = ShareFor(p, q)
           /\ \A q : ShareCulprit(q)' = ShareCulprit(q)
           /\ AnnouncedKeys' = AnnouncedKeys /\ Honest' = Honest
           /\ \A k : SlotFault(k)' = SlotFault(k)
           /\ \A p, q : Excused(p, q)' = Excused(p, q)
           /\ Vc' = Vc /\ Ecdsa' = Ecdsa /\ NoBadInput' = NoBadInput
<1>1. \A k : SlotFault(k)' = SlotFault(k)
  BY DEF SlotFault
<1>2. \A p, q : Excused(p, q)' = Excused(p, q)
  BY <1>1 DEF Excused, Params
<1>3. AnnouncedKeys' = AnnouncedKeys /\ Honest' = Honest
  BY DEF AnnouncedKeys, Announced, InputPoly, Honest
<1>4. /\ \A p, q : ShareFor(p, q)' = ShareFor(p, q)
      /\ \A q : ShareCulprit(q)' = ShareCulprit(q)
      /\ Vc' = Vc /\ Ecdsa' = Ecdsa /\ NoBadInput' = NoBadInput
  BY DEF ShareFor, ShareCulprit, Vc, Ecdsa, NoBadInput, VssPoly, InputPoly
<1> QED BY <1>1, <1>2, <1>3, <1>4

\* An acknowledgement stands as long as the share does.
LEMMA AckedFixed ==
    ASSUME protocol' = protocol, fault' = fault, NEW q, newXi'[q] = newXi[q], Acked(q)
    PROVE  Acked(q)'
BY Fixed DEF Acked

\* The fields of a result.
Fields(R, s, o, n, res, b) ==
    R.send = s /\ R.oldOK = o /\ R.newOK = n /\ R.res = res /\ R.blame = b

LEMMA ResultIs == ASSUME NEW s, NEW o, NEW n PROVE Fields(Result(s, o, n), s, o, n, "up", {})
BY DEF Result, Fields

LEMMA FailingIs ==
    ASSUME NEW s, NEW o, NEW n, NEW b
    PROVE  Fields(Failing(Result(s, o, n), b), s, o, n, "failed", b)
BY DEF Result, Failing, Fields

LEMMA PanickingIs ==
    ASSUME NEW s, NEW o, NEW n PROVE Fields(Panicking(Result(s, o, n)), s, o, n, "panicked", {})
BY DEF Result, Panicking, Fields

\* Honest new members are refused only if another copied their h1 and h2, or took
\* another public key from round 1.
LEMMA ParamCulpritIs ==
    ASSUME NEW p
    PROVE  /\ ParamCulprit(p) \subseteq New
           /\ \A q \in ParamCulprit(p) \cap Honest :
                 pub[q] # pub[p] \/ \E i \in New : i < q /\ Params(i) = q
<1> DEFINE of(k) == {j \in New : fault[j][1] = k}
           refused == of("equal") \cup {j \in New : \E i \in New : i < j /\ Params(i) = Params(j)}
           paillier == of("paillier") \cup {j \in New : pub[j] # pub[p]}
           all == {refused, paillier, of("dln1"), of("dln2")}
<1>1. \A S \in all : S \in SUBSET Nat /\ S \subseteq New
  <2>1. New \subseteq Nat
    BY PartyFacts
  <2>2. \A k : of(k) \subseteq New
    OBVIOUS
  <2>3. refused \subseteq New /\ paillier \subseteq New
    OBVIOUS
  <2> HIDE DEF of, refused, paillier
  <2> QED BY <2>1, <2>2, <2>3
<1>2. \E S \in all : ParamCulprit(p) = First(S)
  BY DEF ParamCulprit
<1>3. \E S \in all : ParamCulprit(p) \subseteq S
  <2> HIDE DEF all
  <2> QED BY <1>1, <1>2, FirstIn
<1>4. ASSUME NEW S \in all, NEW q \in S \cap Honest
      PROVE  pub[q] # pub[p] \/ \E i \in New : i < q /\ Params(i) = q
  <2>1. fault[q][1] = "none"
    BY <1>4 DEF Honest
  <2>2. \A k : q \in of(k) => k = "none"
    BY <2>1
  <2>3. q \in refused \/ q \in paillier
    BY <1>4, <2>2
  <2>4. CASE q \in paillier
    BY <2>2, <2>4
  <2>5. CASE q \in refused
    <3>1. PICK i \in New : i < q /\ Params(i) = Params(q)
      BY <2>2, <2>5
    <3>2. Params(i) = q
      BY <2>1, <3>1 DEF Params
    <3> QED BY <3>1, <3>2
  <2> QED BY <2>3, <2>4, <2>5
<1> HIDE DEF all
<1> QED BY <1>1, <1>3, <1>4

\* What the Start of a round leaves, in the terms of the invariant.
StartFacts(p, r, S, pk, R) ==
    /\ R.send \subseteq Type /\ R.oldOK \subseteq Old /\ R.newOK \subseteq New
    /\ R.res \in {"up", "failed", "panicked", "ended"} /\ R.blame \subseteq Party
    /\ ("r1" \in R.send \/ "r1again" \in R.send) => fault[p][1] # "input"
    /\ "r2key" \in R.send => pk # Unset
    /\ "r2ack" \in R.send => r = 2 /\ p \in New
    /\ "r4" \in R.send => r = 4 /\ p \in New /\ R.res = "up" /\ ShareCulprit(p) = {} /\ Vc[0] = pk
    /\ R.res = "ended" => r = 5
    /\ r = 1 => R.newOK = New
    /\ (r = 1 /\ p \notin Old) => R.oldOK = {}
    /\ (r = 2 /\ (p \in Old \/ Ecdsa)) => R.newOK = {}
    /\ (r = 3 /\ p \notin Old) => R.oldOK = {}
    /\ r = 4 => R.newOK = {}
    /\ R.res = "panicked" =>
          \/ r = 2 /\ p \in New /\ Ecdsa /\ pk = Unset
          \/ r = 3 /\ p \in Old /\ ~NoBadInput
          \/ r = 4 /\ p \in New /\ Ecdsa /\ ~(New \subseteq From({"r2key"}, New, S))
          \/ r = 4 /\ p \in New /\ ~(Old \subseteq From({"r1"}, Old, S))
          \/ r = 4 /\ p \in New /\ ~(Old \subseteq From({"r3share", "r3decommit"}, Old, S))
    /\ (r = 2 /\ p \in New \cap Honest /\ Ecdsa /\ pk = Unset) => R.res = "panicked"
    /\ p \in Honest => \A q \in R.blame \cap Honest :
          \/ q = p /\ p \in New /\ r = 4 /\ Vc[0] # pk
          \/ \E i \in New : i < q /\ Params(i) = q
          \/ /\ p \in New /\ q \in New /\ pub[q] # pub[p]
             /\ New \subseteq From({"r2key"}, New, S)

LEMMA StartRound1 ==
    ASSUME NEW p \in Party, NEW S, NEW pk PROVE StartFacts(p, 1, S, pk, Round1(p))
<1>1. p \in Honest => fault[p][1] # "input"
  BY DEF Honest
<1>2. {"r1"} \subseteq Type /\ {"r1", "r1again"} \subseteq Type /\ New \subseteq Party
  BY PartyFacts DEF Type
<1>3. CASE p \notin Old
  <2>1. Round1(p) = Result({}, {}, New)
    BY <1>3 DEF Round1
  <2> QED BY <1>2, <1>3, <2>1, ResultIs DEF StartFacts, Fields
<1>4. CASE p \in Old /\ fault[p][1] = "input"
  <2>1. Round1(p) = Failing(Result({}, Old, New), {p})
    BY <1>4 DEF Round1
  <2> QED BY <1>1, <1>4, <2>1, FailingIs DEF StartFacts, Fields
<1>5. CASE p \in Old /\ fault[p][1] # "input"
  <2>1. Round1(p) = Result({"r1"}, Old, New) \/ Round1(p) = Result({"r1", "r1again"}, Old, New)
    BY <1>5 DEF Round1
  <2> QED BY <1>2, <1>5, <2>1, ResultIs DEF StartFacts, Fields
<1> QED BY <1>3, <1>4, <1>5

LEMMA StartRound2 ==
    ASSUME protocol \in Protocols, NEW p \in Party, NEW S, NEW pk
    PROVE  StartFacts(p, 2, S, pk, IF Ecdsa THEN EcdsaRound2(p, pk) ELSE EddsaRound2(p))
<1>1. p \in Honest => fault[p][1] # "preparams" /\ fault[p][1] # "stale"
  BY DEF Honest
<1>2. {"r2ack", "r2key"} \subseteq Type /\ {"r2ack"} \subseteq Type
  BY DEF Type
<1>3. (p \in Old /\ p \in New) => Ecdsa
  BY ResharingAssumption DEF Ecdsa
<1>4. CASE p \notin New
  <2>1. EcdsaRound2(p, pk) = Result({}, Old, {}) /\ EddsaRound2(p) = Result({}, Old, {})
    BY <1>4 DEF EcdsaRound2, EddsaRound2
  <2> QED BY <1>4, <2>1, ResultIs DEF StartFacts, Fields
<1>5. CASE p \in New /\ Ecdsa
  <2>1. CASE fault[p][1] = "preparams"
    <3>1. EcdsaRound2(p, pk) = Failing(Result({"r2ack"}, Old, {}), {p})
      BY <1>5, <2>1 DEF EcdsaRound2
    <3> QED BY <1>1, <1>2, <1>5, <2>1, <3>1, FailingIs DEF StartFacts, Fields
  <2>1a. CASE fault[p][1] = "stale"
    <3>1. EcdsaRound2(p, pk) = Failing(Result({"r2ack"}, Old, {}), {})
      BY <1>5, <2>1a DEF EcdsaRound2
    <3> QED BY <1>1, <1>2, <1>5, <2>1a, <3>1, FailingIs DEF StartFacts, Fields
  <2>2. CASE fault[p][1] # "preparams" /\ fault[p][1] # "stale" /\ pk = Unset
    <3>1. EcdsaRound2(p, pk) = Panicking(Result({"r2ack"}, Old, {}))
      BY <1>5, <2>2 DEF EcdsaRound2
    <3> QED BY <1>2, <1>5, <2>2, <3>1, PanickingIs DEF StartFacts, Fields
  <2>3. CASE fault[p][1] # "preparams" /\ fault[p][1] # "stale" /\ pk # Unset
    <3>1. EcdsaRound2(p, pk) = Result({"r2ack", "r2key"}, Old, {})
      BY <1>5, <2>3 DEF EcdsaRound2
    <3> QED BY <1>2, <1>5, <2>3, <3>1, ResultIs DEF StartFacts, Fields
  <2> QED BY <2>1, <2>1a, <2>2, <2>3
<1>6. CASE p \in New /\ ~Ecdsa
  <2>1. EddsaRound2(p) = Result({"r2ack"}, Old, New)
    BY <1>6 DEF EddsaRound2
  <2> QED BY <1>2, <1>3, <1>6, <2>1, ResultIs DEF StartFacts, Fields
<1> QED BY <1>4, <1>5, <1>6

LEMMA StartRound3 ==
    ASSUME NEW p \in Party, NEW S, NEW pk PROVE StartFacts(p, 3, S, pk, Round3(p))
<1>1. {"r3share", "r3decommit"} \subseteq Type
  BY DEF Type
<1>2. CASE p \notin Old
  <2>1. Round3(p) = Result({}, {}, New)
    BY <1>2 DEF Round3
  <2> QED BY <1>2, <2>1, ResultIs DEF StartFacts, Fields
<1>3. CASE p \in Old /\ fault[p][1] = "input"
  <2>1. Round3(p) = Panicking(Result({}, Old, New)) /\ ~NoBadInput
    BY <1>3 DEF Round3, NoBadInput
  <2> QED BY <1>3, <2>1, PanickingIs DEF StartFacts, Fields
<1>4. CASE p \in Old /\ fault[p][1] # "input"
  <2>1. Round3(p) = Result({"r3share", "r3decommit"}, Old, New)
    BY <1>4 DEF Round3
  <2> QED BY <1>1, <1>4, <2>1, ResultIs DEF StartFacts, Fields
<1> QED BY <1>2, <1>3, <1>4

LEMMA StartRound4 ==
    ASSUME NEW p \in Party, NEW S, NEW pk PROVE StartFacts(p, 4, S, pk, Round4(p, S, pk))
<1> DEFINE B == Result({}, Old, {})
           noKeys == Ecdsa /\ \E j \in New : <<"r2key", j>> \notin S
           noShares == \E j \in Old, t \in {"r1", "r3share", "r3decommit"} : <<t, j>> \notin S
<1>1. /\ ParamCulprit(p) \subseteq Party /\ ParamCulprit(p) \subseteq New
      /\ \A q \in ParamCulprit(p) \cap Honest :
            pub[q] # pub[p] \/ \E i \in New : i < q /\ Params(i) = q
  BY ParamCulpritIs, PartyFacts
<1>2. ShareCulprit(p) \subseteq Party /\ ShareCulprit(p) \cap Honest = {}
  BY ShareCulpritIs, PartyFacts
<1>3. \/ Round4(p, S, pk) = B
      \/ Round4(p, S, pk) = Panicking(B) /\ p \in New /\ (noKeys \/ noShares)
      \/ Round4(p, S, pk) = Failing(B, ParamCulprit(p)) /\ p \in New /\ Ecdsa /\ ~noKeys
      \/ Round4(p, S, pk) = Failing(B, ShareCulprit(p))
      \/ Round4(p, S, pk) = Failing(B, {p}) /\ p \in New /\ Vc[0] # pk
      \/ Round4(p, S, pk) = Result({"r4"}, Old, {}) /\ p \in New /\ ShareCulprit(p) = {} /\ Vc[0] = pk
  BY DEF Round4
<1>4. (noKeys => Ecdsa /\ ~(New \subseteq From({"r2key"}, New, S)))
      /\ (Ecdsa /\ ~noKeys => New \subseteq From({"r2key"}, New, S))
  BY DEF From
<1>5. noShares => \/ ~(Old \subseteq From({"r1"}, Old, S))
                  \/ ~(Old \subseteq From({"r3share", "r3decommit"}, Old, S))
  BY DEF From
<1>6. {"r4"} \subseteq Type
  BY DEF Type
<1> HIDE DEF noKeys, noShares
<1>7. CASE Round4(p, S, pk) = B
  BY <1>7, ResultIs DEF StartFacts, Fields
<1>8. CASE Round4(p, S, pk) = Panicking(B) /\ p \in New /\ (noKeys \/ noShares)
  BY <1>4, <1>5, <1>8, PanickingIs DEF StartFacts, Fields
<1>9. CASE Round4(p, S, pk) = Failing(B, ParamCulprit(p)) /\ p \in New /\ Ecdsa /\ ~noKeys
  BY <1>1, <1>4, <1>9, FailingIs DEF StartFacts, Fields
<1>10. CASE Round4(p, S, pk) = Failing(B, ShareCulprit(p))
  BY <1>2, <1>10, FailingIs DEF StartFacts, Fields
<1>11. CASE Round4(p, S, pk) = Failing(B, {p}) /\ p \in New /\ Vc[0] # pk
  BY <1>11, FailingIs DEF StartFacts, Fields
<1>12. CASE Round4(p, S, pk) = Result({"r4"}, Old, {}) /\ p \in New /\ ShareCulprit(p) = {} /\ Vc[0] = pk
  BY <1>6, <1>12, ResultIs DEF StartFacts, Fields
<1> QED BY <1>3, <1>7, <1>8, <1>9, <1>10, <1>11, <1>12

LEMMA StartIs ==
    ASSUME protocol \in Protocols, NEW p \in Party, NEW r \in 1 .. 5, NEW S, NEW pk
    PROVE  StartFacts(p, r, S, pk, Start(p, r, S, pk))
<1>1. r = 1 \/ r = 2 \/ r = 3 \/ r = 4 \/ r = 5
  OBVIOUS
<1>2. CASE r = 5
  <2>1. Start(p, r, S, pk) = Round5
    BY <1>2 DEF Start
  <2>2. Round5.send = {} /\ Round5.oldOK = Old /\ Round5.newOK = New /\ Round5.res = "ended"
        /\ Round5.blame = {}
    BY DEF Round5, Result
  <2> QED BY <1>2, <2>1, <2>2 DEF StartFacts
<1>3. CASE r = 1
  <2>1. Start(p, r, S, pk) = Round1(p)
    BY <1>3 DEF Start
  <2> QED BY <1>3, <2>1, StartRound1
<1>4. CASE r = 2
  <2>1. Start(p, r, S, pk) = IF Ecdsa THEN EcdsaRound2(p, pk) ELSE EddsaRound2(p)
    BY <1>4 DEF Start
  <2> QED BY <1>4, <2>1, StartRound2
<1>5. CASE r = 3
  <2>1. Start(p, r, S, pk) = Round3(p)
    BY <1>5 DEF Start
  <2> QED BY <1>5, <2>1, StartRound3
<1>6. CASE r = 4
  <2>1. Start(p, r, S, pk) = Round4(p, S, pk)
    BY <1>6 DEF Start
  <2> QED BY <1>6, <2>1, StartRound4
<1> QED BY <1>1, <1>2, <1>3, <1>4, <1>5, <1>6

-----------------------------------------------------------------------------
(* The steps.                                                              *)

LEMMA MessageIs ==
    ASSUME NEW m \in Message PROVE m = <<m[1], m[2]>> /\ m[1] \in Type /\ m[2] \in Party
BY DEF Message

\* The parts of a store that the trackers look at grow.
Grown(R, S) ==
    /\ From({"r1"}, Old, R) \subseteq From({"r1"}, Old, S)
    /\ From({"r2key"}, New, R) \subseteq From({"r2key"}, New, S)
    /\ From({"r2ack"}, New, R) \subseteq From({"r2ack"}, New, S)
    /\ From({"r3share", "r3decommit"}, Old, R) \subseteq From({"r3share", "r3decommit"}, Old, S)
    /\ From({"r4"}, New, R) \subseteq From({"r4"}, New, S)

LEMMA FromGrows == ASSUME NEW S, NEW R, R \subseteq S PROVE Grown(R, S)
BY DEF From, Grown

LEMMA PutIs ==
    ASSUME NEW S \in SUBSET Message, NEW m \in Message
    PROVE  /\ Put(S, m) \in SUBSET Message /\ Grown(S, Put(S, m))
           /\ \A x \in Put(S, m) : x \in S \/ x = m \/ (m[1] = "r1again" /\ x = <<"r1", m[2]>>)
<1>1. <<"r1", m[2]>> \in Message
  BY DEF Message, Type
<1>2. \/ m[1] = "r1again" /\ Put(S, m) = S \cup {m, <<"r1", m[2]>>}
      \/ Put(S, m) = (S \ {<<"r1again", m[2]>>}) \cup {m}
      \/ Put(S, m) = S \cup {m}
  BY DEF Put
<1>3. \A x \in S : x \in Put(S, m) \/ x[1] = "r1again"
  BY <1>2
<1>4. Grown(S, Put(S, m))
  <2>1. \A t, j : (<<t, j>> \in S /\ t # "r1again") => <<t, j>> \in Put(S, m)
    BY <1>3
  <2> QED BY <2>1 DEF From, Grown
<1> QED BY <1>1, <1>2, <1>4

\* What the Update of a round does to the trackers and to the public key.
LEMMA AfterIs ==
    ASSUME RsType, NEW p \in Party, Tracked(p), NEW S \in SUBSET Message, Grown(store[p], S)
    PROVE  /\ OldAfter(p, S) \in SUBSET Old /\ NewAfter(p, S) \in SUBSET New
           /\ rnd[p] # 1 => PubAfter(p, S) = pub[p] /\ ~KeyError(p, S)
           /\ ~KeyError(p, S) => PubAfter(p, S) \in {Unset} \cup AnnouncedKeys
           /\ (~KeyError(p, S) /\ pub[p] # Unset) => PubAfter(p, S) # Unset
           /\ KeyError(p, S) =>
                 /\ SlotFault("offcurve") \/ SlotFault("twoKeys")
                 /\ pub[p] # Unset \/ SlotFault("offcurve")
           /\ rnd[p] = 1 => NewAfter(p, S) = New
           /\ (p \in New \ Old /\ rnd[p] = 1) =>
                 /\ OldAfter(p, S) \subseteq From({"r1"}, Old, S)
                 /\ (OldAfter(p, S) = Old /\ ~KeyError(p, S)) => Keyed(p, PubAfter(p, S))
           /\ (p \in New /\ Ecdsa /\ rnd[p] = 2) => NewAfter(p, S) \subseteq From({"r2key"}, New, S)
           /\ (p \in Old /\ rnd[p] = 2) => NewAfter(p, S) \subseteq From({"r2ack"}, New, S)
           /\ (p \in New \ Old /\ rnd[p] = 3) =>
                 OldAfter(p, S) \subseteq From({"r3share", "r3decommit"}, Old, S)
           /\ rnd[p] = 4 => NewAfter(p, S) \subseteq From({"r4"}, New, S)
<1>0. oldOK[p] \in SUBSET Old /\ newOK[p] \in SUBSET New /\ pub[p] \in {Unset} \cup AnnouncedKeys
  BY DEF RsType
<1>2. \A T, C : From(T, C, S) \subseteq C /\ \A K : Scan(T, C, S, K) \subseteq From(T, C, S)
  BY DEF From, Scan
<1>3. rnd[p] = 1 /\ p \in New => OldAfter(p, S) = oldOK[p] \cup From({"r1"}, Old, S)
  BY DEF OldAfter
<1>4. rnd[p] = 3 /\ p \in New =>
          OldAfter(p, S) = oldOK[p] \cup Scan({"r3share", "r3decommit"}, Old, S, oldOK[p])
  BY DEF OldAfter
<1>5. ~(rnd[p] = 1 /\ p \in New) /\ ~(rnd[p] = 3 /\ p \in New) => OldAfter(p, S) = oldOK[p]
  BY DEF OldAfter
<1>6. rnd[p] = 2 => NewAfter(p, S) = newOK[p] \cup From(Round2Types(p), New, S)
  BY DEF NewAfter
<1>7. rnd[p] = 4 => NewAfter(p, S) \subseteq newOK[p] \cup From({"r4"}, New, S)
  <2>1. rnd[p] = 4 => NewAfter(p, S) = newOK[p] \cup (IF Ecdsa THEN Scan({"r4"}, New, S, newOK[p])
                                      ELSE From({"r4"}, New, S))
    BY DEF NewAfter
  <2> QED BY <1>2, <2>1
<1>8. rnd[p] # 2 /\ rnd[p] # 4 => NewAfter(p, S) = newOK[p]
  BY DEF NewAfter
<1>9. OldAfter(p, S) \in SUBSET Old
  BY <1>0, <1>2, <1>3, <1>4, <1>5
<1>10. NewAfter(p, S) \in SUBSET New
  BY <1>0, <1>2, <1>6, <1>7, <1>8
<1>11. /\ rnd[p] # 1 => PubAfter(p, S) = pub[p] /\ ~KeyError(p, S)
       /\ Fresh(p, S) = {} => PubAfter(p, S) = pub[p] /\ ~KeyError(p, S)
       /\ SlotKey(S) = {} => PubAfter(p, S) = pub[p] /\ ~KeyError(p, S)
       /\ (Fresh(p, S) # {} /\ SlotKey(S) # {}) => PubAfter(p, S) \in SlotKey(S)
  <2>1. rnd[p] # 1 => Fresh(p, S) = {}
    BY DEF Fresh
  <2> QED BY <2>1 DEF PubAfter, KeyError
<1>11a. (Fresh(p, S) # {} /\ SlotKey(S) # {} /\ ~KeyError(p, S)) =>
            PubAfter(p, S) \in AnnouncedKeys /\ PubAfter(p, S) # Unset
  <2> SUFFICES ASSUME Fresh(p, S) # {}, SlotKey(S) # {}, ~KeyError(p, S)
               PROVE  PubAfter(p, S) \in AnnouncedKeys /\ PubAfter(p, S) # Unset
    OBVIOUS
  <2>1. PubAfter(p, S) \in SlotKey(S) /\ PubAfter(p, S) # OffCurve
    BY <1>11 DEF KeyError
  <2> QED BY <2>1, SlotIs, AnnouncedIs
<1>11b. KeyError(p, S) => /\ SlotFault("offcurve") \/ SlotFault("twoKeys")
                          /\ pub[p] # Unset \/ SlotFault("offcurve")
  <2> SUFFICES ASSUME NEW k \in SlotKey(S), k = OffCurve \/ pub[p] \notin {Unset, k}
               PROVE  /\ SlotFault("offcurve") \/ SlotFault("twoKeys")
                      /\ pub[p] # Unset \/ SlotFault("offcurve")
    BY DEF KeyError
  <2>1. CASE k = OffCurve
    BY <2>1, SlotIs
  <2>2. CASE k # OffCurve
    <3>1. k \in AnnouncedKeys /\ pub[p] \in AnnouncedKeys /\ pub[p] # k /\ pub[p] # Unset
      BY <1>0, <2>2, SlotIs
    <3> QED BY <3>1, AnnouncedIs
  <2> QED BY <2>1, <2>2
<1>12. ASSUME p \in New \ Old, rnd[p] = 1
       PROVE  /\ OldAfter(p, S) \subseteq From({"r1"}, Old, S)
              /\ (OldAfter(p, S) = Old /\ ~KeyError(p, S)) => Keyed(p, PubAfter(p, S))
  <2>1. oldOK[p] \subseteq From({"r1"}, Old, store[p]) /\ (oldOK[p] = Old => Keyed(p, pub[p]))
    BY <1>12 DEF Tracked
  <2>2. OldAfter(p, S) \subseteq From({"r1"}, Old, S)
    BY <1>3, <1>12, <2>1 DEF Grown
  <2>3. ASSUME OldAfter(p, S) = Old, ~KeyError(p, S) PROVE Keyed(p, PubAfter(p, S))
    <3>1. <<"r1", FirstOld>> \in S
      BY <2>2, <2>3, FirstOldIn DEF From
    <3>2. SlotKey(S) # {}
      BY <3>1, SlotIs
    <3>3. CASE Fresh(p, S) = {}
      <4>1. From({"r1"}, Old, S) \subseteq oldOK[p]
        BY <1>12, <3>3 DEF Fresh
      <4>2. oldOK[p] = Old
        BY <1>3, <1>12, <2>3, <4>1
      <4> QED BY <1>11, <2>1, <3>3, <4>2
    <3>4. CASE Fresh(p, S) # {}
      BY <1>11a, <2>3, <3>2, <3>4 DEF Keyed
    <3> QED BY <3>3, <3>4
  <2> QED BY <2>2, <2>3
<1>13. ASSUME p \in New, Ecdsa, rnd[p] = 2 PROVE NewAfter(p, S) \subseteq From({"r2key"}, New, S)
  <2>1. newOK[p] \subseteq From({"r2key"}, New, store[p])
    BY <1>13 DEF Tracked
  <2>2. "r2key" \in Round2Types(p)
    BY <1>13 DEF Round2Types
  <2>3. From(Round2Types(p), New, S) \subseteq From({"r2key"}, New, S)
    BY <2>2 DEF From
  <2> QED BY <1>6, <1>13, <2>1, <2>3 DEF Grown
<1>14. ASSUME p \in Old, rnd[p] = 2 PROVE NewAfter(p, S) \subseteq From({"r2ack"}, New, S)
  <2>1. newOK[p] \subseteq From({"r2ack"}, New, store[p])
    BY <1>14 DEF Tracked
  <2>2. "r2ack" \in Round2Types(p)
    BY <1>14 DEF Round2Types
  <2>3. From(Round2Types(p), New, S) \subseteq From({"r2ack"}, New, S)
    BY <2>2 DEF From
  <2> QED BY <1>6, <1>14, <2>1, <2>3 DEF Grown
<1>15. ASSUME p \in New \ Old, rnd[p] = 3
       PROVE  OldAfter(p, S) \subseteq From({"r3share", "r3decommit"}, Old, S)
  <2>1. oldOK[p] \subseteq From({"r3share", "r3decommit"}, Old, store[p])
    BY <1>15 DEF Tracked
  <2> QED BY <1>2, <1>4, <1>15, <2>1 DEF Grown
<1>16. ASSUME rnd[p] = 4 PROVE NewAfter(p, S) \subseteq From({"r4"}, New, S)
  <2>1. newOK[p] \subseteq From({"r4"}, New, store[p])
    BY <1>16 DEF Tracked
  <2> QED BY <1>7, <1>16, <2>1 DEF Grown
<1>17. rnd[p] = 1 => NewAfter(p, S) = New
  BY <1>8 DEF Tracked
<1> QED BY <1>0, <1>9, <1>10, <1>11, <1>11a, <1>11b, <1>12, <1>13, <1>14, <1>15, <1>16, <1>17

\* A party that took no step: only its pending calls may have changed.
LEMMA Bystander ==
    ASSUME NEW q \in Party, Tracked(q), Reported(q), protocol' = protocol, fault' = fault,
           rnd'[q] = rnd[q], oldOK'[q] = oldOK[q], newOK'[q] = newOK[q], store'[q] = store[q],
           pub'[q] = pub[q], status'[q] = status[q], culprits'[q] = culprits[q],
           \A j \in New : Acked(j) => Acked(j)'
    PROVE  Tracked(q)' /\ Reported(q)'
<1>1. /\ Ecdsa' = Ecdsa /\ Honest' = Honest
      /\ \A k : SlotFault(k)' = SlotFault(k)
      /\ \A j, i : Excused(j, i)' = Excused(j, i)
  BY Fixed
<1>2. Tracked(q)'
  <2>1. Keyed(q, pub[q])' <=> Keyed(q, pub[q])
    BY <1>1 DEF Keyed
  <2> QED BY <1>1, <2>1 DEF Tracked, From
<1>3. Reported(q)'
  BY <1>1 DEF Reported
<1> QED BY <1>2, <1>3

\* Messages stay genuine.
LEMMA GenuineKept ==
    ASSUME protocol' = protocol, fault' = fault, NEW m, Genuine(m), Acked(m[2]) => Acked(m[2])',
           pub[m[2]] # Unset => pub'[m[2]] # Unset
    PROVE  Genuine(m)'
BY Fixed DEF Genuine

\* An Update that starts no round: the message moves into its slot.
LEMMA StoreKeeps ==
    ASSUME RsInv, NEW p \in Party, NEW m \in calls[p],
           protocol' = protocol, fault' = fault, newXi' = newXi,
           \A q \in Party : pub[q] # Unset => pub'[q] # Unset,
           store' = [store EXCEPT ![p] = Put(@, m)],
           calls' = [calls EXCEPT ![p] = @ \ {m}] \/ calls' = calls
    PROVE  /\ store' \in [Party -> SUBSET Message] /\ calls' \in [Party -> SUBSET Message]
           /\ store'[p] = Put(store[p], m) /\ Put(store[p], m) \in SUBSET Message
           /\ Grown(store[p], Put(store[p], m))
           /\ \A q \in Party \ {p} : store'[q] = store[q]
           /\ RsFaults' /\ RsSent'
           /\ \A j \in New : Acked(j) => Acked(j)'
<1>1. store \in [Party -> SUBSET Message] /\ calls \in [Party -> SUBSET Message] /\ m \in Message
  BY DEF RsInv, RsType
<1> DEFINE S == Put(store[p], m)
<1>2. /\ S \in SUBSET Message /\ Grown(store[p], S)
      /\ \A x \in S : x \in store[p] \/ x = m \/ (m[1] = "r1again" /\ x = <<"r1", m[2]>>)
  BY <1>1, PutIs
<1>3. store'[p] = S /\ \A q \in Party \ {p} : store'[q] = store[q]
  BY <1>1
<1>4. store' \in [Party -> SUBSET Message] /\ calls' \in [Party -> SUBSET Message]
  BY <1>1, <1>2
<1> HIDE DEF S
<1>5. \A q \in Party : calls'[q] \subseteq calls[q]
  BY <1>1
<1>6. \A j : Acked(j) => Acked(j)'
  BY AckedFixed
<1>7. \A q \in Party : \A x \in store[q] \cup calls[q] : Genuine(x) /\ x \in Message
  BY <1>1 DEF RsInv, RsSent
<1>8. \A x \in S : Genuine(x) /\ x \in Message
  <2> SUFFICES ASSUME NEW x \in S PROVE Genuine(x)
    BY <1>2
  <2>1. Genuine(m) /\ (x \in store[p] => Genuine(x))
    BY <1>7
  <2>2. (m[1] = "r1again" /\ x = <<"r1", m[2]>>) => Genuine(x)
    BY <2>1 DEF Genuine
  <2> QED BY <1>2, <2>1, <2>2
<1>9. RsSent'
  <2> SUFFICES ASSUME NEW q \in Party, NEW x \in store'[q] \cup calls'[q] PROVE Genuine(x)'
    BY DEF RsSent
  <2>1. Genuine(x) /\ x \in Message
    BY <1>3, <1>5, <1>7, <1>8
  <2>2. x[2] \in Party
    BY <2>1, MessageIs
  <2> QED BY <1>6, <2>1, <2>2, GenuineKept
<1>10. RsFaults'
  BY Fixed DEF RsInv, RsFaults
<1>11. store'[p] = Put(store[p], m) /\ Put(store[p], m) \in SUBSET Message
       /\ Grown(store[p], Put(store[p], m))
  BY <1>2, <1>3 DEF S
<1> QED BY <1>3, <1>4, <1>6, <1>9, <1>10, <1>11

LEMMA RsUpdateStore ==
    ASSUME RsInv, NEW p \in Party, NEW m \in calls[p], UpdateStore(p, m) \/ UpdateFinish(p, m)
    PROVE  RsInv'
<1>1. /\ protocol' = protocol /\ fault' = fault /\ newXi' = newXi /\ status' = status
      /\ culprits' = culprits /\ store' = [store EXCEPT ![p] = Put(@, m)]
      /\ (calls' = [calls EXCEPT ![p] = @ \ {m}] \/ calls' = calls)
  BY DEF UpdateStore, UpdateFinish
<1>2. oldOK' = oldOK /\ newOK' = newOK /\ pub' = pub
      /\ rnd' = [rnd EXCEPT ![p] = 0]
  BY DEF UpdateStore, UpdateFinish, RsInv, RsType
<1>3. /\ store' \in [Party -> SUBSET Message] /\ calls' \in [Party -> SUBSET Message]
      /\ \A q \in Party \ {p} : store'[q] = store[q]
      /\ RsFaults' /\ RsSent'
      /\ \A j \in New : Acked(j) => Acked(j)'
  BY <1>1, <1>2, StoreKeeps
<1>4. RsType'
  <2>1. AnnouncedKeys' = AnnouncedKeys
    BY <1>1, Fixed
  <2> QED BY <1>1, <1>2, <1>3, <2>1 DEF RsInv, RsType
<1>5. ASSUME NEW q \in Party PROVE Tracked(q)' /\ Reported(q)'
  <2>0. RsType /\ Tracked(q) /\ Reported(q)
    BY DEF RsInv
  <2>1. CASE q # p
    <3>1. rnd'[q] = rnd[q] /\ store'[q] = store[q]
      BY <1>2, <1>3, <2>0, <2>1 DEF RsType
    <3> QED BY <1>1, <1>2, <1>3, <2>0, <3>1, Bystander
  <2>2. CASE q = p
    <3>1. rnd'[q] = 0
      BY <1>2, <2>0, <2>2 DEF RsType
    <3>2. Tracked(q)'
      BY <3>1 DEF Tracked
    <3>3. Reported(q)'
      <4>1. /\ Ecdsa' = Ecdsa /\ Honest' = Honest
            /\ \A k : SlotFault(k)' = SlotFault(k)
            /\ \A j, i : Excused(j, i)' = Excused(j, i)
        BY <1>1, Fixed
      <4> QED BY <1>1, <1>3, <2>0, <4>1 DEF Reported
    <3> QED BY <3>2, <3>3
  <2> QED BY <2>1, <2>2
<1> QED BY <1>3, <1>4, <1>5 DEF RsInv

LEMMA RsUpdateWait ==
    ASSUME RsInv, NEW p \in Party, NEW m \in calls[p], UpdateWait(p, m)
    PROVE  RsInv'
<1> DEFINE S == Put(store[p], m)
<1>0. RsType /\ Tracked(p) /\ Reported(p)
  BY DEF RsInv
<1>1. /\ protocol' = protocol /\ fault' = fault /\ newXi' = newXi /\ status' = status
      /\ culprits' = culprits /\ store' = [store EXCEPT ![p] = Put(@, m)]
      /\ calls' = [calls EXCEPT ![p] = @ \ {m}] /\ rnd' = rnd
  BY DEF UpdateWait
<1>2. /\ oldOK' = [oldOK EXCEPT ![p] = OldAfter(p, S)]
      /\ newOK' = [newOK EXCEPT ![p] = NewAfter(p, S)]
      /\ pub' = [pub EXCEPT ![p] = PubAfter(p, S)]
      /\ ~CanProceed(p, S) /\ ~KeyError(p, S) /\ status[p] # "panicked"
  BY DEF UpdateWait, Ready
<1>3. S \in SUBSET Message /\ Grown(store[p], S)
  <2>1. store[p] \in SUBSET Message /\ m \in Message
    BY <1>0 DEF RsType
  <2> QED BY <2>1, PutIs
<1> HIDE DEF S
<1>4. /\ OldAfter(p, S) \in SUBSET Old /\ NewAfter(p, S) \in SUBSET New
      /\ PubAfter(p, S) \in {Unset} \cup AnnouncedKeys
      /\ pub[p] # Unset => PubAfter(p, S) # Unset
      /\ rnd[p] # 1 => PubAfter(p, S) = pub[p]
      /\ rnd[p] = 1 => NewAfter(p, S) = New
      /\ (p \in New \ Old /\ rnd[p] = 1) => OldAfter(p, S) \subseteq From({"r1"}, Old, S)
      /\ (p \in New /\ Ecdsa /\ rnd[p] = 2) => NewAfter(p, S) \subseteq From({"r2key"}, New, S)
      /\ (p \in Old /\ rnd[p] = 2) => NewAfter(p, S) \subseteq From({"r2ack"}, New, S)
      /\ (p \in New \ Old /\ rnd[p] = 3) =>
            OldAfter(p, S) \subseteq From({"r3share", "r3decommit"}, Old, S)
      /\ rnd[p] = 4 => NewAfter(p, S) \subseteq From({"r4"}, New, S)
  BY <1>0, <1>2, <1>3, AfterIs
<1>5. \A q \in Party : pub[q] # Unset => pub'[q] # Unset
  BY <1>0, <1>2, <1>4 DEF RsType
<1>6. /\ store' \in [Party -> SUBSET Message] /\ calls' \in [Party -> SUBSET Message]
      /\ store'[p] = S
      /\ \A q \in Party \ {p} : store'[q] = store[q]
      /\ RsFaults' /\ RsSent'
      /\ \A j \in New : Acked(j) => Acked(j)'
  BY <1>1, <1>5, StoreKeeps DEF S
<1>7. RsType'
  <2>1. AnnouncedKeys' = AnnouncedKeys
    BY <1>1, Fixed
  <2> QED BY <1>0, <1>1, <1>2, <1>4, <1>6, <2>1 DEF RsType
<1>8. /\ oldOK'[p] = OldAfter(p, S) /\ newOK'[p] = NewAfter(p, S) /\ pub'[p] = PubAfter(p, S)
      /\ rnd'[p] = rnd[p] /\ rnd[p] \in 0 .. 5
  BY <1>0, <1>1, <1>2 DEF RsType
<1>9. /\ Ecdsa' = Ecdsa /\ Honest' = Honest
      /\ \A k : SlotFault(k)' = SlotFault(k)
      /\ \A j, i : Excused(j, i)' = Excused(j, i)
  BY <1>1, Fixed
<1>10. rnd[p] = 1 => OldAfter(p, S) # Old
  BY <1>2, <1>4 DEF CanProceed
<1>11. Tracked(p)'
  <2>1. (p \in New \ Old /\ rnd[p] >= 2) =>
            Old \subseteq From({"r1"}, Old, S) /\ Keyed(p, PubAfter(p, S))
    BY <1>0, <1>3, <1>4, <1>8 DEF Tracked, Grown
  <2>2. (p \in New /\ Ecdsa /\ rnd[p] >= 3) => New \subseteq From({"r2key"}, New, S)
    BY <1>0, <1>3 DEF Tracked, Grown
  <2>3. (p \in Honest \cap New /\ Ecdsa /\ rnd[p] >= 2 /\ PubAfter(p, S) = Unset) =>
            status[p] = "panicked"
    BY <1>0, <1>4, <1>8 DEF Tracked
  <2>5. Keyed(p, pub[p])' <=> Keyed(p, PubAfter(p, S))
    BY <1>1, <1>8, <1>9 DEF Keyed
  <2> QED BY <1>1, <1>4, <1>6, <1>8, <1>9, <1>10, <2>1, <2>2, <2>3, <2>5 DEF Tracked, From
<1>12. Reported(p)'
  BY <1>0, <1>1, <1>6, <1>8, <1>9 DEF Reported
<1>13. ASSUME NEW q \in Party, q # p PROVE Tracked(q)' /\ Reported(q)'
  <2>1. Tracked(q) /\ Reported(q) /\ rnd'[q] = rnd[q] /\ store'[q] = store[q]
        /\ oldOK'[q] = oldOK[q] /\ newOK'[q] = newOK[q] /\ pub'[q] = pub[q]
    BY <1>0, <1>1, <1>2, <1>6, <1>13 DEF RsInv, RsType
  <2> QED BY <1>1, <1>6, <2>1, Bystander
<1> QED BY <1>6, <1>7, <1>11, <1>12, <1>13 DEF RsInv

\* The Update of round 1 refuses the key in slot 0: it names an old member.
LEMMA RsUpdateFail ==
    ASSUME RsInv, NEW p \in Party, NEW m \in calls[p], UpdateFail(p, m)
    PROVE  RsInv'
<1> DEFINE S == Put(store[p], m)
           C == First(Fresh(p, S))
<1>0. RsType /\ Tracked(p) /\ Reported(p)
  BY DEF RsInv
<1>1. /\ protocol' = protocol /\ fault' = fault /\ newXi' = newXi /\ rnd' = rnd /\ newOK' = newOK
      /\ pub' = pub /\ store' = [store EXCEPT ![p] = Put(@, m)]
      /\ calls' = [calls EXCEPT ![p] = @ \ {m}]
  BY DEF UpdateFail
<1>2. /\ oldOK' = [oldOK EXCEPT ![p] = @ \cup C] /\ status' = [status EXCEPT ![p] = "failed"]
      /\ culprits' = [culprits EXCEPT ![p] = @ \cup C] /\ KeyError(p, S)
  BY DEF UpdateFail
<1>3. /\ store' \in [Party -> SUBSET Message] /\ calls' \in [Party -> SUBSET Message]
      /\ store'[p] = S /\ S \in SUBSET Message /\ Grown(store[p], S)
      /\ \A q \in Party \ {p} : store'[q] = store[q]
      /\ RsFaults' /\ RsSent'
      /\ \A j \in New : Acked(j) => Acked(j)'
  BY <1>1, StoreKeeps
<1> HIDE DEF S
<1>4. /\ SlotFault("offcurve") \/ SlotFault("twoKeys")
      /\ pub[p] # Unset \/ SlotFault("offcurve")
      /\ rnd[p] = 1
  BY <1>0, <1>2, <1>3, AfterIs
<1>5. C \subseteq From({"r1"}, Old, S) /\ C # {} /\ C \subseteq Old /\ C \subseteq Party
  <2>1. Fresh(p, S) # {} /\ Fresh(p, S) \subseteq From({"r1"}, Old, S)
    BY <1>2 DEF KeyError, Fresh
  <2>2. From({"r1"}, Old, S) \subseteq Old /\ Old \subseteq Nat /\ Old \subseteq Party
    BY PartyFacts DEF From
  <2> QED BY <2>1, <2>2, FirstIn
<1> HIDE DEF C
<1>6. RsType'
  <2>1. AnnouncedKeys' = AnnouncedKeys
    BY <1>1, Fixed
  <2> QED BY <1>0, <1>1, <1>2, <1>3, <1>5, <2>1 DEF RsType
<1>7. /\ oldOK'[p] = oldOK[p] \cup C /\ culprits'[p] = culprits[p] \cup C /\ status'[p] = "failed"
      /\ rnd'[p] = 1
  BY <1>0, <1>1, <1>2, <1>4 DEF RsType
<1>8. /\ Ecdsa' = Ecdsa /\ Honest' = Honest
      /\ \A k : SlotFault(k)' = SlotFault(k)
      /\ \A j, i : Excused(j, i)' = Excused(j, i)
  BY <1>1, Fixed
<1>9. Tracked(p)'
  <2>1. newOK[p] = New
    BY <1>0, <1>4 DEF Tracked
  <2>2. p \in New \ Old => oldOK[p] \cup C \subseteq From({"r1"}, Old, S)
    BY <1>0, <1>3, <1>4, <1>5 DEF Tracked, Grown
  <2>3. Keyed(p, pub[p])'
    BY <1>1, <1>4, <1>5, <1>7, <1>8 DEF Keyed
  <2> QED BY <1>1, <1>3, <1>7, <2>1, <2>2, <2>3 DEF Tracked, From
<1>10. Reported(p)'
  <2>1. \A q \in C : Excused(p, q)
    BY <1>4, <1>5 DEF Excused
  <2> QED BY <1>0, <1>7, <1>8, <2>1 DEF Reported
<1>11. ASSUME NEW q \in Party, q # p PROVE Tracked(q)' /\ Reported(q)'
  <2>1. Tracked(q) /\ Reported(q) /\ rnd'[q] = rnd[q] /\ store'[q] = store[q]
        /\ oldOK'[q] = oldOK[q] /\ newOK'[q] = newOK[q] /\ pub'[q] = pub[q]
        /\ status'[q] = status[q] /\ culprits'[q] = culprits[q]
    BY <1>0, <1>1, <1>2, <1>3, <1>11 DEF RsInv, RsType
  <2> QED BY <1>1, <1>3, <2>1, Bystander
<1> QED BY <1>3, <1>6, <1>9, <1>10, <1>11 DEF RsInv

\* What holds when p is about to start round r with the slots S.
RunReady(p, r, S, pk) ==
    /\ Grown(store[p], S) /\ \A m \in S : Genuine(m)
    /\ pk \in {Unset} \cup AnnouncedKeys
    /\ pub[p] # Unset => pk # Unset
    /\ (p \in New \ Old /\ r >= 2) => Old \subseteq From({"r1"}, Old, S) /\ Keyed(p, pk)
    /\ (p \in New /\ Ecdsa /\ r >= 3) => New \subseteq From({"r2key"}, New, S)
    /\ (p \in Old /\ r = 3 /\ Old \cap New = {}) => NoBadInput
    /\ (p \in New \ Old /\ r = 4) => Old \subseteq From({"r3share", "r3decommit"}, Old, S)
    /\ r = 5 => \A q \in New : Acked(q)
    /\ (p \in Honest \cap New /\ Ecdsa /\ r >= 3) => pk # Unset

\* If V_0 does not match, an old member re-shares another key than p took.
LEMMA SelfBlame ==
    ASSUME protocol \in Protocols, NEW p \in Honest \cap New, NEW S, NEW pk, RunReady(p, 4, S, pk),
           Vc[0] # pk
    PROVE  Excused(p, p)
<1>1. p \in Old => Ecdsa
  BY ResharingAssumption DEF Ecdsa
<1>2. CASE pk = Unset
  <2>1. p \notin Old
    BY <1>1, <1>2 DEF RunReady
  <2>2. SlotFault("offcurve")
    BY <1>2, <2>1 DEF RunReady, Keyed
  <2> QED BY <2>2 DEF Excused
<1>3. CASE pk # Unset
  <2>1. pk = InputPoly(FirstOld)[0] \/ SlotFault("twoKeys")
    BY <1>3, AnnouncedIs DEF RunReady
  <2>2. ASSUME pk = InputPoly(FirstOld)[0] PROVE \E j \in Old : fault[j][1] = "otherKey"
    <3> SUFFICES ASSUME \A j \in Old : fault[j][1] # "otherKey" PROVE FALSE
      OBVIOUS
    <3>1. \A j \in Old : InputPoly(j) = KeyPoly
      BY DEF InputPoly
    <3>2. Vc[0] = KeyPoly[0]
      BY <3>1, SameKey
    <3> QED BY <2>2, <3>1, <3>2, FirstOldIn
  <2> QED BY <2>1, <2>2 DEF Excused
<1> QED BY <1>2, <1>3

\* Paillier proofs that do not fit were made for another announced key.
LEMMA TwoKeys ==
    ASSUME RsType, NEW p \in New, NEW q \in New, NEW S, \A m \in S : Genuine(m),
           New \subseteq From({"r2key"}, New, S), pub[q] # pub[p]
    PROVE  SlotFault("twoKeys")
<1>1. \A j \in {p, q} : Genuine(<<"r2key", j>>)
  BY DEF From
<1>2. \A j \in {p, q} : pub[j] # Unset /\ pub[j] \in AnnouncedKeys
  BY <1>1, PartyFacts DEF Genuine, RsType
<1> QED BY <1>2, AnnouncedIs

LEMMA RsRun ==
    ASSUME RsInv, NEW p \in Party, NEW r \in 1 .. 5, NEW S \in SUBSET Message, NEW pk,
           NEW M, RunReady(p, r, S, pk), RunRound(p, r, S, pk, M)
    PROVE  RsInv'
<1> DEFINE R == Start(p, r, S, pk)
           sent(q) == {<<t, p>> : t \in {u \in R.send : q \in To(u, p)}}
           over == IF R.res \in {"failed", "panicked"} THEN M ELSE {}
           shares == SumFunction([j \in Old |-> ShareFor(j, p)])
<1>0. RsType /\ RsFaults /\ RsSent
  BY DEF RsInv
<1>1. StartFacts(p, r, S, pk, R)
  BY <1>0, StartIs DEF RsType
<1>2. /\ rnd' = [rnd EXCEPT ![p] = r]
      /\ oldOK' = [oldOK EXCEPT ![p] = R.oldOK]
      /\ newOK' = [newOK EXCEPT ![p] = R.newOK]
      /\ store' = [store EXCEPT ![p] = S \cup {<<t, p>> : t \in R.send}]
      /\ calls' = [q \in Party |-> (calls[q] \ (IF q = p THEN over ELSE {})) \cup sent(q)]
      /\ pub' = [pub EXCEPT ![p] = pk]
      /\ newXi' = [newXi EXCEPT ![p] = IF r = 4 /\ p \in New /\ R.res = "up" THEN shares ELSE @]
      /\ status' = [status EXCEPT ![p] = R.res]
      /\ culprits' = [culprits EXCEPT ![p] = @ \cup R.blame]
      /\ protocol' = protocol /\ fault' = fault
  BY DEF RunRound
<1>3. shares \in Int
  <2> DEFINE f == [j \in Old |-> ShareFor(j, p)]
  <2>1. IntOn(f, Old) /\ DOMAIN f = Old /\ IsFiniteSet(Old)
    BY SharesAre, PartyFacts DEF IntOn
  <2> HIDE DEF f
  <2>2. SumFunction(f) \in Int
    BY <2>1, SumType DEF SumFunction
  <2> QED BY <2>2 DEF f
<1>4. \A q \in Party : sent(q) \subseteq {<<t, p>> : t \in R.send}
  OBVIOUS
<1> HIDE DEF R, sent, over, shares
<1>5. \A t \in R.send : <<t, p>> \in Message
  BY <1>1 DEF StartFacts, Message
<1>6. RsType'
  <2>1. AnnouncedKeys' = AnnouncedKeys
    BY <1>2, Fixed
  <2>2. oldOK' \in [Party -> SUBSET Old] /\ newOK' \in [Party -> SUBSET New]
        /\ rnd' \in [Party -> 0 .. 5] /\ newXi' \in [Party -> Int]
    BY <1>0, <1>1, <1>2, <1>3 DEF RsType, StartFacts
  <2>3. store' \in [Party -> SUBSET Message] /\ calls' \in [Party -> SUBSET Message]
    BY <1>0, <1>2, <1>4, <1>5 DEF RsType
  <2>4. pub' \in [Party -> {Unset} \cup AnnouncedKeys]
    BY <1>0, <1>2 DEF RsType, RunReady
  <2>5. status' \in [Party -> {"idle", "up", "failed", "panicked", "ended"}]
        /\ culprits' \in [Party -> SUBSET Party]
    BY <1>0, <1>1, <1>2 DEF RsType, StartFacts
  <2> QED BY <1>0, <1>2, <2>1, <2>2, <2>3, <2>4, <2>5 DEF RsType
<1>7. shares' = shares
  BY <1>2, Fixed DEF shares
<1>8. \A q \in Party : Acked(q) => Acked(q)'
  <2> SUFFICES ASSUME NEW q \in Party, Acked(q) PROVE Acked(q)'
    OBVIOUS
  <2>1. CASE newXi'[q] = newXi[q]
    BY <1>2, <2>1, AckedFixed
  <2>2. CASE newXi'[q] # newXi[q]
    <3>1. q = p /\ newXi'[q] = shares
      BY <1>0, <1>2, <2>2 DEF RsType
    <3>2. newXi[q] = shares
      BY <3>1 DEF Acked, shares
    <3> QED BY <2>2, <3>1, <3>2
  <2> QED BY <2>1, <2>2
<1>9. RsFaults'
  BY <1>0, <1>2, Fixed DEF RsFaults
<1>9a. \A q \in Party : pub[q] # Unset => pub'[q] # Unset
  BY <1>0, <1>2 DEF RsType, RunReady
<1>10. \A q \in Party : \A m \in store[q] \cup calls[q] \cup S : m \in Message /\ Genuine(m)
  BY <1>0 DEF RsType, RsSent, RunReady
<1>11. \A q \in Party : \A m \in store[q] \cup calls[q] \cup S : Genuine(m)'
  <2> SUFFICES ASSUME NEW q \in Party, NEW m \in store[q] \cup calls[q] \cup S PROVE Genuine(m)'
    OBVIOUS
  <2>1. Genuine(m) /\ m[2] \in Party
    BY <1>10, MessageIs
  <2>2. Acked(m[2]) => Acked(m[2])'
    BY <1>8, <2>1
  <2> QED BY <1>2, <1>9a, <2>1, <2>2, GenuineKept
<1>12. ASSUME "r4" \in R.send PROVE Acked(p)'
  <2>1. r = 4 /\ p \in New /\ R.res = "up" /\ ShareCulprit(p) = {} /\ Vc[0] = pk
    BY <1>1, <1>12 DEF StartFacts
  <2>2. pk \in AnnouncedKeys
    BY <2>1, VcType, AnnouncedIs DEF RunReady
  <2>3. newXi'[p] = shares
    BY <1>0, <1>2, <2>1 DEF RsType
  <2> QED BY <1>2, <1>7, <2>1, <2>2, <2>3, Fixed DEF Acked, shares
<1>13. ASSUME "r2ack" \in R.send, p \notin Old PROVE NoBadInput
  <2>1. r = 2 /\ p \in New \ Old
    BY <1>1, <1>13 DEF StartFacts
  <2>2. \A j \in Old : <<"r1", j>> \in S
    <3>1. Old \subseteq From({"r1"}, Old, S)
      BY <2>1 DEF RunReady
    <3> QED BY <3>1 DEF From
  <2>3. \A j \in Old : Genuine(<<"r1", j>>)
    BY <2>2 DEF RunReady
  <2> QED BY <2>3 DEF Genuine, NoBadInput
<1>14. \A t \in R.send : Genuine(<<t, p>>)'
  <2> SUFFICES ASSUME NEW t \in R.send PROVE Genuine(<<t, p>>)'
    OBVIOUS
  <2>1. (t = "r1" \/ t = "r1again") => fault[p][1] # "input"
    BY <1>1 DEF StartFacts
  <2>1a. t = "r2key" => pub'[p] # Unset
    BY <1>0, <1>1, <1>2 DEF StartFacts, RsType
  <2>2. (t = "r2ack" /\ p \notin Old) => NoBadInput'
    BY <1>2, <1>13, Fixed
  <2>3. t = "r4" => Acked(p)'
    BY <1>12
  <2> QED BY <1>2, <2>1, <2>1a, <2>2, <2>3 DEF Genuine
<1>15. RsSent'
  <2> SUFFICES ASSUME NEW q \in Party, NEW m \in store'[q] \cup calls'[q] PROVE Genuine(m)'
    BY DEF RsSent
  <2>1. m \in store[q] \cup calls[q] \cup S \/ \E t \in R.send : m = <<t, p>>
    BY <1>0, <1>2, <1>4 DEF RsType
  <2> QED BY <1>11, <1>14, <2>1
<1>16. \A j \in New : Acked(j) => Acked(j)'
  BY <1>8, PartyFacts
<1>17. ASSUME NEW q \in Party, q # p PROVE Tracked(q)' /\ Reported(q)'
  <2>1. Tracked(q) /\ Reported(q) /\ rnd'[q] = rnd[q] /\ store'[q] = store[q]
        /\ oldOK'[q] = oldOK[q] /\ newOK'[q] = newOK[q] /\ pub'[q] = pub[q]
        /\ status'[q] = status[q] /\ culprits'[q] = culprits[q]
    BY <1>0, <1>2, <1>17 DEF RsInv, RsType
  <2> QED BY <1>2, <1>16, <2>1, Bystander
<1>18. /\ rnd'[p] = r /\ oldOK'[p] = R.oldOK /\ newOK'[p] = R.newOK /\ pub'[p] = pk
       /\ S \subseteq store'[p] /\ status'[p] = R.res /\ culprits'[p] = culprits[p] \cup R.blame
       /\ culprits[p] \in SUBSET Party
  BY <1>0, <1>2 DEF RsType
<1>19. /\ Ecdsa' = Ecdsa /\ Vc' = Vc /\ NoBadInput' = NoBadInput /\ Honest' = Honest
       /\ \A k : SlotFault(k)' = SlotFault(k)
       /\ \A j, i : Excused(j, i)' = Excused(j, i)
  BY <1>2, Fixed
<1>20. (p \in Old /\ p \in New) => Ecdsa
  BY <1>0, ResharingAssumption DEF Ecdsa, RsType
<1>21. Tracked(p)'
  <2>1. Grown(S, store'[p])
    BY <1>18, FromGrows
  <2>2. r = 1 => R.newOK = New
    BY <1>1 DEF StartFacts
  <2>3. (p \in New \ Old /\ r = 1) => R.oldOK = {} /\ R.oldOK # Old
    BY <1>1, PartyFacts DEF StartFacts
  <2>3a. Keyed(p, pk) => Keyed(p, pub[p])'
    BY <1>18, <1>19 DEF Keyed
  <2>4. (p \in New \ Old /\ r >= 2) =>
            Old \subseteq From({"r1"}, Old, store'[p]) /\ Keyed(p, pub[p])'
    BY <2>1, <2>3a DEF RunReady, Grown
  <2>5. (r = 2 /\ (p \in Old \/ Ecdsa)) => R.newOK = {}
    BY <1>1 DEF StartFacts
  <2>6. (p \in New /\ Ecdsa /\ r >= 3) => New \subseteq From({"r2key"}, New, store'[p])
    BY <2>1 DEF RunReady, Grown
  <2>7. (p \in New \ Old /\ r = 3) => R.oldOK = {}
    BY <1>1 DEF StartFacts
  <2>8. r = 4 => R.newOK = {}
    BY <1>1 DEF StartFacts
  <2>9. (p \in Honest \cap New /\ Ecdsa /\ r >= 2 /\ pk = Unset) => R.res = "panicked"
    BY <1>1 DEF StartFacts, RunReady
  <2> QED BY <1>18, <1>19, <2>2, <2>3, <2>4, <2>5, <2>6, <2>7, <2>8, <2>9 DEF Tracked, From
<1>22. Reported(p)'
  <2>1. R.res = "ended" => \A q \in New : Acked(q)'
    BY <1>1, <1>16 DEF StartFacts, RunReady
  <2>2. ASSUME Old \cap New = {}, R.res = "panicked"
        PROVE  Ecdsa /\ p \in New /\ culprits[p] # {} /\ SlotFault("offcurve")
    BY <1>1, <2>2 DEF StartFacts, RunReady, Keyed
  <2>3. ASSUME p \in Honest, NEW q \in R.blame \cap Honest PROVE Excused(p, q)
    <3>1. CASE q = p /\ p \in New /\ r = 4 /\ Vc[0] # pk
      BY <1>0, <2>3, <3>1, SelfBlame DEF RsType
    <3>2. CASE \E i \in New : i < q /\ Params(i) = q
      BY <3>2 DEF Excused
    <3>3. CASE /\ p \in New /\ q \in New /\ pub[q] # pub[p]
               /\ New \subseteq From({"r2key"}, New, S)
      <4>1. \A m \in S : Genuine(m)
        BY DEF RunReady
      <4>2. SlotFault("twoKeys")
        BY <1>0, <3>3, <4>1, TwoKeys
      <4> QED BY <4>2 DEF Excused
    <3> QED BY <1>1, <2>3, <3>1, <3>2, <3>3 DEF StartFacts
  <2>4. p \in Honest => \A q \in (culprits[p] \cup R.blame) \cap Honest : Excused(p, q)
    <3>1. Reported(p)
      BY DEF RsInv
    <3> QED BY <2>3, <3>1 DEF Reported
  <2> QED BY <1>18, <1>19, <2>1, <2>2, <2>4 DEF Reported
<1> QED BY <1>6, <1>9, <1>15, <1>17, <1>21, <1>22 DEF RsInv

LEMMA RsInit == Init => RsInv
<1> SUFFICES ASSUME Init PROVE RsInv
  OBVIOUS
<1>1. RsFaults
  <2>1. PICK f \in [Faulty -> UNION {Fault(p) : p \in Faulty}] :
            fault = [p \in Party |-> IF p \in Faulty THEN f[p] ELSE <<"none", p>>]
    BY DEF Init
  <2> QED BY <2>1 DEF RsFaults, Honest
<1>2. RsType
  <2>1. Unset \in Int
    BY QAssumption DEF Unset
  <2> QED BY <2>1 DEF Init, RsType
<1>3. RsSent
  BY DEF Init, RsSent
<1>4. ASSUME NEW p \in Party PROVE Tracked(p) /\ Reported(p)
  <2>1. rnd[p] = 0 /\ status[p] = "idle" /\ culprits[p] = {}
    BY DEF Init
  <2> QED BY <2>1 DEF Tracked, Reported
<1> QED BY <1>1, <1>2, <1>3, <1>4 DEF RsInv

LEMMA RsBaseStart == ASSUME RsInv, NEW p \in Party, BaseStart(p) PROVE RsInv'
<1>1. /\ RsType /\ RunRound(p, 1, store[p], pub[p], {})
  BY DEF BaseStart, RsInv
<1>2. store[p] \in SUBSET Message /\ pub[p] \in {Unset} \cup AnnouncedKeys
  BY <1>1 DEF RsType
<1>3. \A m \in store[p] : Genuine(m)
  BY DEF RsInv, RsSent
<1>4. Grown(store[p], store[p])
  BY FromGrows
<1>5. RunReady(p, 1, store[p], pub[p])
  BY <1>2, <1>3, <1>4 DEF RunReady
<1> QED BY <1>1, <1>2, <1>5, RsRun

LEMMA RsUpdateAdvance ==
    ASSUME RsInv, NEW p \in Party, NEW m \in calls[p], UpdateAdvance(p, m) PROVE RsInv'
<1> DEFINE S == Put(store[p], m)
           r == rnd[p] + 1
           pk == PubAfter(p, S)
<1>0. RsType /\ Tracked(p) /\ Reported(p)
  BY DEF RsInv
<1>1. /\ rnd[p] \in 1 .. 4 /\ CanProceed(p, S) /\ RunRound(p, r, S, pk, {m})
      /\ status[p] # "panicked" /\ ~KeyError(p, S)
  BY DEF UpdateAdvance, Ready
<1>2. /\ S \in SUBSET Message /\ Grown(store[p], S)
      /\ \A x \in S : x \in store[p] \/ x = m \/ (m[1] = "r1again" /\ x = <<"r1", m[2]>>)
  <2>1. store[p] \in SUBSET Message /\ m \in Message
    BY <1>0 DEF RsType
  <2> QED BY <2>1, PutIs
<1> HIDE DEF S
<1>3. ASSUME NEW x \in S PROVE Genuine(x)
  <2>1. Genuine(m) /\ (x \in store[p] => Genuine(x))
    BY DEF RsInv, RsSent
  <2>2. (m[1] = "r1again" /\ x = <<"r1", m[2]>>) => Genuine(x)
    BY <2>1 DEF Genuine
  <2> QED BY <1>2, <2>1, <2>2
<1>4. OldAfter(p, S) = Old /\ NewAfter(p, S) = New
  BY <1>1 DEF CanProceed
<1>6. /\ PubAfter(p, S) \in {Unset} \cup AnnouncedKeys
      /\ pub[p] # Unset => PubAfter(p, S) # Unset
      /\ rnd[p] # 1 => PubAfter(p, S) = pub[p]
      /\ (p \in New \ Old /\ rnd[p] = 1) =>
            OldAfter(p, S) \subseteq From({"r1"}, Old, S) /\ Keyed(p, PubAfter(p, S))
      /\ (p \in New /\ Ecdsa /\ rnd[p] = 2) => NewAfter(p, S) \subseteq From({"r2key"}, New, S)
      /\ (p \in Old /\ rnd[p] = 2) => NewAfter(p, S) \subseteq From({"r2ack"}, New, S)
      /\ (p \in New \ Old /\ rnd[p] = 3) =>
            OldAfter(p, S) \subseteq From({"r3share", "r3decommit"}, Old, S)
      /\ rnd[p] = 4 => NewAfter(p, S) \subseteq From({"r4"}, New, S)
  BY <1>0, <1>1, <1>2, <1>4, AfterIs
<1>8. r \in 1 .. 5 /\ r = rnd[p] + 1
  BY <1>1
<1>9. RunReady(p, r, S, pk)
  <2>1. (p \in New \ Old /\ r >= 2) => Old \subseteq From({"r1"}, Old, S) /\ Keyed(p, pk)
    <3>1. CASE rnd[p] = 1
      BY <1>4, <1>6, <3>1
    <3>2. CASE rnd[p] >= 2
      BY <1>0, <1>2, <1>6, <3>2 DEF Tracked, Grown
    <3> QED BY <1>1, <3>1, <3>2
  <2>2. (p \in New /\ Ecdsa /\ r >= 3) => New \subseteq From({"r2key"}, New, S)
    <3>1. CASE rnd[p] = 2
      BY <1>4, <1>6, <3>1
    <3>2. CASE rnd[p] >= 3
      BY <1>0, <1>2, <3>2 DEF Tracked, Grown
    <3> QED BY <1>1, <3>1, <3>2
  <2>3. (p \in Old /\ r = 3 /\ Old \cap New = {}) => NoBadInput
    <3> SUFFICES ASSUME p \in Old, r = 3, Old \cap New = {} PROVE NoBadInput
      OBVIOUS
    <3>1. PICK j \in New : j \notin Old
      BY PartyFacts
    <3>2. rnd[p] = 2
      BY <1>1
    <3>3. New \subseteq From({"r2ack"}, New, S)
      BY <1>4, <1>6, <3>2
    <3>4. <<"r2ack", j>> \in S
      BY <3>3 DEF From
    <3>5. Genuine(<<"r2ack", j>>)
      BY <1>3, <3>4
    <3> QED BY <3>1, <3>5 DEF Genuine
  <2>4. (p \in New \ Old /\ r = 4) => Old \subseteq From({"r3share", "r3decommit"}, Old, S)
    BY <1>1, <1>4, <1>6
  <2>5. r = 5 => \A q \in New : Acked(q)
    <3> SUFFICES ASSUME r = 5, NEW q \in New PROVE Acked(q)
      OBVIOUS
    <3>1. New \subseteq From({"r4"}, New, S)
      BY <1>1, <1>4, <1>6
    <3>2. <<"r4", q>> \in S
      BY <3>1 DEF From
    <3>3. Genuine(<<"r4", q>>)
      BY <1>3, <3>2
    <3> QED BY <3>3 DEF Genuine
  <2>6. (p \in Honest \cap New /\ Ecdsa /\ r >= 3) => pk # Unset
    BY <1>0, <1>1, <1>6 DEF Tracked
  <2> QED BY <1>2, <1>3, <1>6, <2>1, <2>2, <2>3, <2>4, <2>5, <2>6 DEF RunReady
<1> HIDE DEF r, pk
<1> QED BY <1>1, <1>2, <1>8, <1>9, RsRun

LEMMA RsNext == RsInv /\ [Next]_vars => RsInv'
<1> SUFFICES ASSUME RsInv, [Next]_vars PROVE RsInv'
  OBVIOUS
<1>1. CASE UNCHANGED vars
  <2>1. protocol' = protocol /\ fault' = fault /\ newXi' = newXi
    BY <1>1 DEF vars
  <2>2. \A j : Acked(j) => Acked(j)'
    BY <2>1, AckedFixed
  <2>3. AnnouncedKeys' = AnnouncedKeys /\ Honest' = Honest
    BY <2>1, Fixed
  <2>4. RsType' /\ RsFaults'
    BY <1>1, <2>3 DEF RsInv, RsType, RsFaults, vars
  <2>5. RsSent'
    <3> SUFFICES ASSUME NEW q \in Party, NEW x \in store'[q] \cup calls'[q] PROVE Genuine(x)'
      BY DEF RsSent
    <3>1. Genuine(x) /\ pub' = pub
      BY <1>1 DEF RsInv, RsSent, vars
    <3> QED BY <2>1, <2>2, <3>1, GenuineKept
  <2>6. ASSUME NEW p \in Party PROVE Tracked(p)' /\ Reported(p)'
    <3>1. Tracked(p) /\ Reported(p)
      BY DEF RsInv
    <3>2. /\ rnd'[p] = rnd[p] /\ oldOK'[p] = oldOK[p] /\ newOK'[p] = newOK[p]
          /\ store'[p] = store[p] /\ pub'[p] = pub[p] /\ status'[p] = status[p]
          /\ culprits'[p] = culprits[p]
      BY <1>1 DEF vars
    <3> QED BY <2>1, <2>2, <3>1, <3>2, Bystander
  <2> QED BY <2>4, <2>5, <2>6 DEF RsInv
<1>2. ASSUME NEW p \in Party, BaseStart(p) PROVE RsInv'
  BY <1>2, RsBaseStart
<1>3. ASSUME NEW p \in Party, NEW m \in calls[p], BaseUpdate(p, m) PROVE RsInv'
  BY <1>3, RsUpdateStore, RsUpdateWait, RsUpdateFail, RsUpdateAdvance
     DEF BaseUpdate
<1> QED BY <1>1, <1>2, <1>3 DEF Next

\* Every reachable state satisfies the invariant: the trackers of the two
\* committees only count messages that are in their slots, a new member without a
\* public key has refused one, an acknowledgement of round 4 stands for a verified
\* share, and a party is blamed for a reason.
THEOREM ResharingInvariant == Spec => []RsInv
BY RsInit, RsNext, PTL DEF Spec

\* When a party has ended, every new member holds a verified share, and any
\* NewT+1 of them recover one key, which the old member in slot 0 announced,
\* whoever is faulty (rounds 4 and 5).
Shared == (\E p \in Party : status[p] = "ended") => Recovered(Vc[0]) /\ Vc[0] \in AnnouncedKeys

THEOREM ResharingEndMeansShared == Spec => []Shared
<1>1. RsInv => Shared
  <2> SUFFICES ASSUME RsInv, NEW p \in Party, status[p] = "ended"
               PROVE  Recovered(Vc[0]) /\ Vc[0] \in AnnouncedKeys
    BY DEF Shared
  <2>1. \A q \in New : Acked(q)
    BY DEF RsInv, Reported
  <2> QED BY <2>1, AckedRecover
<1> QED BY <1>1, ResharingInvariant, PTL

\* Nobody finishes before the key of the old committee has moved, if a mixture of
\* two keys does not come out as the other one (the check of V_0 in round 4).
THEOREM ResharingEndMeansMoved == ASSUME OtherKeyIsSeen PROVE Spec => []EndMeansMoved
<1>1. RsInv => EndMeansMoved
  <2> SUFFICES ASSUME RsInv, NEW p \in Party, status[p] = "ended" PROVE Moved
    BY DEF EndMeansMoved
  <2>1. \A q \in New : Acked(q)
    BY DEF RsInv, Reported
  <2>2. Recovered(Vc[0]) /\ Vc[0] \in AnnouncedKeys
    BY <2>1, AckedRecover
  <2>3. ASSUME Vc[0] # KeyPoly[0] PROVE FALSE
    <3> DEFINE J == {j \in Old : fault[j][1] = "otherKey"}
               x(j) == evaluatePolynomial(OldT, IF j \in J THEN OtherPoly ELSE KeyPoly, Keys[j])
    <3>1. Vc[0] = OtherPoly[0] /\ fault[FirstOld][1] # "none"
      BY <2>2, <2>3, AnnouncedIs DEF InputPoly
    <3>2. \A j \in Party : fault[j][1] # "none" => j \in Faulty
      BY DEF RsInv, RsFaults, Honest
    <3>3. J \subseteq Old \cap Faulty /\ First(Old) \subseteq Faulty
      BY <3>1, <3>2, PartyFacts, AnnouncedIs, FirstOldIn
    <3>4. \A j \in Old : VssPoly(j)[0] = SigningWeight(j, Old, Keys, x(j))
      <4>1. \A j \in Old : InputPoly(j) = IF j \in J THEN OtherPoly ELSE KeyPoly
        BY DEF InputPoly
      <4> QED BY <4>1, VssPolyType
    <3>5. [j \in Old |-> VssPoly(j)[0]] = [j \in Old |-> SigningWeight(j, Old, Keys, x(j))]
      BY <3>4
    <3>6. Vc[0] = SumQ([j \in Old |-> VssPoly(j)[0]])
      BY PartyFacts DEF Vc
    <3>7. Vc[0] = MixedKey(J)
      BY <3>5, <3>6 DEF MixedKey
    <3> HIDE DEF J
    <3>8. MixedKey(J) # OtherPoly[0]
      BY <3>3 DEF OtherKeyIsSeen
    <3> QED BY <3>1, <3>7, <3>8
  <2> QED BY <2>2, <2>3 DEF Recovered, Moved
<1> QED BY <1>1, ResharingInvariant, PTL

\* If no party is in both committees, no Start reads a slot that is empty, and one
\* reads a public key that is not there only after the party refused the one of
\* slot 0.  (With an overlap round 2 does: run ecdsa_resharing_overlap.)
THEOREM ResharingPanicAfterError ==
    ASSUME Old \cap New = {} PROVE Spec => []PanicAfterError
<1>1. RsInv => PanicAfterError
  BY DEF RsInv, Reported, PanicAfterError
<1> QED BY <1>1, ResharingInvariant, PTL

\* An honest party blames a faulty one, but for a bad key in slot 0, an old member
\* that re-shares another key, and copied parameters (rounds 1, 2 and 4).
THEOREM ResharingBlameIsJust == Spec => []BlameIsJust
<1>1. RsInv => BlameIsJust
  <2>1. Honest \subseteq Party
    BY DEF Honest
  <2> QED BY <2>1 DEF RsInv, Reported, BlameIsJust, Excused
<1> QED BY <1>1, ResharingInvariant, PTL
=============================================================================
