--------------------------- MODULE TssPartyProofs ---------------------------
(***************************************************************************)
(* Proofs about the round engine, for every number of parties and every    *)
(* protocol table that satisfies the assumptions of TssParty.              *)
(***************************************************************************)
EXTENDS TssParty, RoundTables, TLAPS

-----------------------------------------------------------------------------
(* Facts about the slots.                                                  *)

\* The messages built from a type and a sender are messages.
LEMMA MsgType == \A t \in Type, q \in Party : Msg(t, q) \in Message
BY DEF Msg, Message

\* Storing a message keeps the store a set of messages.
LEMMA StoreType ==
    ASSUME NEW S \in SUBSET Message, NEW m \in Message
    PROVE  StoreMessage(S, m) \in SUBSET Message
BY DEF StoreMessage

\* A filled slot stays filled: StoreMessage replaces a message, never drops it.
LEMMA StoreKeeps ==
    ASSUME NEW S, NEW m, NEW t, NEW q, Filled(S, t, q)
    PROVE  Filled(StoreMessage(S, m), t, q)
BY DEF Filled, StoreMessage

\* What a round sends and stores are messages.
LEMMA SentType ==
    ASSUME NEW p \in Party, NEW r \in Round
    PROVE  Sent(p, r) \in SUBSET Message /\ Own(p, r) \in SUBSET Message
BY MsgType, NeedsAssumption DEF Sent, Own

\* Round.Update leaves a set of parties in ok.
LEMMA UpdateType ==
    ASSUME NEW r, NEW S, NEW K \in SUBSET Party
    PROVE  RoundUpdate(r, S, K) \in SUBSET Party
BY DEF RoundUpdate, Arrived

\* The rounds are natural numbers with a first and a last one.
LEMMA RoundFacts ==
    /\ Last \in Nat /\ 1 \in Round /\ Last \in Round
    /\ \A r \in Round : r \in Nat /\ r \in 0 .. Last /\ r # 0
    /\ \A r \in Round \ {Last} : r + 1 \in Round
BY SizeAssumption DEF Round

-----------------------------------------------------------------------------
(* Type correctness.                                                       *)

\* The Start of a round keeps the types.
LEMMA RunRoundType ==
    ASSUME TypeOK, NEW p \in Party, NEW r \in Round, NEW o \in Outcome,
           NEW S \in SUBSET Message, NEW C \in SUBSET Message,
           RunRound(p, r, o, S, C)
    PROVE  /\ rnd' \in [Party -> 0 .. Last]
           /\ started' \in [Party -> BOOLEAN]
           /\ ok' \in [Party -> SUBSET Party]
           /\ store' \in [Party -> SUBSET Message]
           /\ calls' \in [Party -> SUBSET Message]
           /\ emitted' \in [Party -> SUBSET Round]
           /\ failed' \in [Party -> 0 .. Last]
           /\ ended' \in [Party -> Nat]
<1>0. r \in 0 .. Last
  BY RoundFacts
<1>1. /\ rnd' \in [Party -> 0 .. Last]
      /\ emitted' \in [Party -> SUBSET Round]
      /\ failed' \in [Party -> 0 .. Last]
      /\ ended' \in [Party -> Nat]
  BY <1>0 DEF RunRound, TypeOK
<1>2. /\ started' \in [Party -> BOOLEAN]
      /\ ok' \in [Party -> SUBSET Party]
  BY DEF RunRound, TypeOK, Outcome
<1>3. /\ store' \in [Party -> SUBSET Message]
      /\ calls' \in [Party -> SUBSET Message]
  BY SentType DEF RunRound, TypeOK
<1> QED
  BY <1>1, <1>2, <1>3

\* TypeOK is inductive.
LEMMA TypeStep == TypeOK /\ [Next]_vars => TypeOK'
<1> SUFFICES ASSUME TypeOK, [Next]_vars PROVE TypeOK'
  OBVIOUS
<1> USE RoundFacts
<1>1. ASSUME NEW p \in Party, Start(p) PROVE TypeOK'
  <2>1. PICK o \in Outcomes[p][1] : BaseStart(p, o)
    BY <1>1 DEF Start
  <2>2. o \in Outcome
    BY OutcomesAssumption
  <2>3. starts' \in [Party -> 0 .. MaxStarts]
    BY <2>1, SizeAssumption DEF BaseStart, TypeOK
  <2>4. RunRound(p, 1, o, store[p], calls[p])
    BY <2>1 DEF BaseStart
  <2>5. store[p] \in SUBSET Message /\ calls[p] \in SUBSET Message
    BY DEF TypeOK
  <2> QED
    BY <2>2, <2>3, <2>4, <2>5, RunRoundType DEF TypeOK
<1>2. ASSUME NEW p \in Party, NEW m \in calls[p], BaseUpdate(p, m) PROVE TypeOK'
  <2>0. /\ m \in Message
        /\ store[p] \in SUBSET Message /\ calls[p] \in SUBSET Message
        /\ StoreMessage(store[p], m) \in SUBSET Message
    BY StoreType DEF TypeOK
  <2>1. CASE UpdateStore(p, m)
    BY <2>0, <2>1 DEF UpdateStore, TypeOK
  <2>2. CASE UpdateWait(p, m)
    BY <2>0, <2>2, UpdateType DEF UpdateWait, TypeOK
  <2>3. ASSUME rnd[p] \in Round \ {Last},
               NEW o \in Outcomes[p][rnd[p] + 1], UpdateAdvance(p, m, o)
        PROVE  TypeOK'
    <3>2. rnd[p] + 1 \in Round
      BY <2>3
    <3>1. o \in Outcome
      <4>1. Outcomes[p] \in [Round -> SUBSET Outcome]
        BY OutcomesAssumption
      <4> QED
        BY <4>1, <3>2
    <3>3. RunRound(p, rnd[p] + 1, o, StoreMessage(store[p], m),
                   IF o.good THEN calls[p] ELSE calls[p] \ {m})
      BY <2>3 DEF UpdateAdvance
    <3>4. starts' = starts
      BY <2>3 DEF UpdateAdvance
    <3>5. (IF o.good THEN calls[p] ELSE calls[p] \ {m}) \in SUBSET Message
      BY <2>0
    <3> QED
      BY <2>0, <3>1, <3>2, <3>3, <3>4, <3>5, RunRoundType DEF TypeOK
  <2>4. CASE UpdateFinish(p, m)
    BY <2>0, <2>4, UpdateType DEF UpdateFinish, TypeOK
  <2> QED
    BY <1>2, <2>1, <2>2, <2>3, <2>4 DEF BaseUpdate
<1>3. ASSUME NEW p \in Party, NEW m \in store[p], Replay(p, m) PROVE TypeOK'
  BY <1>3 DEF Replay, TypeOK
<1>4. ASSUME NEW p \in Party, NEW m \in calls[p], Misflag(p, m) PROVE TypeOK'
  <2>1. WrongFlag(m.type, m.from) \in Message
    BY DEF TypeOK, Message, WrongFlag
  <2> QED
    BY <1>4, <2>1 DEF Misflag, TypeOK
<1>5. CASE UNCHANGED vars
  BY <1>5 DEF vars, TypeOK
<1> QED
  BY <1>1, <1>2, <1>3, <1>4, <1>5 DEF Next

\* The initial state is well typed.
LEMMA TypeInit == Init => TypeOK
BY SizeAssumption DEF Init, TypeOK

\* Every reachable state of the engine is well typed.
THEOREM TypeCorrect == Spec => []TypeOK
BY TypeInit, TypeStep, PTL DEF Spec

-----------------------------------------------------------------------------
(***************************************************************************)
(* The inductive invariant.  LockStep alone is not inductive: a party      *)
(* advances because of its `ok`, so ok must say that the slots are filled, *)
(* and a filled slot that its sender completed the round it belongs to.    *)
(***************************************************************************)

\* The sender of m completed the round that m belongs to.
Genuine(m) == \E r \in Round : m.type \in Needs[r] /\ r \in emitted[m.from]

\* Every message under way or stored was sent, and nobody gets its own.
MessagesGenuine ==
    \A p \in Party :
        /\ \A m \in store[p] : Genuine(m)
        /\ \A m \in calls[p] : Genuine(m) /\ m.from # p

\* ok[q] of a party in round r means that q's messages of round r are stored.
OkMeansFilled ==
    \A p, q \in Party :
        (q \in ok[p] /\ rnd[p] \in Round \ {Last} /\ (q # p \/ rnd[p] \notin SelfOk)) =>
            \A t \in Needs[rnd[p]] : Filled(store[p], t, q)

Inv == TypeOK /\ MessagesGenuine /\ OkMeansFilled /\ LockStep /\ ReadsAvailable

\* A filled slot of round r tells that its sender completed round r.
LEMMA FilledGenuine ==
    ASSUME TypeOK, NEW S, NEW q \in Party, NEW r \in Round, NEW t \in Needs[r],
           \A m \in S : Genuine(m), Filled(S, t, q)
    PROVE  r \in emitted[q]
<1>1. PICK m \in S : m.type = t /\ m.from = q
  BY DEF Filled
<1>2. PICK s \in Round : m.type \in Needs[s] /\ s \in emitted[m.from]
  BY <1>1 DEF Genuine
<1>3. s = r
  BY <1>1, <1>2, NeedsAssumption
<1> QED
  BY <1>1, <1>2, <1>3

\* After a pass of Round.Update, ok still means that the slots are filled.
LEMMA UpdateMeansFilled ==
    ASSUME Inv, NEW p \in Party, NEW m \in calls[p],
           rnd[p] \in Round \ {Last}, NEW q \in Party,
           q \in RoundUpdate(rnd[p], StoreMessage(store[p], m), ok[p]),
           q # p \/ rnd[p] \notin SelfOk, NEW t \in Needs[rnd[p]]
    PROVE  Filled(StoreMessage(store[p], m), t, q)
<1>1. CASE q \in ok[p]
  <2>1. Filled(store[p], t, q)
    BY <1>1 DEF Inv, OkMeansFilled
  <2> QED
    BY <2>1, StoreKeeps
<1>2. CASE q \in Arrived(rnd[p], StoreMessage(store[p], m))
  <2>1. Msg(t, q) \in StoreMessage(store[p], m)
    BY <1>2 DEF Arrived
  <2> QED
    BY <2>1 DEF Filled, Msg
<1> QED
  BY <1>1, <1>2 DEF RoundUpdate

\* A party that may advance has every other party's messages of its round, and
\* every other party completed that round; so did it, unless it set its own ok.
LEMMA AdvanceFacts ==
    ASSUME Inv, NEW p \in Party, NEW m \in calls[p],
           rnd[p] \in Round \ {Last},
           RoundUpdate(rnd[p], StoreMessage(store[p], m), ok[p]) = Party
    PROVE  /\ \A q \in Party : q # p =>
                  /\ rnd[p] \in emitted[q]
                  /\ \A t \in Needs[rnd[p]] : Filled(StoreMessage(store[p], m), t, q)
           /\ rnd[p] \in emitted[p] \cup SelfOk
<1>1. ASSUME NEW q \in Party, q # p \/ rnd[p] \notin SelfOk
      PROVE  /\ rnd[p] \in emitted[q]
             /\ \A t \in Needs[rnd[p]] : Filled(StoreMessage(store[p], m), t, q)
  <2>1. \A t \in Needs[rnd[p]] : Filled(StoreMessage(store[p], m), t, q)
    BY <1>1, UpdateMeansFilled
  <2>2. PICK t \in Needs[rnd[p]] : TRUE
    BY NeedsAssumption
  <2>3. \A x \in StoreMessage(store[p], m) : Genuine(x)
    BY DEF StoreMessage, Inv, MessagesGenuine
  <2>4. rnd[p] \in emitted[q]
    BY <2>1, <2>2, <2>3, FilledGenuine DEF Inv
  <2> QED
    BY <2>1, <2>4
<1> QED
  BY <1>1

-----------------------------------------------------------------------------
(* The invariant is inductive.                                             *)

\* The messages a round sends are genuine once its Start returned.
LEMMA SentGenuine ==
    ASSUME NEW p \in Party, NEW r \in Round, r \in emitted'[p]
    PROVE  \A m \in Sent(p, r) \cup Own(p, r) : Genuine(m)' /\ m.from = p
BY DEF Sent, Own, Msg, Genuine

\* Running a round keeps the invariant, if every other party completed every
\* earlier round and its messages of those rounds are stored.
LEMMA RunRoundInv ==
    ASSUME Inv, NEW p \in Party, NEW r \in Round, NEW o \in Outcomes[p][r],
           NEW S \in SUBSET Message, NEW C \in SUBSET calls[p],
           \A m \in S : Genuine(m),
           \A q \in Party : q # p => \A s \in Round : s < r =>
               s \in emitted[q] /\ \A t \in Needs[s] : Filled(S, t, q),
           RunRound(p, r, o, S, C)
    PROVE  MessagesGenuine' /\ OkMeansFilled' /\ LockStep' /\ ReadsAvailable'
<1> USE RoundFacts
<1>o. o \in Outcome
  <2>1. Outcomes[p] \in [Round -> SUBSET Outcome]
    BY OutcomesAssumption
  <2> QED
    BY <2>1
<1>t. TypeOK
  BY DEF Inv
<1>e. /\ \A q \in Party : emitted[q] \subseteq emitted'[q]
      /\ \A q \in Party : q # p => emitted'[q] = emitted[q]
      /\ emitted'[p] \subseteq emitted[p] \cup {r}
      /\ o.good => r \in emitted'[p]
  BY <1>t DEF RunRound, TypeOK
<1>g. \A m \in Message : Genuine(m) => Genuine(m)'
  BY <1>e DEF Genuine, Message
<1>s. /\ \A q \in Party : q # p => store'[q] = store[q] /\ rnd'[q] = rnd[q] /\ ok'[q] = ok[q]
      /\ store'[p] = IF o.good THEN S \cup Own(p, r) ELSE S
      /\ calls'[p] = C
      /\ \A q \in Party : q # p =>
            calls'[q] = IF o.good THEN calls[q] \cup Sent(p, r) ELSE calls[q]
      /\ rnd'[p] = r /\ ok'[p] = o.ok
  BY <1>t DEF RunRound, TypeOK
<1>1. MessagesGenuine'
  <2>1. ASSUME NEW q \in Party, NEW m \in store'[q] PROVE Genuine(m)'
    <3>1. CASE q # p
      BY <1>g, <1>s, <1>t, <2>1, <3>1 DEF Inv, MessagesGenuine, TypeOK
    <3>2. CASE q = p /\ m \in S
      BY <1>g, <3>2
    <3>3. CASE q = p /\ o.good /\ m \in Own(p, r)
      BY <1>e, <3>3, SentGenuine
    <3> QED
      BY <1>s, <2>1, <3>1, <3>2, <3>3
  <2>2. ASSUME NEW q \in Party, NEW m \in calls'[q] PROVE Genuine(m)' /\ m.from # q
    <3>1. CASE m \in calls[q]
      BY <1>g, <1>t, <3>1 DEF Inv, MessagesGenuine, TypeOK
    <3>2. CASE q # p /\ o.good /\ m \in Sent(p, r)
      BY <1>e, <3>2, SentGenuine
    <3> QED
      BY <1>s, <2>2, <3>1, <3>2
  <2> QED
    BY <2>1, <2>2 DEF MessagesGenuine
<1>2. OkMeansFilled'
  <2> SUFFICES ASSUME NEW a \in Party, NEW q \in Party, q \in ok'[a],
                      rnd'[a] \in Round \ {Last}, q # a \/ rnd'[a] \notin SelfOk,
                      NEW t \in Needs[rnd'[a]]
               PROVE  Filled(store'[a], t, q)
    BY DEF OkMeansFilled
  <2>1. CASE a # p
    BY <1>s, <2>1 DEF Inv, OkMeansFilled
  <2>2. CASE a = p
    BY <1>s, <2>2, OutcomesAssumption
  <2> QED
    BY <2>1, <2>2
<1>3. LockStep'
  <2> SUFFICES ASSUME NEW a \in Party, NEW b \in Party, a # b, NEW k \in Round,
                      rnd'[a] = k \/ k \in emitted'[a], NEW s \in Round, s < k
               PROVE  s \in emitted'[b]
    BY DEF LockStep
  <2>1. CASE rnd[a] = k \/ k \in emitted[a]
    BY <1>e, <2>1 DEF Inv, LockStep
  <2>2. CASE a = p /\ k = r
    BY <1>e, <2>2
  <2> QED
    BY <1>e, <1>s, <2>1, <2>2
<1>4. ReadsAvailable'
  <2> SUFFICES ASSUME NEW a \in Party, NEW b \in Party, a # b,
                      NEW s \in Round, s < rnd'[a], NEW t \in Needs[s]
               PROVE  Filled(store'[a], t, b)
    BY DEF ReadsAvailable
  <2>1. CASE a # p
    BY <1>s, <2>1 DEF Inv, ReadsAvailable
  <2>2. CASE a = p
    <3>1. Filled(S, t, b)
      BY <1>s, <2>2
    <3> QED
      BY <1>s, <2>2, <3>1 DEF Filled
  <2> QED
    BY <2>1, <2>2
<1> QED
  BY <1>1, <1>2, <1>3, <1>4

\* A step that only stores one message, and lets ok grow on account of it,
\* keeps the invariant.
LEMMA StoreStepInv ==
    ASSUME Inv, NEW p \in Party, NEW m \in calls[p],
           TypeOK',
           store' = [store EXCEPT ![p] = StoreMessage(store[p], m)],
           \A q \in Party : calls'[q] \subseteq calls[q],
           \A q \in Party : rnd'[q] = rnd[q] \/ rnd'[q] = 0,
           \A q \in Party : q # p => ok'[q] = ok[q],
           ok'[p] = ok[p] \/ ok'[p] = RoundUpdate(rnd[p], StoreMessage(store[p], m), ok[p]),
           emitted' = emitted
    PROVE  MessagesGenuine' /\ OkMeansFilled' /\ LockStep' /\ ReadsAvailable'
<1> USE RoundFacts
<1>s. /\ store'[p] = StoreMessage(store[p], m)
      /\ \A q \in Party : q # p => store'[q] = store[q]
  BY DEF Inv, TypeOK
<1>g. \A x : Genuine(x) => Genuine(x)'
  BY DEF Genuine
<1>1. MessagesGenuine'
  <2>1. ASSUME NEW q \in Party, NEW x \in store'[q] PROVE Genuine(x)'
    BY <1>g, <1>s, <2>1 DEF StoreMessage, Inv, MessagesGenuine
  <2>2. ASSUME NEW q \in Party, NEW x \in calls'[q] PROVE Genuine(x)' /\ x.from # q
    BY <1>g, <2>2 DEF Inv, MessagesGenuine
  <2> QED
    BY <2>1, <2>2 DEF MessagesGenuine
<1>2. OkMeansFilled'
  <2> SUFFICES ASSUME NEW a \in Party, NEW q \in Party, q \in ok'[a],
                      rnd'[a] \in Round \ {Last}, q # a \/ rnd'[a] \notin SelfOk,
                      NEW t \in Needs[rnd'[a]]
               PROVE  Filled(store'[a], t, q)
    BY DEF OkMeansFilled
  <2>0. rnd'[a] = rnd[a]
    OBVIOUS
  <2>1. CASE a # p
    BY <1>s, <2>0, <2>1 DEF Inv, OkMeansFilled
  <2>2. CASE a = p /\ q \in ok[p]
    <3>1. Filled(store[p], t, q)
      BY <2>0, <2>2 DEF Inv, OkMeansFilled
    <3> QED
      BY <1>s, <2>2, <3>1, StoreKeeps
  <2>3. CASE a = p /\ q \in RoundUpdate(rnd[p], StoreMessage(store[p], m), ok[p])
    BY <1>s, <2>0, <2>3, UpdateMeansFilled
  <2> QED
    BY <2>1, <2>2, <2>3
<1>3. LockStep'
  BY DEF Inv, LockStep
<1>4. ReadsAvailable'
  <2> SUFFICES ASSUME NEW a \in Party, NEW b \in Party, a # b,
                      NEW s \in Round, s < rnd'[a], NEW t \in Needs[s]
               PROVE  Filled(store'[a], t, b)
    BY DEF ReadsAvailable
  <2>1. Filled(store[a], t, b)
    BY DEF Inv, ReadsAvailable
  <2> QED
    BY <1>s, <2>1, StoreKeeps
<1> QED
  BY <1>1, <1>2, <1>3, <1>4

\* Inv is inductive: one step per action of the engine.
LEMMA InvStep == Inv /\ [Next]_vars => Inv'
<1> SUFFICES ASSUME Inv, [Next]_vars PROVE Inv'
  OBVIOUS
<1> USE RoundFacts
<1>t. TypeOK'
  BY TypeStep DEF Inv
<1>1. ASSUME NEW p \in Party, Start(p) PROVE Inv'
  <2>1. PICK o \in Outcomes[p][1] : BaseStart(p, o)
    BY <1>1 DEF Start
  <2>2. RunRound(p, 1, o, store[p], calls[p])
    BY <2>1 DEF BaseStart
  <2>3. \A m \in store[p] : Genuine(m)
    BY DEF Inv, MessagesGenuine
  <2>4. \A s \in Round : ~(s < 1)
    BY DEF Round
  <2>5. store[p] \in SUBSET Message
    BY DEF Inv, TypeOK
  <2> QED
    BY <1>t, <2>2, <2>3, <2>4, <2>5, RunRoundInv DEF Inv
<1>2. ASSUME NEW p \in Party, NEW m \in calls[p], BaseUpdate(p, m) PROVE Inv'
  <2>1. CASE UpdateStore(p, m)
    <3>1. store' = [store EXCEPT ![p] = StoreMessage(store[p], m)]
      BY <2>1 DEF UpdateStore
    <3>2. /\ \A q \in Party : calls'[q] \subseteq calls[q]
          /\ rnd' = rnd /\ ok' = ok /\ emitted' = emitted
      BY <2>1 DEF UpdateStore, Inv, TypeOK
    <3> QED
      BY <1>t, <3>1, <3>2, StoreStepInv DEF Inv
  <2>2. CASE UpdateWait(p, m)
    <3>1. store' = [store EXCEPT ![p] = StoreMessage(store[p], m)]
      BY <2>2 DEF UpdateWait
    <3>2. /\ \A q \in Party : calls'[q] \subseteq calls[q]
          /\ rnd' = rnd /\ emitted' = emitted
          /\ \A q \in Party : q # p => ok'[q] = ok[q]
          /\ ok'[p] = RoundUpdate(rnd[p], StoreMessage(store[p], m), ok[p])
      BY <2>2 DEF UpdateWait, Inv, TypeOK
    <3> QED
      BY <1>t, <3>1, <3>2, StoreStepInv DEF Inv
  <2>3. ASSUME rnd[p] \in Round \ {Last},
               NEW o \in Outcomes[p][rnd[p] + 1], UpdateAdvance(p, m, o)
        PROVE  Inv'
    <3> DEFINE S == StoreMessage(store[p], m)
               C == IF o.good THEN calls[p] ELSE calls[p] \ {m}
    <3>1. rnd[p] + 1 \in Round
      BY <2>3
    <3>2. RunRound(p, rnd[p] + 1, o, S, C)
      BY <2>3 DEF UpdateAdvance
    <3>3. RoundUpdate(rnd[p], S, ok[p]) = Party
      BY <2>3 DEF UpdateAdvance, CanProceed
    <3>4. \A x \in S : Genuine(x)
      BY DEF StoreMessage, Inv, MessagesGenuine
    <3>5. S \in SUBSET Message
      BY StoreType DEF Inv, TypeOK
    <3>6. ASSUME NEW q \in Party, q # p, NEW s \in Round, s < rnd[p] + 1
          PROVE  s \in emitted[q] /\ \A t \in Needs[s] : Filled(S, t, q)
      <4>1. CASE s = rnd[p]
        BY <2>3, <3>3, <3>6, <4>1, AdvanceFacts
      <4>2. CASE s < rnd[p]
        <5>1. s \in emitted[q]
          BY <2>3, <3>6, <4>2 DEF Inv, LockStep
        <5>2. ASSUME NEW t \in Needs[s] PROVE Filled(S, t, q)
          BY <3>6, <4>2, StoreKeeps DEF Inv, ReadsAvailable
        <5> QED
          BY <5>1, <5>2
      <4> QED
        BY <2>3, <3>6, <4>1, <4>2 DEF Round
    <3>7. C \in SUBSET calls[p]
      OBVIOUS
    <3> HIDE DEF S, C
    <3> QED
      BY <1>t, <3>1, <3>2, <3>4, <3>5, <3>6, <3>7, RunRoundInv DEF Inv
  <2>4. CASE UpdateFinish(p, m)
    <3>1. store' = [store EXCEPT ![p] = StoreMessage(store[p], m)]
      BY <2>4 DEF UpdateFinish
    <3>2. /\ calls' = calls /\ emitted' = emitted
          /\ \A q \in Party : rnd'[q] = rnd[q] \/ rnd'[q] = 0
          /\ \A q \in Party : q # p => ok'[q] = ok[q]
          /\ ok'[p] = RoundUpdate(rnd[p], StoreMessage(store[p], m), ok[p])
      BY <2>4 DEF UpdateFinish, Inv, TypeOK
    <3> QED
      BY <1>t, <3>1, <3>2, StoreStepInv DEF Inv
  <2> QED
    BY <1>2, <2>1, <2>2, <2>3, <2>4 DEF BaseUpdate
<1>3. ASSUME NEW p \in Party, NEW m \in store[p], Replay(p, m) PROVE Inv'
  <2>1. MessagesGenuine'
    BY <1>3 DEF Replay, Inv, TypeOK, MessagesGenuine, Genuine
  <2> QED
    BY <1>3, <1>t, <2>1 DEF Replay, Inv, OkMeansFilled, LockStep, ReadsAvailable
<1>4. ASSUME NEW p \in Party, NEW m \in calls[p], Misflag(p, m) PROVE Inv'
  <2>0. /\ \A q \in Party : q # p => calls'[q] = calls[q]
        /\ calls'[p] \subseteq calls[p] \cup {WrongFlag(m.type, m.from)}
        /\ UNCHANGED <<rnd, started, ok, store, emitted, failed, ended, starts>>
    BY <1>4 DEF Misflag, Inv, TypeOK
  <2>1. \A x : Genuine(x) => Genuine(x)'
    BY <2>0 DEF Genuine
  <2>2. Genuine(WrongFlag(m.type, m.from))' /\ WrongFlag(m.type, m.from).from # p
    <3>1. Genuine(m) /\ m.from # p
      BY DEF Inv, MessagesGenuine
    <3> QED
      BY <2>0, <3>1 DEF Genuine, WrongFlag
  <2>3. MessagesGenuine'
    BY <2>0, <2>1, <2>2 DEF Inv, MessagesGenuine
  <2> QED
    BY <1>t, <2>0, <2>3 DEF Inv, OkMeansFilled, LockStep, ReadsAvailable
<1>5. CASE UNCHANGED vars
  <2>1. MessagesGenuine'
    BY <1>5 DEF vars, Inv, MessagesGenuine, Genuine
  <2> QED
    BY <1>5, <1>t, <2>1 DEF vars, Inv, OkMeansFilled, LockStep, ReadsAvailable
<1> QED
  BY <1>1, <1>2, <1>3, <1>4, <1>5 DEF Next

\* Inv holds initially: no message, no round.
LEMMA InvInit == Init => Inv
<1> SUFFICES ASSUME Init PROVE Inv
  OBVIOUS
<1>1. TypeOK
  BY TypeInit
<1>2. MessagesGenuine /\ OkMeansFilled
  BY DEF Init, MessagesGenuine, OkMeansFilled
<1>3. \A p \in Party : rnd[p] = 0 /\ emitted[p] = {}
  BY DEF Init
<1>4. LockStep
  BY <1>3, RoundFacts DEF LockStep
<1>5. ReadsAvailable
  BY <1>3 DEF ReadsAvailable, Round
<1> QED
  BY <1>1, <1>2, <1>4, <1>5 DEF Inv

\* The engine keeps its parties in lock step, for every number of parties,
\* every protocol table, every delivery order, replay and wrong broadcast flag.
THEOREM LockStepHolds == Spec => []LockStep
<1>1. Inv => LockStep
  BY DEF Inv
<1> QED
  BY <1>1, InvInit, InvStep, PTL DEF Spec

\* No Start of any round reads an empty slot of an earlier round.
THEOREM ReadsAvailableHolds == Spec => []ReadsAvailable
<1>1. Inv => ReadsAvailable
  BY DEF Inv
<1> QED
  BY <1>1, InvInit, InvStep, PTL DEF Spec

\* WaitingFor reports every party whose messages of the round are missing.
THEOREM WaitingForSoundHolds == Spec => []WaitingForSound
<1>1. Inv => WaitingForSound
  <2> SUFFICES ASSUME Inv, NEW p \in Party, NEW q \in Party,
                      rnd[p] \in Round \ {Last}, p # q, q \notin WaitingFor(p)
               PROVE  rnd[p] \in emitted[q]
    BY DEF WaitingForSound
  <2>1. q \in ok[p]
    BY RoundFacts DEF WaitingFor
  <2>2. PICK t \in Needs[rnd[p]] : TRUE
    BY NeedsAssumption
  <2>3. Filled(store[p], t, q)
    BY <2>1 DEF Inv, OkMeansFilled
  <2>4. \A m \in store[p] : Genuine(m)
    BY DEF Inv, MessagesGenuine
  <2> QED
    BY <2>2, <2>3, <2>4, FilledGenuine DEF Inv
<1> QED
  BY <1>1, InvInit, InvStep, PTL DEF Spec

-----------------------------------------------------------------------------
(***************************************************************************)
(* Parties that are started once.  A second Start would reuse the slots of *)
(* the first run; without one, the rounds a party completed and the round  *)
(* that failed never lie ahead of it, and never coincide.                  *)
(***************************************************************************)
OnceInv ==
    \A p \in Party :
        /\ starts[p] = 0 => rnd[p] = 0 /\ emitted[p] = {} /\ failed[p] = 0 /\ ended[p] = 0
        /\ \A r \in emitted[p] : r <= AbstractRound(p)
        /\ failed[p] <= AbstractRound(p) /\ failed[p] \notin emitted[p]
        /\ (failed[p] # 0 /\ failed[p] \notin SelfOk \cup {Last}) => rnd[p] = failed[p]
        /\ ended[p] > 0 => Last \in emitted[p]

\* Running the round after the current one keeps OnceInv, if the current one
\* was completed or sets its own ok.
LEMMA RunRoundOnce ==
    ASSUME TypeOK, OnceInv, NEW p \in Party, NEW r \in Round, NEW o, NEW S, NEW C,
           RunRound(p, r, o, S, C),
           r = AbstractRound(p) + 1,
           rnd[p] # 0 => rnd[p] # Last /\ rnd[p] \in emitted[p] \cup SelfOk,
           starts'[p] # 0, \A q \in Party : q # p => starts'[q] = starts[q],
           starts' \in [Party -> 0 .. MaxStarts]
    PROVE  OnceInv'
<1> USE RoundFacts
<1>1. /\ \A q \in Party : q # p => /\ rnd'[q] = rnd[q] /\ emitted'[q] = emitted[q]
                                   /\ failed'[q] = failed[q] /\ ended'[q] = ended[q]
      /\ rnd'[p] = r
      /\ emitted'[p] = IF o.good THEN emitted[p] \cup {r} ELSE emitted[p]
      /\ failed'[p] = IF o.good THEN failed[p] ELSE r
      /\ ended'[p] = IF o.good /\ r = Last THEN ended[p] + 1 ELSE ended[p]
  BY DEF RunRound, TypeOK
<1>2. AbstractRound(p) \in Nat /\ AbstractRound(p) < r
  BY DEF TypeOK, AbstractRound
<1>3. r \notin emitted[p] /\ failed[p] # r
  BY <1>2 DEF OnceInv, TypeOK
<1>4. AbstractRound(p)' = r
  BY <1>1 DEF AbstractRound
<1>5. failed[p] # 0 => failed[p] \in SelfOk \cup {Last}
  <2>1. CASE rnd[p] = 0
    <3>1. AbstractRound(p) # Last
      BY <1>2
    <3> QED
      BY <2>1, <3>1 DEF OnceInv, AbstractRound, TypeOK
  <2>2. CASE rnd[p] # 0
    BY <2>2 DEF OnceInv
  <2> QED
    BY <2>1, <2>2
<1>6. ASSUME NEW q \in Party, q # p PROVE AbstractRound(q)' = AbstractRound(q)
  BY <1>1, <1>6 DEF AbstractRound
<1>7. ended[p] + 1 > 0 /\ ended[p] \in Nat
  BY DEF TypeOK
<1>8. \A k \in emitted'[p] : k <= r
  <2>1. \A k \in emitted[p] : k \in Nat /\ k <= AbstractRound(p)
    BY DEF OnceInv, TypeOK
  <2>2. \A k \in emitted[p] : k <= r
    BY <1>2, <2>1
  <2> QED
    BY <1>1, <2>2
<1>9. failed'[p] <= r
  BY <1>1, <1>2 DEF OnceInv, TypeOK
<1>10. ASSUME NEW q \in Party
       PROVE  /\ starts'[q] = 0 => rnd'[q] = 0 /\ emitted'[q] = {} /\ failed'[q] = 0 /\ ended'[q] = 0
              /\ \A k \in emitted'[q] : k <= AbstractRound(q)'
              /\ failed'[q] <= AbstractRound(q)' /\ failed'[q] \notin emitted'[q]
              /\ (failed'[q] # 0 /\ failed'[q] \notin SelfOk \cup {Last}) => rnd'[q] = failed'[q]
              /\ ended'[q] > 0 => Last \in emitted'[q]
  <2>1. CASE q # p
    BY <1>1, <1>6, <2>1 DEF OnceInv
  <2>2. CASE q = p
    BY <1>1, <1>3, <1>4, <1>5, <1>7, <1>8, <1>9, <2>2 DEF OnceInv
  <2> QED
    BY <2>1, <2>2
<1> QED
  BY <1>10 DEF OnceInv

\* Every other step leaves what OnceInv speaks about alone, except that
\* UpdateFinish clears the round of a party that is in the last one.
LEMMA QuietOnce ==
    ASSUME TypeOK, OnceInv,
           UNCHANGED <<emitted, failed, ended, starts>>,
           \A q \in Party : rnd'[q] = rnd[q] \/ (rnd[q] = Last /\ rnd'[q] = 0)
    PROVE  OnceInv'
<1> USE RoundFacts
<1>1. ASSUME NEW q \in Party PROVE AbstractRound(q)' = AbstractRound(q)
  BY DEF AbstractRound, OnceInv, TypeOK
<1> QED
  BY <1>1 DEF OnceInv, TypeOK

\* OnceInv is inductive relative to Inv.
LEMMA OnceStep ==
    ASSUME MaxStarts = 1
    PROVE  Inv /\ OnceInv /\ [Next]_vars => OnceInv'
<1> SUFFICES ASSUME Inv, OnceInv, [Next]_vars PROVE OnceInv'
  OBVIOUS
<1> USE RoundFacts
<1>t. TypeOK /\ TypeOK'
  BY TypeStep DEF Inv
<1>1. ASSUME NEW p \in Party, Start(p) PROVE OnceInv'
  <2>1. PICK o \in Outcomes[p][1] : BaseStart(p, o)
    BY <1>1 DEF Start
  <2>2. RunRound(p, 1, o, store[p], calls[p]) /\ rnd[p] = 0 /\ starts[p] = 0
    BY <1>t, <2>1 DEF BaseStart, TypeOK
  <2>3. /\ starts'[p] # 0 /\ \A q \in Party : q # p => starts'[q] = starts[q]
        /\ starts' \in [Party -> 0 .. MaxStarts]
    BY <1>t, <2>1 DEF BaseStart, TypeOK
  <2>4. 1 = AbstractRound(p) + 1
    BY <2>2 DEF AbstractRound
  <2> QED
    BY <1>t, <2>2, <2>3, <2>4, RunRoundOnce
<1>2. ASSUME NEW p \in Party, NEW m \in calls[p], BaseUpdate(p, m) PROVE OnceInv'
  <2>1. CASE UpdateStore(p, m) \/ UpdateWait(p, m)
    BY <1>t, <2>1, QuietOnce DEF UpdateStore, UpdateWait
  <2>2. ASSUME rnd[p] \in Round \ {Last},
               NEW o \in Outcomes[p][rnd[p] + 1], UpdateAdvance(p, m, o)
        PROVE  OnceInv'
    <3> DEFINE S == StoreMessage(store[p], m)
               C == IF o.good THEN calls[p] ELSE calls[p] \ {m}
    <3>1. RunRound(p, rnd[p] + 1, o, S, C) /\ starts' = starts
      BY <2>2 DEF UpdateAdvance
    <3>2. rnd[p] \in emitted[p] \cup SelfOk
      BY <2>2, AdvanceFacts DEF UpdateAdvance, CanProceed
    <3>3. rnd[p] + 1 \in Round /\ rnd[p] + 1 = AbstractRound(p) + 1 /\ rnd[p] # Last
      BY <2>2 DEF AbstractRound
    <3>4. starts'[p] # 0 /\ starts' \in [Party -> 0 .. MaxStarts]
      BY <1>t, <2>2, <3>1 DEF OnceInv, TypeOK
    <3> HIDE DEF S, C
    <3> QED
      BY <1>t, <3>1, <3>2, <3>3, <3>4, RunRoundOnce
  <2>3. CASE UpdateFinish(p, m)
    BY <1>t, <2>3, QuietOnce DEF UpdateFinish, TypeOK
  <2> QED
    BY <1>2, <2>1, <2>2, <2>3 DEF BaseUpdate
<1>3. ASSUME NEW p \in Party, NEW m \in store[p], Replay(p, m) PROVE OnceInv'
  BY <1>3, <1>t, QuietOnce DEF Replay
<1>4. ASSUME NEW p \in Party, NEW m \in calls[p], Misflag(p, m) PROVE OnceInv'
  BY <1>4, <1>t, QuietOnce DEF Misflag
<1>5. CASE UNCHANGED vars
  BY <1>5, <1>t, QuietOnce DEF vars
<1> QED
  BY <1>1, <1>2, <1>3, <1>4, <1>5 DEF Next

\* OnceInv holds initially.
LEMMA OnceInit == Init => OnceInv
BY RoundFacts DEF Init, OnceInv, AbstractRound

\* A party whose Start failed in a round that does not set its own ok stays in
\* that round, whatever arrives later.
THEOREM FailedStopsHolds ==
    ASSUME MaxStarts = 1
    PROVE  Spec => []FailedStops
<1>1. OnceInv => FailedStops
  BY DEF OnceInv, FailedStops
<1> QED
  BY <1>1, InvInit, InvStep, OnceInit, OnceStep, PTL DEF Spec

\* When a party delivers its result, no other party failed before the last round.
THEOREM EndMeansAcceptedHolds ==
    ASSUME MaxStarts = 1
    PROVE  Spec => []EndMeansAccepted
<1>1. Inv /\ OnceInv => EndMeansAccepted
  <2> SUFFICES ASSUME Inv, OnceInv, NEW p \in Party, NEW q \in Party,
                      ended[p] > 0, p # q, failed[q] # 0, failed[q] # Last
               PROVE  FALSE
    BY DEF EndMeansAccepted
  <2>1. Last \in emitted[p]
    BY DEF OnceInv
  <2>2. failed[q] \in Round /\ failed[q] < Last
    BY SizeAssumption DEF Inv, TypeOK, Round
  <2>3. failed[q] \in emitted[q]
    BY <2>1, <2>2, RoundFacts DEF Inv, LockStep
  <2> QED
    BY <2>3 DEF OnceInv
<1> QED
  BY <1>1, InvInit, InvStep, OnceInit, OnceStep, PTL DEF Spec

-----------------------------------------------------------------------------
(***************************************************************************)
(* Parties that finish.  The last round waits for no message, so that its  *)
(* `ok` is what its Start left: FinishedHasEnded is a matter of the table. *)
(***************************************************************************)
FinishInv ==
    \A p \in Party :
        /\ (starts[p] > 0 /\ rnd[p] = 0) => ended[p] > 0
        /\ (rnd[p] = Last /\ started[p] /\ ok[p] = Party) => ended[p] > 0

\* Running a round keeps FinishInv: the last round is good if it sets every ok.
LEMMA RunRoundFinish ==
    ASSUME LastOkMeansSent, TypeOK, FinishInv, NEW p \in Party, NEW r \in Round,
           NEW o \in Outcomes[p][r], NEW S, NEW C, RunRound(p, r, o, S, C),
           \A q \in Party : q # p => starts'[q] = starts[q]
    PROVE  FinishInv'
<1>1. /\ \A q \in Party : q # p => /\ rnd'[q] = rnd[q] /\ ok'[q] = ok[q]
                                   /\ started'[q] = started[q] /\ ended'[q] = ended[q]
      /\ rnd'[p] = r /\ started'[p] = o.started /\ ok'[p] = o.ok
      /\ ended'[p] = IF o.good /\ r = Last THEN ended[p] + 1 ELSE ended[p]
  BY DEF RunRound, TypeOK
<1>2. ended[p] \in Nat /\ r # 0
  BY RoundFacts DEF TypeOK
<1>3. (r = Last /\ started'[p] /\ ok'[p] = Party) => ended'[p] > 0
  <2> SUFFICES ASSUME r = Last, started'[p], ok'[p] = Party PROVE ended'[p] > 0
    OBVIOUS
  <2>1. o.good
    BY <1>1 DEF LastOkMeansSent
  <2>2. ended'[p] = ended[p] + 1
    BY <1>1, <2>1
  <2> QED BY <1>2, <2>2
<1> QED BY <1>1, <1>2, <1>3 DEF FinishInv

\* The Update of the last round changes no ok.
LEMMA LastUpdate == ASSUME NEW S, NEW K PROVE RoundUpdate(Last, S, K) = K
<1>1. Arrived(Last, S) = {}
  BY NeedsAssumption, RoundFacts DEF Arrived
<1> QED BY <1>1 DEF RoundUpdate

LEMMA FinishStep ==
    ASSUME LastOkMeansSent
    PROVE  TypeOK /\ FinishInv /\ [Next]_vars => FinishInv'
<1> SUFFICES ASSUME TypeOK, FinishInv, [Next]_vars PROVE FinishInv'
  OBVIOUS
<1>1. ASSUME NEW p \in Party, Start(p) PROVE FinishInv'
  <2>1. PICK o \in Outcomes[p][1] : BaseStart(p, o)
    BY <1>1 DEF Start
  <2>2. RunRound(p, 1, o, store[p], calls[p]) /\ \A q \in Party : q # p => starts'[q] = starts[q]
    BY <2>1 DEF BaseStart, TypeOK
  <2> QED BY <2>2, RunRoundFinish, RoundFacts
<1>2. ASSUME NEW p \in Party, NEW m \in calls[p], BaseUpdate(p, m) PROVE FinishInv'
  <2>1. CASE UpdateStore(p, m)
    BY <2>1 DEF UpdateStore, FinishInv
  <2>2. CASE UpdateWait(p, m)
    <3> DEFINE S == StoreMessage(store[p], m)
    <3>1. /\ UNCHANGED <<rnd, started, ended, starts>>
          /\ ok' = [ok EXCEPT ![p] = RoundUpdate(rnd[p], S, ok[p])]
      BY <2>2 DEF UpdateWait
    <3> HIDE DEF S
    <3>2. rnd[p] = Last => ok'[p] = ok[p]
      BY <3>1, LastUpdate DEF TypeOK
    <3>3. \A q \in Party : q # p => ok'[q] = ok[q]
      BY <3>1 DEF TypeOK
    <3> QED BY <3>1, <3>2, <3>3 DEF FinishInv
  <2>3. ASSUME rnd[p] \in Round \ {Last},
               NEW o \in Outcomes[p][rnd[p] + 1], UpdateAdvance(p, m, o)
        PROVE  FinishInv'
    <3> DEFINE S == StoreMessage(store[p], m)
               C == IF o.good THEN calls[p] ELSE calls[p] \ {m}
    <3>1. RunRound(p, rnd[p] + 1, o, S, C) /\ starts' = starts
      BY <2>3 DEF UpdateAdvance
    <3>2. rnd[p] + 1 \in Round
      BY <2>3, RoundFacts
    <3> HIDE DEF S, C
    <3> QED BY <3>1, <3>2, RunRoundFinish
  <2>4. CASE UpdateFinish(p, m)
    <3> DEFINE S == StoreMessage(store[p], m)
    <3>1. /\ rnd[p] = Last /\ started[p] /\ RoundUpdate(Last, S, ok[p]) = Party
          /\ rnd' = [rnd EXCEPT ![p] = 0]
          /\ ok' = [ok EXCEPT ![p] = RoundUpdate(Last, S, ok[p])]
          /\ UNCHANGED <<started, ended, starts>>
      BY <2>4 DEF UpdateFinish, CanProceed
    <3> HIDE DEF S
    <3>2. ended[p] > 0
      BY <3>1, LastUpdate DEF FinishInv
    <3>3. \A q \in Party : q # p => rnd'[q] = rnd[q] /\ ok'[q] = ok[q]
      BY <3>1 DEF TypeOK
    <3> QED BY <3>1, <3>2, <3>3 DEF FinishInv
  <2> QED BY <1>2, <2>1, <2>2, <2>3, <2>4 DEF BaseUpdate
<1>3. ASSUME NEW p \in Party, NEW m \in store[p], Replay(p, m) PROVE FinishInv'
  BY <1>3 DEF Replay, FinishInv
<1>4. ASSUME NEW p \in Party, NEW m \in calls[p], Misflag(p, m) PROVE FinishInv'
  BY <1>4 DEF Misflag, FinishInv
<1>5. CASE UNCHANGED vars
  BY <1>5 DEF vars, FinishInv
<1> QED BY <1>1, <1>2, <1>3, <1>4, <1>5 DEF Next

\* A party whose p.rnd is nil after Start sent its result (tss/party.go:178), for
\* every table whose last round sets all of `ok` only where it sends the result,
\* and however often the party is started again.
THEOREM FinishedHasEndedHolds ==
    ASSUME LastOkMeansSent
    PROVE  Spec => []FinishedHasEnded
<1>1. Init => FinishInv
  BY RoundFacts DEF Init, FinishInv
<1>2. FinishInv => FinishedHasEnded
  BY DEF FinishInv, FinishedHasEnded
<1> QED BY <1>1, <1>2, FinishStep, TypeInit, TypeStep, PTL DEF Spec

\* ECDSA key generation has such a table: its round 4 sets ok[j] where the Paillier
\* proof of j verifies, and returns an error unless all do (keygen/round_4.go).
THEOREM EcdsaKeygenFinishes ==
    ASSUME Last = 4, Outcomes = EcdsaKeygenOutcomes(Party)
    PROVE  Spec => []FinishedHasEnded
<1>1. LastOkMeansSent
  <2> SUFFICES ASSUME NEW p \in Party, NEW o \in Outcomes[p][Last], o.ok = Party
               PROVE  o.good
    BY DEF LastOkMeansSent
  <2>1. o \in {Good(Party)} \cup {Bad(S) : S \in {X \in SUBSET Party : p \in X /\ X # Party}}
    BY DEF EcdsaKeygenOutcomes
  <2> QED BY <2>1 DEF Good, Bad
<1> QED BY <1>1, FinishedHasEndedHolds

-----------------------------------------------------------------------------
(* Refinement: the engine implements LockStep.                             *)

\* Running the round after the current one is a StartRound of the abstraction.
LEMMA RunRoundRefines ==
    ASSUME TypeOK, NEW p \in Party, NEW r \in Round, NEW o \in Outcome, NEW S, NEW C,
           RunRound(p, r, o, S, C),
           r = AbstractRound(p) + 1, Abstract!RoundComplete(p),
           \A q \in Party : q # p => AbstractRound(q)' = AbstractRound(q)
    PROVE  Abstract!LSNext
<1> USE RoundFacts
<1>1. AbstractRound(p)' = r /\ AbstractRound(p) < Last
  BY DEF RunRound, TypeOK, AbstractRound, Round
<1>2. [q \in Party |-> AbstractRound(q)]'
        = [[q \in Party |-> AbstractRound(q)] EXCEPT ![p] = AbstractRound(p) + 1]
  BY <1>1
<1>3. /\ emitted' = [emitted EXCEPT ![p] = IF o.good THEN @ \cup {AbstractRound(p) + 1} ELSE @]
      /\ failed' = [failed EXCEPT ![p] = IF o.good THEN @ ELSE AbstractRound(p) + 1]
  BY DEF RunRound
<1>4. o.good \in BOOLEAN
  BY DEF Outcome
<1>5. Abstract!StartRound(p, o.good)
  BY <1>1, <1>2, <1>3 DEF Abstract!StartRound
<1> QED
  BY <1>4, <1>5 DEF Abstract!LSNext

\* Every other step is a stutter of the abstraction.
LEMMA QuietRefines ==
    ASSUME TypeOK, OnceInv,
           UNCHANGED <<emitted, failed, starts>>,
           \A q \in Party : rnd'[q] = rnd[q] \/ (rnd[q] = Last /\ rnd'[q] = 0)
    PROVE  UNCHANGED Abstract!lsVars
<1>1. ASSUME NEW q \in Party PROVE AbstractRound(q)' = AbstractRound(q)
  BY RoundFacts DEF AbstractRound, OnceInv, TypeOK
<1> QED
  BY <1>1 DEF Abstract!lsVars

\* Every step of the engine is a step or a stutter of the abstraction.
LEMMA StepRefines ==
    ASSUME MaxStarts = 1
    PROVE  Inv /\ OnceInv /\ [Next]_vars => [Abstract!LSNext]_(Abstract!lsVars)
<1> SUFFICES ASSUME Inv, OnceInv, [Next]_vars
             PROVE  [Abstract!LSNext]_(Abstract!lsVars)
  OBVIOUS
<1> USE RoundFacts
<1>t. TypeOK
  BY DEF Inv
<1>1. ASSUME NEW p \in Party, Start(p) PROVE Abstract!LSNext
  <2>1. PICK o \in Outcomes[p][1] : BaseStart(p, o)
    BY <1>1 DEF Start
  <2>2. RunRound(p, 1, o, store[p], calls[p]) /\ rnd[p] = 0 /\ starts[p] = 0
    BY <1>t, <2>1 DEF BaseStart, TypeOK
  <2>3. o \in Outcome
    BY OutcomesAssumption
  <2>4. AbstractRound(p) = 0
    BY <2>2 DEF AbstractRound
  <2>5. Abstract!RoundComplete(p)
    BY <2>4 DEF Abstract!RoundComplete
  <2>6. ASSUME NEW q \in Party, q # p PROVE AbstractRound(q)' = AbstractRound(q)
    BY <1>t, <2>1, <2>6 DEF BaseStart, RunRound, TypeOK, AbstractRound
  <2>7. 1 = AbstractRound(p) + 1
    BY <2>4
  <2> QED
    BY <1>t, <2>2, <2>3, <2>5, <2>6, <2>7, RunRoundRefines
<1>2. ASSUME NEW p \in Party, NEW m \in calls[p], BaseUpdate(p, m)
      PROVE  [Abstract!LSNext]_(Abstract!lsVars)
  <2>1. CASE UpdateStore(p, m) \/ UpdateWait(p, m)
    BY <1>t, <2>1, QuietRefines DEF UpdateStore, UpdateWait
  <2>2. ASSUME rnd[p] \in Round \ {Last},
               NEW o \in Outcomes[p][rnd[p] + 1], UpdateAdvance(p, m, o)
        PROVE  Abstract!LSNext
    <3> DEFINE S == StoreMessage(store[p], m)
               C == IF o.good THEN calls[p] ELSE calls[p] \ {m}
    <3>1. RunRound(p, rnd[p] + 1, o, S, C) /\ starts' = starts
      BY <2>2 DEF UpdateAdvance
    <3>2. AbstractRound(p) = rnd[p] /\ rnd[p] + 1 \in Round
      BY <2>2 DEF AbstractRound
    <3>3. o \in Outcome
      <4>1. Outcomes[p] \in [Round -> SUBSET Outcome]
        BY OutcomesAssumption
      <4> QED
        BY <3>2, <4>1
    <3>4. /\ rnd[p] \in emitted[p] \cup SelfOk
          /\ \A q \in Party : q # p => rnd[p] \in emitted[q]
      BY <2>2, AdvanceFacts DEF UpdateAdvance, CanProceed
    <3>5. Abstract!RoundComplete(p)
      BY <3>2, <3>4 DEF Abstract!RoundComplete
    <3>6. ASSUME NEW q \in Party, q # p PROVE AbstractRound(q)' = AbstractRound(q)
      BY <1>t, <3>1, <3>6 DEF RunRound, TypeOK, AbstractRound
    <3> HIDE DEF S, C
    <3> QED
      BY <1>t, <3>1, <3>2, <3>3, <3>5, <3>6, RunRoundRefines
  <2>3. CASE UpdateFinish(p, m)
    BY <1>t, <2>3, QuietRefines DEF UpdateFinish, TypeOK
  <2> QED
    BY <1>2, <2>1, <2>2, <2>3 DEF BaseUpdate
<1>3. ASSUME NEW p \in Party, NEW m \in store[p], Replay(p, m)
      PROVE  UNCHANGED Abstract!lsVars
  BY <1>3, <1>t, QuietRefines DEF Replay
<1>4. ASSUME NEW p \in Party, NEW m \in calls[p], Misflag(p, m)
      PROVE  UNCHANGED Abstract!lsVars
  BY <1>4, <1>t, QuietRefines DEF Misflag
<1>5. CASE UNCHANGED vars
  BY <1>5, <1>t, QuietRefines DEF vars
<1> QED
  BY <1>1, <1>2, <1>3, <1>4, <1>5 DEF Next

\* Started once, the engine implements the abstract lock step.
THEOREM EngineImplementsLockStep ==
    ASSUME MaxStarts = 1
    PROVE  Spec => ImplementsLockStep
<1>1. Init => Abstract!LSInit
  BY DEF Init, Abstract!LSInit, AbstractRound
<1> QED
  BY <1>1, InvInit, InvStep, OnceInit, OnceStep, StepRefines, PTL
     DEF Spec, ImplementsLockStep, Abstract!LSSpec
=============================================================================
