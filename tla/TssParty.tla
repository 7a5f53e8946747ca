------------------------------ MODULE TssParty ------------------------------
(***************************************************************************)
(* The round engine every protocol of the library runs on: tss/party.go    *)
(* (BaseStart, BaseUpdate, WaitingFor) and the tss.Round interface of      *)
(* tss/round.go, for N parties that exchange the messages of one protocol  *)
(* run.  A protocol (key generation, signing) is a table: which message    *)
(* types each round sends and waits for, and what the Start of each round  *)
(* may leave behind (RoundTables.tla holds the tables of the code).        *)
(*                                                                         *)
(* A step of the model is one critical section of the party's mutex.  An   *)
(* Update call that advanced the party releases the mutex and runs again   *)
(* with the same message (party.go:181-182), so other calls interleave     *)
(* there; calls[p] is the set of Update calls on p that have not returned. *)
(***************************************************************************)
EXTENDS Naturals, FiniteSets

CONSTANTS
    N,          \* number of parties of the run
    Last,       \* number of the final round (the one whose NextRound is nil)
    Type,       \* message types of the protocol
    Needs,      \* Needs[r]: the types round r sends, and its Update waits for
    Bcast,      \* the types CanAccept takes as broadcasts only; others p2p only
    OwnStored,  \* the types whose sender also fills its own slot
    SelfOk,     \* rounds whose Start sets ok[i] for the party itself
    Prefix,     \* rounds whose Update returns at the first missing message
    Outcomes,   \* Outcomes[p][r]: what Start of round r may leave behind at p
    Replayed,   \* types the caller may hand to Update again
    Misflagged, \* types the caller may hand over with the wrong isBroadcast
    MaxStarts   \* bound on the calls of Start per party

Party == 0 .. N - 1
Round == 1 .. Last

\* A message, as far as the engine tells messages apart.
Message == [type : Type, from : Party, bcast : BOOLEAN]

\* What a Start leaves behind: its error result, the started flag and `ok`.
Outcome == [good : BOOLEAN, started : BOOLEAN, ok : SUBSET Party]

ASSUME SizeAssumption == /\ N \in Nat /\ N > 1
                         /\ Last \in Nat /\ Last > 1
                         /\ MaxStarts \in Nat

ASSUME NeedsAssumption ==
    /\ Needs \in [Round -> SUBSET Type]
    /\ \A r \in Round : (Needs[r] = {}) <=> (r = Last)
    /\ \A r, s \in Round : r # s => Needs[r] \cap Needs[s] = {}

ASSUME OutcomesAssumption ==
    /\ Outcomes \in [Party -> [Round -> SUBSET Outcome]]
    /\ \A p \in Party : \A r \in Round \ {Last} : \A o \in Outcomes[p][r] :
          o.ok \subseteq (IF r \in SelfOk THEN {p} ELSE {})

\* Rounds that do not set their own ok rely on their own slot being filled.
ASSUME OwnAssumption ==
    \A r \in Round \ {Last} : r \notin SelfOk => Needs[r] \subseteq OwnStored

VARIABLES
    rnd,      \* rnd[p]: number of p.rnd, 0 when it is nil
    started,  \* the `started` flag of the round base
    ok,       \* {j : round.ok[j]}
    store,    \* the filled message slots of p.temp
    calls,    \* Update calls on p that have not returned, by their message
    emitted,  \* history: rounds whose Start returned without an error at p
    failed,   \* history: the latest round whose Start returned an error at p
    ended,    \* history: how often p sent a result through its end channel
    starts    \* history: how often Start was called on p

vars == <<rnd, started, ok, store, calls, emitted, failed, ended, starts>>

TypeOK ==
    /\ rnd \in [Party -> 0 .. Last]
    /\ started \in [Party -> BOOLEAN]
    /\ ok \in [Party -> SUBSET Party]
    /\ store \in [Party -> SUBSET Message]
    /\ calls \in [Party -> SUBSET Message]
    /\ emitted \in [Party -> SUBSET Round]
    /\ failed \in [Party -> 0 .. Last]
    /\ ended \in [Party -> Nat]
    /\ starts \in [Party -> 0 .. MaxStarts]

Init ==
    /\ rnd = [p \in Party |-> 0]
    /\ started = [p \in Party |-> FALSE]
    /\ ok = [p \in Party |-> {}]
    /\ store = [p \in Party |-> {}]
    /\ calls = [p \in Party |-> {}]
    /\ emitted = [p \in Party |-> {}]
    /\ failed = [p \in Party |-> 0]
    /\ ended = [p \in Party |-> 0]
    /\ starts = [p \in Party |-> 0]

-----------------------------------------------------------------------------
\* The message of type t from party q, on the channel CanAccept asks for.
Msg(t, q) == [type |-> t, from |-> q, bcast |-> t \in Bcast]

\* The same message handed over with the wrong isBroadcast.
WrongFlag(t, q) == [type |-> t, from |-> q, bcast |-> t \notin Bcast]

\* StoreMessage: one slot per type and sender; the last message stored wins.
StoreMessage(S, m) ==
    {x \in S : ~(x.type = m.type /\ x.from = m.from)} \cup {m}

\* Mutation of Arrived: one of the round's message types is enough.
ArrivedAnyType(r, S) ==
    {j \in Party : Needs[r] # {} /\ \E t \in Needs[r] : Msg(t, j) \in S}

\* The senders whose messages of round r are all in S and acceptable.
Arrived(r, S) ==
    {j \in Party : Needs[r] # {} /\ \A t \in Needs[r] : Msg(t, j) \in S}

\* Mutation of RoundUpdate: the senders are counted from 1.
RoundUpdateFromOne(r, S, K) == K \cup {j + 1 : j \in Arrived(r, S)}

\* Round.Update: adds to ok every sender that arrived; a Prefix round returns
\* at the first sender that is neither ok nor arrived.
RoundUpdate(r, S, K) ==
    IF r \in Prefix
    THEN K \cup {j \in Arrived(r, S) : \A i \in 0 .. j : i \in K \cup Arrived(r, S)}
    ELSE K \cup Arrived(r, S)

\* Mutation of CanProceed: one party may be missing.
CanProceedWithoutOne(p, K) == started[p] /\ Cardinality(K) >= N - 1

\* base.CanProceed, with K for the ok the preceding Update left.
CanProceed(p, K) == started[p] /\ K = Party

\* base.WaitingFor behind BaseParty.WaitingFor.
WaitingFor(p) == IF rnd[p] = 0 THEN {} ELSE Party \ ok[p]

\* The messages round r of p sends, and those p puts into its own slots.
Sent(p, r) == {Msg(t, p) : t \in Needs[r]}
Own(p, r) == {Msg(t, p) : t \in Needs[r] \cap OwnStored}

\* Mutation of RunRound: the next round does not reset `ok`.
RunRoundNoReset(p, r, o, S, C) ==
    /\ rnd' = [rnd EXCEPT ![p] = r]
    /\ started' = [started EXCEPT ![p] = o.started]
    /\ ok' = [ok EXCEPT ![p] = IF r > 1 THEN Party ELSE o.ok]
    /\ store' = [store EXCEPT ![p] = IF o.good THEN S \cup Own(p, r) ELSE S]
    /\ calls' = [q \in Party |->
                    IF q = p THEN C
                    ELSE IF o.good THEN calls[q] \cup Sent(p, r) ELSE calls[q]]
    /\ emitted' = [emitted EXCEPT ![p] = IF o.good THEN @ \cup {r} ELSE @]
    /\ failed' = [failed EXCEPT ![p] = IF o.good THEN @ ELSE r]
    /\ ended' = [ended EXCEPT ![p] = IF o.good /\ r = Last THEN @ + 1 ELSE @]

\* Round.Start of round r at p with outcome o.  S is p's store when it runs, C
\* the calls on p left when it returns.  A good Start sends its messages
\* through `out` (the caller hands them to every other party's Update) and
\* fills its own slots, the last round sends the result through `end`.
RunRound(p, r, o, S, C) ==
    /\ rnd' = [rnd EXCEPT ![p] = r]
    /\ started' = [started EXCEPT ![p] = o.started]
    /\ ok' = [ok EXCEPT ![p] = o.ok]
    /\ store' = [store EXCEPT ![p] = IF o.good THEN S \cup Own(p, r) ELSE S]
    /\ calls' = [q \in Party |->
                    IF q = p THEN C
                    ELSE IF o.good THEN calls[q] \cup Sent(p, r) ELSE calls[q]]
    /\ emitted' = [emitted EXCEPT ![p] = IF o.good THEN @ \cup {r} ELSE @]
    /\ failed' = [failed EXCEPT ![p] = IF o.good THEN @ ELSE r]
    /\ ended' = [ended EXCEPT ![p] = IF o.good /\ r = Last THEN @ + 1 ELSE @]

\* BaseStart: refused unless p.rnd is nil; runs the first round.
BaseStart(p, o) ==
    /\ rnd[p] = 0
    /\ starts[p] < MaxStarts
    /\ starts' = [starts EXCEPT ![p] = @ + 1]
    /\ RunRound(p, 1, o, store[p], calls[p])

\* Mutation of UpdateStore: a message that comes before Start is dropped.
UpdateDrop(p, m) ==
    /\ m \in calls[p]
    /\ rnd[p] = 0
    /\ calls' = [calls EXCEPT ![p] = @ \ {m}]
    /\ UNCHANGED <<rnd, started, ok, store, emitted, failed, ended, starts>>

\* BaseUpdate while no round is set: the message is stored, nothing else.
UpdateStore(p, m) ==
    /\ m \in calls[p]
    /\ rnd[p] = 0
    /\ store' = [store EXCEPT ![p] = StoreMessage(@, m)]
    /\ calls' = [calls EXCEPT ![p] = @ \ {m}]
    /\ UNCHANGED <<rnd, started, ok, emitted, failed, ended, starts>>

\* BaseUpdate when the round cannot proceed: `ok` grows, the call returns.
UpdateWait(p, m) ==
    LET S == StoreMessage(store[p], m)
        K == RoundUpdate(rnd[p], S, ok[p])
    IN  /\ m \in calls[p]
        /\ rnd[p] # 0
        /\ ~CanProceed(p, K)
        /\ store' = [store EXCEPT ![p] = S]
        /\ ok' = [ok EXCEPT ![p] = K]
        /\ calls' = [calls EXCEPT ![p] = @ \ {m}]
        /\ UNCHANGED <<rnd, started, emitted, failed, ended, starts>>

\* BaseUpdate when the round can proceed: the next round starts.  On an error
\* the call returns, else it runs again with the same message.
UpdateAdvance(p, m, o) ==
    LET S == StoreMessage(store[p], m)
    IN  /\ m \in calls[p]
        /\ rnd[p] \in Round \ {Last}
        /\ CanProceed(p, RoundUpdate(rnd[p], S, ok[p]))
        /\ RunRound(p, rnd[p] + 1, o, S, IF o.good THEN calls[p] ELSE calls[p] \ {m})
        /\ UNCHANGED starts

\* BaseUpdate when the last round can proceed: p.rnd becomes nil.
UpdateFinish(p, m) ==
    LET S == StoreMessage(store[p], m)
        K == RoundUpdate(rnd[p], S, ok[p])
    IN  /\ m \in calls[p]
        /\ rnd[p] = Last
        /\ CanProceed(p, K)
        /\ rnd' = [rnd EXCEPT ![p] = 0]
        /\ store' = [store EXCEPT ![p] = S]
        /\ ok' = [ok EXCEPT ![p] = K]
        /\ UNCHANGED <<started, calls, emitted, failed, ended, starts>>

\* The caller hands a message to Update a second time.
Replay(p, m) ==
    /\ m \in store[p] \ calls[p]
    /\ m.from # p
    /\ m.type \in Replayed
    /\ calls' = [calls EXCEPT ![p] = @ \cup {m}]
    /\ UNCHANGED <<rnd, started, ok, store, emitted, failed, ended, starts>>

\* The caller passes the wrong isBroadcast with a message not yet handed over.
Misflag(p, m) ==
    /\ m \in calls[p] \ store[p]
    /\ m.type \in Misflagged
    /\ m = Msg(m.type, m.from)
    /\ calls' = [calls EXCEPT ![p] = (@ \ {m}) \cup {WrongFlag(m.type, m.from)}]
    /\ UNCHANGED <<rnd, started, ok, store, emitted, failed, ended, starts>>

\* Start on a party, and one pass of an Update call through the mutex.
Start(p) == \E o \in Outcomes[p][1] : BaseStart(p, o)
BaseUpdate(p, m) ==
    \/ UpdateStore(p, m)
    \/ UpdateWait(p, m)
    \/ /\ rnd[p] \in Round \ {Last}
       /\ \E o \in Outcomes[p][rnd[p] + 1] : UpdateAdvance(p, m, o)
    \/ UpdateFinish(p, m)

Next ==
    \E p \in Party :
        \/ Start(p)
        \/ \E m \in calls[p] : BaseUpdate(p, m)
        \/ \E m \in store[p] : Replay(p, m)
        \/ \E m \in calls[p] : Misflag(p, m)

Spec == Init /\ [][Next]_vars

\* The application starts every party, and while there are Update calls on a
\* party one of them gets the mutex (sync.Mutex is handed to a waiter).
Fairness ==
    /\ \A p \in Party : WF_vars(Start(p))
    /\ \A p \in Party : WF_vars(\E m \in calls[p] : BaseUpdate(p, m))

FairSpec == Spec /\ Fairness

-----------------------------------------------------------------------------
(***************************************************************************)
(* Properties.                                                             *)
(***************************************************************************)

\* Lock step: a party is in round r, or completed it, only after every other
\* party's Start returned without an error in each earlier round.  BaseUpdate
\* advances on `ok`, which late, early, replayed and misflagged messages fill
\* in any order; no order lets a party run ahead of a peer it depends on.
LockStep ==
    \A p, q \in Party : p # q =>
        \A r \in Round : (rnd[p] = r \/ r \in emitted[p]) =>
            \A s \in Round : s < r => s \in emitted[q]

\* p.temp holds a message of type t from q, whatever its broadcast flag.
Filled(S, t, q) == \E m \in S : m.type = t /\ m.from = q

\* Every slot a Start reads is filled: round r reads the messages of earlier
\* rounds without a nil check ("assumed to be available and != nil",
\* ecdsa/keygen/round_4.go:31).
ReadsAvailable ==
    \A p, q \in Party : p # q =>
        \A s \in Round : s < rnd[p] =>
            \A t \in Needs[s] : Filled(store[p], t, q)

\* A party whose Start failed never starts a later round, whatever messages
\* still arrive: its own slot of that round stays empty.  Rounds that set
\* their own ok, and the last one, have no such guard.
FailedStops ==
    \A p \in Party :
        (failed[p] # 0 /\ failed[p] \notin SelfOk \cup {Last}) => rnd[p] = failed[p]

\* A result is only delivered when no other party failed before the last round.
EndMeansAccepted ==
    \A p, q \in Party : (ended[p] > 0 /\ p # q) => failed[q] \in {0, Last}

\* p.rnd is nil after Start only if the result was sent ("finished! the round
\* implementation will have sent the data through the `end` channel",
\* tss/party.go:178).
FinishedHasEnded ==
    \A p \in Party : (starts[p] > 0 /\ rnd[p] = 0) => ended[p] > 0

\* What FinishedHasEnded needs of a protocol table: a last round that sets every
\* ok is one whose Start sent the result.
LastOkMeansSent ==
    \A p \in Party : \A o \in Outcomes[p][Last] : (o.started /\ o.ok = Party) => o.good

\* WaitingFor never leaves out a party that still owes its messages: a peer it
\* does not list completed the round ("the set of other parties that it is still
\* waiting for messages from", README.md:167).  An application that blames the
\* listed parties on a timeout depends on it; early messages, replays and
\* messages with the wrong isBroadcast all go into the same slots.
WaitingForSound ==
    \A p, q \in Party :
        (rnd[p] \in Round \ {Last} /\ p # q /\ q \notin WaitingFor(p)) =>
            rnd[p] \in emitted[q]

\* Everybody gets a result or the Start of some party failed: no interleaving of
\* the deliveries, late Starts included, loses the wake-up that lets a round
\* proceed.
AllEnd == <>(\/ \A p \in Party : ended[p] > 0
            \/ \E p \in Party : failed[p] # 0)
-----------------------------------------------------------------------------
(***************************************************************************)
(* The engine implements the abstract lock step, for parties that are      *)
(* started once: a party whose p.rnd is nil after Start left the last      *)
(* round.                                                                  *)
(***************************************************************************)
AbstractRound(p) == IF rnd[p] = 0 /\ starts[p] > 0 THEN Last ELSE rnd[p]

Abstract == INSTANCE LockStep WITH
    Members <- Party,
    Rounds <- Last,
    OwnOk <- SelfOk,
    at <- [p \in Party |-> AbstractRound(p)],
    done <- emitted,
    bad <- failed

\* Every behaviour of the engine, messages early, late, replayed or misflagged,
\* is a behaviour of the abstract lock step.
ImplementsLockStep == Abstract!LSSpec
=============================================================================
