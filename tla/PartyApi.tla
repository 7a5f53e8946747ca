------------------------------ MODULE PartyApi ------------------------------
(***************************************************************************)
(* The calls of tss/party.go as an application makes them: goroutines call *)
(* Start, Update (UpdateFromBytes ends in it) and WaitingFor of one party. *)
(* A step is what happens between two accesses to what the goroutines      *)
(* share: the mutex, p.rnd, which WrapError reads without the mutex, the   *)
(* message slots and the channels `out` and `end`, which a round writes    *)
(* while its caller holds the mutex.                                       *)
(*                                                                         *)
(* What a round computes is left to TssParty.  Here a round sends its      *)
(* messages, or fails before one of them, and is complete once the         *)
(* messages it waits for are stored; the last round sends the result too.  *)
(***************************************************************************)
EXTENDS Naturals, Sequences, FiniteSets, FiniteSetsExt

CONSTANTS
    Thread,     \* the goroutines of the application that call the party
    Sends,      \* Sends[r]: how many messages round r writes to `out`
    Needs,      \* Needs[r]: the messages of the peers that complete round r
    Setups,     \* [drainer, cap, endCap]: a goroutine of its own reads `out` and
                \* `end`; their capacities
    MaxStarts,  \* bound on the calls of Start that are accepted
    MaxCalls    \* bound on the calls of the application

LastRound == Len(Sends)
Message == UNION {Needs[r] : r \in 1 .. LastRound}

ASSUME PartyApiAssumption ==
    /\ IsFiniteSet(Thread) /\ Thread # {}
    /\ Sends \in Seq(Nat) /\ LastRound > 0
    /\ DOMAIN Needs = 1 .. LastRound
    /\ \A s \in Setups : s.drainer \in BOOLEAN /\ {s.cap, s.endCap} \subseteq Nat \ {0}
    /\ MaxStarts \in Nat /\ MaxCalls \in Nat

Nobody == "nobody"
ASSUME ThreadAssumption == Nobody \notin Thread

Invalid == "invalid"   \* a message that ValidateMessage refuses

VARIABLES
    setup,     \* how the application was written: a member of Setups
    mtx,       \* the goroutine that holds p.mtx
    rnd,       \* p.rnd: the number of the round, 0 for nil
    failed,    \* the Start of the round in p.rnd returns an error
    stored,    \* messages in the slots of p.temp
    out,       \* messages buffered in the `out` channel
    end,       \* results buffered in the `end` channel
    pc,        \* pc[t]: where t is in a call, "idle" outside
    msg,       \* msg[t]: the argument of the Update t is in, Nobody in Start
    toSend,    \* toSend[t]: messages the round t runs has still to send
    starts,    \* calls of Start that were accepted
    finishes,  \* times the last round was left: rnd became nil
    calls,     \* calls made
    crashed    \* a method of a nil round was called: the process is gone

vars == <<setup, mtx, rnd, failed, stored, out, end, pc, msg, toSend, starts, finishes, calls, crashed>>

Init ==
    /\ setup \in Setups
    /\ mtx = Nobody
    /\ rnd = 0
    /\ failed = FALSE
    /\ stored = {}
    /\ out = 0 /\ end = 0
    /\ pc = [t \in Thread |-> "idle"]
    /\ msg = [t \in Thread |-> Nobody]
    /\ toSend = [t \in Thread |-> 0]
    /\ starts = 0 /\ finishes = 0 /\ calls = 0
    /\ crashed = FALSE

At(t, label) == ~crashed /\ pc[t] = label
Goto(t, label) == pc' = [pc EXCEPT ![t] = label]

\* p.lock() and p.unlock().
Lock(t) == mtx = Nobody /\ mtx' = t
Unlock(t) == mtx' = Nobody

\* p.rnd is round r and its Start begins: it sends all its messages, or fails
\* after some of them.
RunRound(t, r) ==
    /\ rnd' = r
    /\ \/ failed' = FALSE /\ toSend' = [toSend EXCEPT ![t] = Sends[r]]
       \/ failed' = TRUE /\ \E k \in 0 .. Sends[r] : toSend' = [toSend EXCEPT ![t] = k]
    /\ Goto(t, "run")

\* The application calls the party: Start, Update with a message, WaitingFor.
Call(t) ==
    /\ At(t, "idle")
    /\ calls < MaxCalls
    /\ calls' = calls + 1
    /\ \/ /\ starts + Cardinality({u \in Thread : pc[u] \in {"startLock", "startCheck"}}) < MaxStarts
          /\ Goto(t, "startLock") /\ msg' = [msg EXCEPT ![t] = Nobody]
       \/ \E m \in Message \cup {Invalid} :
             Goto(t, "validate") /\ msg' = [msg EXCEPT ![t] = m]
       \/ Goto(t, "waitLock") /\ UNCHANGED msg
    /\ UNCHANGED <<setup, mtx, rnd, failed, stored, out, end, toSend, starts, finishes, crashed>>

\* WaitingFor: p.rnd is read under the mutex.
WaitingFor(t) ==
    /\ \/ At(t, "waitLock") /\ Lock(t) /\ Goto(t, "waitRead")
       \/ At(t, "waitRead") /\ Unlock(t) /\ Goto(t, "idle")
    /\ UNCHANGED <<setup, rnd, failed, stored, out, end, msg, toSend, starts, finishes, calls, crashed>>

-----------------------------------------------------------------------------
\* BaseStart

\* Mutation of StartLock: p.lock() is dropped.
StartLockNone(t) ==
    /\ At(t, "startLock")
    /\ Goto(t, "startCheck")
    /\ UNCHANGED <<setup, mtx, rnd, failed, stored, out, end, msg, toSend, starts, finishes, calls, crashed>>

StartLock(t) ==
    /\ At(t, "startLock")
    /\ Lock(t)
    /\ Goto(t, "startCheck")
    /\ UNCHANGED <<setup, rnd, failed, stored, out, end, msg, toSend, starts, finishes, calls, crashed>>

\* A round is set: error.  Otherwise FirstRound() is, with the slots as they are.
StartCheck(t) ==
    /\ At(t, "startCheck")
    /\ IF rnd # 0
       THEN /\ Unlock(t) /\ Goto(t, "idle")
            /\ UNCHANGED <<rnd, failed, toSend, starts>>
       ELSE /\ RunRound(t, 1)
            /\ starts' = starts + 1
            /\ UNCHANGED mtx
    /\ UNCHANGED <<setup, stored, out, end, msg, finishes, calls, crashed>>

-----------------------------------------------------------------------------
\* The Start of a round, in BaseStart or in BaseUpdate.

\* round.out <- msg blocks while the channel is full; the mutex is held.
SendOut(t) ==
    /\ At(t, "run")
    /\ toSend[t] > 0
    /\ out < setup.cap
    /\ out' = out + 1
    /\ toSend' = [toSend EXCEPT ![t] = @ - 1]
    /\ UNCHANGED <<setup, mtx, rnd, failed, stored, end, pc, msg, starts, finishes, calls, crashed>>

\* round.end <- *round.save in the last round blocks alike.
SendEnd(t) ==
    /\ At(t, "run")
    /\ toSend[t] = 0 /\ rnd = LastRound /\ ~failed
    /\ end < setup.endCap
    /\ end' = end + 1
    /\ Goto(t, "ended")
    /\ UNCHANGED <<setup, mtx, rnd, failed, stored, out, msg, toSend, starts, finishes, calls, crashed>>

\* Everything the Start of the round sends is sent.
AllSent(t) ==
    \/ At(t, "run") /\ toSend[t] = 0 /\ (failed \/ rnd # LastRound)
    \/ At(t, "ended")

\* Mutation of RoundStarted: the recursive call is made with the mutex held.
RoundStartedLocked(t) ==
    /\ AllSent(t)
    /\ IF msg[t] = Nobody \/ failed
       THEN Unlock(t) /\ Goto(t, "idle")
       ELSE UNCHANGED mtx /\ Goto(t, "validate")
    /\ UNCHANGED <<setup, rnd, failed, stored, out, end, msg, toSend, starts, finishes, calls, crashed>>

\* It returns: Start ends, and so does Update if there was an error; otherwise
\* Update unlocks and calls itself again.
RoundStarted(t) ==
    /\ AllSent(t)
    /\ Unlock(t)
    /\ Goto(t, IF msg[t] = Nobody \/ failed THEN "idle" ELSE "validate")
    /\ UNCHANGED <<setup, rnd, failed, stored, out, end, msg, toSend, starts, finishes, calls, crashed>>

-----------------------------------------------------------------------------
\* BaseUpdate

\* ValidateMessage, before the mutex is locked.
ValidateMessage(t) ==
    /\ At(t, "validate")
    /\ Goto(t, IF msg[t] = Invalid THEN "wrapCheck" ELSE "updateLock")
    /\ UNCHANGED <<setup, mtx, rnd, failed, stored, out, end, msg, toSend, starts, finishes, calls, crashed>>

\* WrapError, also before the mutex is locked: p.rnd == nil ...
WrapCheck(t) ==
    /\ At(t, "wrapCheck")
    /\ Goto(t, IF rnd = 0 THEN "idle" ELSE "wrapUse")
    /\ UNCHANGED <<setup, mtx, rnd, failed, stored, out, end, msg, toSend, starts, finishes, calls, crashed>>

\* ... and p.rnd.WrapError, with what p.rnd is by now.
WrapUse(t) ==
    /\ At(t, "wrapUse")
    /\ crashed' = (rnd = 0)
    /\ Goto(t, "idle")
    /\ UNCHANGED <<setup, mtx, rnd, failed, stored, out, end, msg, toSend, starts, finishes, calls>>

UpdateLock(t) ==
    /\ At(t, "updateLock")
    /\ Lock(t)
    /\ Goto(t, "update")
    /\ UNCHANGED <<setup, rnd, failed, stored, out, end, msg, toSend, starts, finishes, calls, crashed>>

\* CanProceed after Update: a round whose Start failed does not (TssParty).
CanProceed(slots) == rnd # 0 /\ ~failed /\ Needs[rnd] \subseteq slots

\* StoreMessage, Update and, if the round is complete, advance.
Update(t) ==
    /\ At(t, "update")
    /\ stored' = stored \cup {msg[t]}
    /\ \/ /\ ~CanProceed(stored')
          /\ Unlock(t) /\ Goto(t, "idle")
          /\ UNCHANGED <<rnd, failed, toSend, finishes>>
       \/ /\ CanProceed(stored') /\ rnd < LastRound
          /\ RunRound(t, rnd + 1)
          /\ UNCHANGED <<mtx, finishes>>
       \/ /\ CanProceed(stored') /\ rnd = LastRound
          /\ rnd' = 0
          /\ finishes' = finishes + 1
          /\ Unlock(t) /\ Goto(t, "validate")
          /\ UNCHANGED <<failed, toSend>>
    /\ UNCHANGED <<setup, out, end, msg, starts, calls, crashed>>

-----------------------------------------------------------------------------
\* The application reads `out` and `end`: in a goroutine of its own, or between
\* two calls.
MayRead == ~crashed /\ (setup.drainer \/ \E t \in Thread : pc[t] = "idle")

Drain ==
    /\ MayRead
    /\ out > 0
    /\ out' = out - 1
    /\ UNCHANGED <<setup, mtx, rnd, failed, stored, end, pc, msg, toSend, starts, finishes, calls, crashed>>

TakeResult ==
    /\ MayRead
    /\ end > 0
    /\ end' = end - 1
    /\ UNCHANGED <<setup, mtx, rnd, failed, stored, out, pc, msg, toSend, starts, finishes, calls, crashed>>

\* A goroutine goes on with the call it is in.
Step(t) ==
    \/ WaitingFor(t) \/ StartLock(t) \/ StartCheck(t)
    \/ SendOut(t) \/ SendEnd(t) \/ RoundStarted(t)
    \/ ValidateMessage(t) \/ WrapCheck(t) \/ WrapUse(t) \/ UpdateLock(t) \/ Update(t)

Next == Drain \/ TakeResult \/ \E t \in Thread : Call(t) \/ Step(t)

\* A goroutine that can go on does: sync.Mutex is starvation free, hence SF for
\* the steps that lock.  A reader of its own never stops reading; one that also
\* calls the party promises nothing.
Fairness ==
    /\ \A t \in Thread : SF_vars(Step(t))
    /\ WF_vars(Drain /\ setup.drainer)
    /\ WF_vars(TakeResult /\ setup.drainer)

Spec == Init /\ [][Next]_vars /\ Fairness

-----------------------------------------------------------------------------
\* How many messages the accepted runs can write to `out`.
AllSends == MaxStarts * MapThenSumSet(LAMBDA r : Sends[r], 1 .. LastRound)

\* Every call returns if `out` and `end` have a reader of their own, or room for
\* whatever all rounds write: one Update may run every round whose messages are
\* stored already, with the mutex held at each send (keygen/round_1.go:120,
\* eddsa/keygen/round_3.go:194).
CallsReturn ==
    (setup.drainer \/ (setup.cap >= AllSends /\ setup.endCap >= MaxStarts)) =>
        \A t \in Thread : []<>(pc[t] = "idle" \/ crashed)

\* However calls of Start race with each other and with the Update that leaves
\* the last round, a run is started once: the party is started again only after
\* it finished (party.go:124), and runs as long as it has not.
OneStartPerRun ==
    /\ starts = finishes + (IF rnd = 0 THEN 0 ELSE 1)
    /\ \A t, u \in Thread : {pc[t], pc[u]} \subseteq {"run", "ended"} => t = u

\* "A `Party` has two thread-safe methods on it for receiving updates"
\* (README.md:135): no goroutine calls a method of a round that is gone.
NoNilCall == ~crashed
=============================================================================
