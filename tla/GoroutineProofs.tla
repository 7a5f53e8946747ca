-------------------------- MODULE GoroutineProofs ---------------------------
(***************************************************************************)
(* The goroutines inside one party.  First the calls of tss/party.go: what *)
(* the mutex guarantees for every number of goroutines, every table of     *)
(* rounds and every number of calls.  Then the generation of               *)
(* pre-parameters: what its channels and wait groups guarantee for every   *)
(* number of workers, of primes and of attempts.                           *)
(***************************************************************************)
EXTENDS PartyApi, PreParams, TLAPS

-----------------------------------------------------------------------------
(* The calls of a party.                                                   *)


\* The places where a goroutine holds the mutex.
Holding == {"startCheck", "run", "ended", "update", "waitRead"}
Outside == {"idle", "startLock", "waitLock", "validate", "wrapCheck", "wrapUse", "updateLock"}

\* Only the holder of the mutex is between p.lock() and p.unlock().
Exclusion ==
    /\ pc \in [Thread -> Outside \cup Holding]
    /\ \A t \in Thread : pc[t] \in Holding => mtx = t

\* A run is counted once when it begins and once when it ends, and p.rnd is nil
\* exactly between runs.
Counted ==
    /\ rnd \in 0 .. LastRound
    /\ starts \in Nat /\ finishes \in Nat
    /\ starts = finishes + (IF rnd = 0 THEN 0 ELSE 1)

\* The inductive invariant: OneStartPerRun itself is not inductive, for it does
\* not say who else is under the mutex.
Inv == Exclusion /\ Counted

LEMMA RoundsNat == LastRound \in Nat \ {0}
BY PartyApiAssumption DEF LastRound

\* Goto moves one goroutine to a place outside the mutex.
LEMMA Leave ==
    ASSUME Exclusion, NEW t \in Thread, NEW l \in Outside, Goto(t, l),
           mtx' = mtx \/ pc[t] \in Holding
    PROVE  Exclusion'
BY DEF Exclusion, Holding, Outside, Goto

\* Goto moves one goroutine to a place under the mutex, which it just took.
LEMMA Enter ==
    ASSUME Exclusion, NEW t \in Thread, NEW l \in Holding, Goto(t, l), Lock(t)
    PROVE  Exclusion'
BY ThreadAssumption DEF Exclusion, Goto, Lock

\* Goto moves the holder of the mutex to another place under it.
LEMMA Stay ==
    ASSUME Exclusion, NEW t \in Thread, NEW l \in Holding, Goto(t, l),
           pc[t] \in Holding, mtx' = mtx
    PROVE  Exclusion'
BY DEF Exclusion, Goto

LEMMA InvInit == ASSUME Init PROVE Inv
BY RoundsNat DEF Init, Inv, Exclusion, Counted, Holding, Outside

\* Every step of a goroutine keeps the mutual exclusion.
LEMMA ExclusionStep ==
    ASSUME Exclusion, [Next]_vars PROVE Exclusion'
<1>1. CASE UNCHANGED vars
  BY <1>1 DEF vars, Exclusion
<1>2. CASE Drain \/ TakeResult
  BY <1>2 DEF Drain, TakeResult, Exclusion
<1>3. ASSUME NEW t \in Thread, Call(t) PROVE Exclusion'
  BY <1>3, Leave DEF Call, Holding, Outside
<1>4. ASSUME NEW t \in Thread, Step(t) PROVE Exclusion'
  <2>1. CASE WaitingFor(t)
    BY <2>1, Leave, Enter DEF WaitingFor, At, Holding, Outside
  <2>2. CASE StartLock(t)
    BY <2>2, Enter DEF StartLock, Holding, Outside
  <2>3. CASE StartCheck(t)
    BY <2>3, Leave, Stay DEF StartCheck, RunRound, At, Holding, Outside
  <2>4. CASE SendOut(t)
    BY <2>4 DEF SendOut, Exclusion
  <2>4a. CASE SendEnd(t)
    BY <2>4a, Stay DEF SendEnd, At, Holding
  <2>5. CASE RoundStarted(t)
    BY <2>5, Leave DEF RoundStarted, AllSent, At, Holding, Outside
  <2>6. CASE ValidateMessage(t)
    BY <2>6, Leave DEF ValidateMessage, Holding, Outside
  <2>7. CASE WrapCheck(t)
    BY <2>7, Leave DEF WrapCheck, Holding, Outside
  <2>8. CASE WrapUse(t)
    BY <2>8, Leave DEF WrapUse, Holding, Outside
  <2>9. CASE UpdateLock(t)
    BY <2>9, Enter DEF UpdateLock, Holding, Outside
  <2>10. CASE Update(t)
    BY <2>10, Leave, Stay DEF Update, RunRound, At, Holding, Outside
  <2> QED
    BY <1>4, <2>1, <2>2, <2>3, <2>4, <2>5, <2>6, <2>7, <2>8, <2>9, <2>10, <2>4a DEF Step
<1> QED BY <1>1, <1>2, <1>3, <1>4 DEF Next

\* The counters change only where p.rnd leaves nil and where it becomes nil.
LEMMA CountedStep ==
    ASSUME Counted, [Next]_vars PROVE Counted'
<1>1. CASE UNCHANGED <<rnd, starts, finishes>>
  BY <1>1 DEF Counted
<1>2. ASSUME NEW t \in Thread, StartCheck(t) PROVE Counted'
  BY <1>2, RoundsNat DEF StartCheck, RunRound, Counted
<1>3. ASSUME NEW t \in Thread, Update(t) PROVE Counted'
  BY <1>3, RoundsNat DEF Update, RunRound, CanProceed, Counted
<1> QED
  BY <1>1, <1>2, <1>3
  DEF Next, vars, Drain, TakeResult, Call, Step, WaitingFor, StartLock, SendOut, SendEnd, RoundStarted,
      ValidateMessage, WrapCheck, WrapUse, UpdateLock

-----------------------------------------------------------------------------
\* However the calls of Start race with each other and with the Update that
\* leaves the last round, each run of the party is started once, and only one
\* goroutine at a time runs a round (party.go:124).
THEOREM OneStartPerRunHolds == Spec => []OneStartPerRun
<1>1. Inv /\ [Next]_vars => Inv'
  BY ExclusionStep, CountedStep DEF Inv
<1>2. Inv => OneStartPerRun
  BY DEF Inv, Exclusion, Counted, Holding, OneStartPerRun
<1> QED BY <1>1, <1>2, InvInit, PTL DEF Spec

-----------------------------------------------------------------------------
(* The generation of pre-parameters.                                       *)


Label == {"check", "search", "sendPrime", "sendErr", "done"}

\* The search for the primes of NTilde: the caller is in its select exactly as
\* long as it has no result, and leaves the wait group only after the workers.
SearchInv ==
    /\ worker \in [Worker -> Label]
    /\ got \in Nat
    /\ caller \in {"select", "wait", "returned"}
    /\ caller = "select" => result = "none" /\ got < NumPrimes
    /\ got <= NumPrimes /\ ((result = "primes") <=> (got = NumPrimes))
    /\ closed => caller = "returned"
    /\ caller = "returned" => \A w \in Worker : worker[w] = "done"

\* The same of what the search for the Paillier primes holds, however often it is
\* begun anew.
PaiCount ==
    /\ paiGot \in Nat
    /\ paiCaller = "select" => paiResult = "none" /\ paiGot < NumPrimes
    /\ paiGot <= NumPrimes /\ ((paiResult = "primes") <=> (paiGot = NumPrimes))

\* A goroutine that sent its result has finished its search, and what is in its
\* channel, what the caller took from it and what it returned tell its result.
DeliveryInv ==
    /\ sgpRtn = "done" => caller = "returned"
    /\ paiRtn = "done" => paiCaller = "returned"
    /\ sgpCh \in {"empty", "nil", "value"} /\ paiCh \in {"empty", "nil", "value"}
    /\ sgpCh # "empty" => sgpRtn = "done" /\ (sgpCh = "value" <=> result = "primes")
    /\ paiCh # "empty" => paiRtn = "done" /\ (paiCh = "value" <=> paiResult = "primes")
    /\ sgps => sgpRtn = "done" /\ result = "primes"
    /\ paiSK => paiRtn = "done" /\ paiResult = "primes"
    /\ ret = "params" => sgps /\ paiSK
    /\ ret = "error" => \/ sgpRtn = "done" /\ result # "primes"
                        \/ paiRtn = "done" /\ paiResult # "primes"

-----------------------------------------------------------------------------
\* A step of the search keeps SearchInv: above all no worker takes a step once
\* the channels are closed.
LEMMA SearchStep == ASSUME SearchInv, SearchNext PROVE SearchInv'
<1> USE SafePrimesAssumption DEF SearchInv, Label
<1>1. CASE TakePrime
  BY <1>1 DEF TakePrime
<1>2. CASE TakeErr
  BY <1>2 DEF TakeErr
<1>3. CASE TakeDone
  BY <1>3 DEF TakeDone
<1>4. CASE Return
  BY <1>4 DEF Return
<1>5. CASE Timeout
  BY <1>5 DEF Timeout
<1>6. ASSUME NEW w \in Worker, WorkerStep(w) PROVE SearchInv'
  <2>1. CASE Check(w)
    BY <2>1 DEF Check
  <2>2. CASE Search(w)
    BY <2>2 DEF Search
  <2>3. CASE SendPrime(w)
    BY <2>3 DEF SendPrime
  <2>4. CASE SendErr(w)
    BY <2>4 DEF SendErr
  <2> QED BY <1>6, <2>1, <2>2, <2>3, <2>4 DEF WorkerStep
<1> QED BY <1>1, <1>2, <1>3, <1>4, <1>5, <1>6 DEF SearchNext, CallerStep

LEMMA PaiCountStep == ASSUME PaiCount, [PPNext]_allVars PROVE PaiCount'
<1> USE SafePrimesAssumption DEF PaiCount
<1>1. CASE PaiSearch
  <2>1. CASE Pai!TakePrime
    BY <2>1 DEF Pai!TakePrime
  <2>2. CASE Pai!TakeErr
    BY <2>2 DEF Pai!TakeErr
  <2>3. CASE Pai!TakeDone
    BY <2>3 DEF Pai!TakeDone
  <2>4. CASE Pai!Return
    BY <2>4 DEF Pai!Return
  <2>5. CASE Pai!Timeout
    BY <2>5 DEF Pai!Timeout
  <2>6. ASSUME NEW w \in PaiWorker, Pai!WorkerStep(w) PROVE PaiCount'
    BY <2>6 DEF Pai!WorkerStep, Pai!Check, Pai!Search, Pai!SendPrime, Pai!SendErr
  <2> QED
    BY <1>1, <2>1, <2>2, <2>3, <2>4, <2>5, <2>6 DEF PaiSearch, Pai!SearchNext, Pai!CallerStep
<1>2. CASE SearchAgain
  BY <1>2 DEF SearchAgain
<1>3. CASE UNCHANGED paiSearch
  BY <1>3 DEF paiSearch
<1> QED
  BY <1>1, <1>2, <1>3 DEF PPNext, allVars, SgpSearch, SendSgps, SendPai, ConsumeSgps, ConsumePai

\* A search that returned keeps its result, whatever its timer still does.
LEMMA SgpResultStays ==
    ASSUME SearchNext, caller = "returned" PROVE caller' = "returned" /\ result' = result
BY DEF SearchNext, CallerStep, TakePrime, TakeErr, TakeDone, Return, Timeout,
       WorkerStep, Check, Search, SendPrime, SendErr

LEMMA PaiResultStays ==
    ASSUME Pai!SearchNext, paiCaller = "returned"
    PROVE paiCaller' = "returned" /\ paiResult' = paiResult
BY DEF Pai!SearchNext, Pai!CallerStep, Pai!TakePrime, Pai!TakeErr, Pai!TakeDone, Pai!Return,
       Pai!Timeout, Pai!WorkerStep, Pai!Check, Pai!Search, Pai!SendPrime, Pai!SendErr

\* Only a step of its own search changes the variables of that search, except
\* that SearchAgain begins the Paillier search anew.
LEMMA SearchInvStep ==
    ASSUME SearchInv, [PPNext]_allVars PROVE SearchInv'
<1>1. CASE SgpSearch
  BY <1>1, SearchStep DEF SgpSearch
<1>2. CASE UNCHANGED sgpSearch
  BY <1>2 DEF sgpSearch, searchVars, SearchInv
<1> QED
  BY <1>1, <1>2 DEF PPNext, allVars, PaiSearch, SendSgps, SearchAgain, SendPai,
                    ConsumeSgps, ConsumePai

LEMMA DeliveryInvStep ==
    ASSUME DeliveryInv, [PPNext]_allVars PROVE DeliveryInv'
<1> USE DEF DeliveryInv
<1>1. CASE SgpSearch
  BY <1>1, SgpResultStays DEF SgpSearch, paiSearch, ppVars
<1>2. CASE PaiSearch
  BY <1>2, PaiResultStays DEF PaiSearch, sgpSearch, searchVars, ppVars
<1>3. CASE SendSgps
  BY <1>3 DEF SendSgps, CanSend, sgpSearch, searchVars, paiSearch
<1>4. CASE SearchAgain
  BY <1>4 DEF SearchAgain, sgpSearch, searchVars
<1>5. CASE SendPai
  BY <1>5 DEF SendPai, CanSend, sgpSearch, searchVars, paiSearch
<1>6. CASE ConsumeSgps
  BY <1>6 DEF ConsumeSgps, sgpSearch, searchVars, paiSearch
<1>7. CASE ConsumePai
  BY <1>7 DEF ConsumePai, sgpSearch, searchVars, paiSearch
<1>8. CASE UNCHANGED allVars
  BY <1>8 DEF allVars, sgpSearch, searchVars, paiSearch, ppVars
<1> QED
  BY <1>1, <1>2, <1>3, <1>4, <1>5, <1>6, <1>7, <1>8 DEF PPNext

LEMMA InitEstablishes == ASSUME PPInit PROVE SearchInv /\ PaiCount /\ DeliveryInv
BY SafePrimesAssumption
DEF PPInit, SearchInit, Pai!SearchInit, SearchInv, PaiCount, DeliveryInv, Label

LEMMA Invariance == PPSpec => [](SearchInv /\ PaiCount /\ DeliveryInv)
<1>1. SearchInv /\ PaiCount /\ DeliveryInv /\ [PPNext]_allVars
         => (SearchInv /\ PaiCount /\ DeliveryInv)'
  BY SearchInvStep, PaiCountStep, DeliveryInvStep
<1> QED BY <1>1, InitEstablishes, PTL DEF PPSpec

-----------------------------------------------------------------------------
\* Whatever the timer, the workers and the caller do, no worker sends on a
\* channel that the deferred close of safe_prime.go has closed.
THEOREM NoSendOnClosedHolds == PPSpec => []NoSendOnClosed
<1>1. SearchInv => NoSendOnClosed
  BY DEF SearchInv, NoSendOnClosed
<1> QED BY <1>1, Invariance, PTL

\* GeneratePreParams returns parameters only if both searches collected all their
\* primes, and an error only if one ended short of that, in whichever order the
\* two channels are read, however often the Paillier search is repeated and
\* whenever a timer fires.
THEOREM PreParamsJustifiedHolds == PPSpec => []PreParamsJustified
<1>1. SearchInv /\ PaiCount /\ DeliveryInv => PreParamsJustified
  BY SafePrimesAssumption DEF SearchInv, PaiCount, DeliveryInv, PreParamsJustified
<1> QED BY <1>1, Invariance, PTL
=============================================================================
