----------------------------- MODULE PreParams ------------------------------
(***************************************************************************)
(* GeneratePreParams of ecdsa/keygen/prepare.go with GenerateKeyPair of    *)
(* crypto/paillier/paillier.go: two goroutines search for safe primes, one *)
(* for NTilde (the search of SafePrimes) and one for the Paillier modulus  *)
(* (a second search, repeated while its two primes are too close), and     *)
(* each sends its result, nil after a failure, through a channel of        *)
(* capacity 1.  The caller returns at the first nil, or with both results. *)
(***************************************************************************)
EXTENDS SafePrimes

CONSTANTS
    PaiWorker,    \* the search goroutines of the Paillier search
    MaxAttempts   \* bound on the searches for the Paillier primes

VARIABLES
    paiCancelled, paiPrimeCh, paiErrCh, paiWorker, paiCaller, paiGot, paiResult, paiClosed,
    attempts,      \* searches for the Paillier primes begun
    paiRtn,        \* the goroutine of the Paillier key: "search" or "done"
    sgpRtn,        \* the goroutine of the safe primes
    paiCh, sgpCh,  \* what is buffered: "empty", "nil" or "value"
    paiSK, sgps,   \* the caller holds the key, holds the primes
    ret            \* what GeneratePreParams returned: "none", "params", "error"

paiSearch == <<paiCancelled, paiPrimeCh, paiErrCh, paiWorker, paiCaller, paiGot, paiResult, paiClosed>>
sgpSearch == searchVars
ppVars == <<attempts, paiRtn, sgpRtn, paiCh, sgpCh, paiSK, sgps, ret>>

Pai == INSTANCE SafePrimes WITH
    Worker <- PaiWorker,
    cancelled <- paiCancelled, primeCh <- paiPrimeCh, errCh <- paiErrCh, worker <- paiWorker,
    caller <- paiCaller, got <- paiGot, result <- paiResult, closed <- paiClosed

PPInit ==
    /\ SearchInit /\ Pai!SearchInit
    /\ attempts = 1
    /\ paiRtn = "search" /\ sgpRtn = "search"
    /\ paiCh = "empty" /\ sgpCh = "empty"
    /\ paiSK = FALSE /\ sgps = FALSE
    /\ ret = "none"

\* One step of a search.
SgpSearch == SearchNext /\ UNCHANGED <<paiSearch, ppVars>>
PaiSearch == Pai!SearchNext /\ UNCHANGED <<sgpSearch, ppVars>>

\* Mutation of CanSend: the channels have no buffer.
CanSendUnbuffered(ch) == ch = "empty" /\ ret = "none"

\* A send on a channel of capacity 1.
CanSend(ch) == ch = "empty"

\* GetRandomSafePrimesConcurrent returned: send the primes, or nil.
SendSgps ==
    /\ sgpRtn = "search" /\ caller = "returned"
    /\ CanSend(sgpCh)
    /\ sgpCh' = IF result = "primes" THEN "value" ELSE "nil"
    /\ sgpRtn' = "done"
    /\ UNCHANGED <<sgpSearch, paiSearch, attempts, paiRtn, paiCh, paiSK, sgps, ret>>

\* P - Q is too small: search again, with a new timeout.
SearchAgain ==
    /\ paiRtn = "search" /\ paiCaller = "returned" /\ paiResult = "primes"
    /\ attempts < MaxAttempts
    /\ attempts' = attempts + 1
    /\ paiCancelled' = FALSE
    /\ paiPrimeCh' = 0
    /\ paiErrCh' = 0
    /\ paiWorker' = [w \in PaiWorker |-> "check"]
    /\ paiCaller' = "select"
    /\ paiGot' = 0
    /\ paiResult' = "none"
    /\ paiClosed' = FALSE
    /\ UNCHANGED <<sgpSearch, paiRtn, sgpRtn, paiCh, sgpCh, paiSK, sgps, ret>>

\* GenerateKeyPair returned: send the key, or nil.
SendPai ==
    /\ paiRtn = "search" /\ paiCaller = "returned"
    /\ CanSend(paiCh)
    /\ paiCh' = IF paiResult = "primes" THEN "value" ELSE "nil"
    /\ paiRtn' = "done"
    /\ UNCHANGED <<sgpSearch, paiSearch, attempts, sgpRtn, sgpCh, paiSK, sgps, ret>>

\* case sgps = <-sgpCh
ConsumeSgps ==
    /\ ret = "none" /\ sgpCh # "empty"
    /\ sgpCh' = "empty"
    /\ sgps' = (sgpCh = "value")
    /\ ret' = IF sgpCh = "nil" THEN "error" ELSE IF paiSK THEN "params" ELSE "none"
    /\ UNCHANGED <<sgpSearch, paiSearch, attempts, paiRtn, sgpRtn, paiCh, paiSK>>

\* Mutation of ConsumePai: nil is taken for a key.
ConsumePaiUnchecked ==
    /\ ret = "none" /\ paiCh # "empty"
    /\ paiCh' = "empty"
    /\ paiSK' = TRUE
    /\ ret' = IF sgps THEN "params" ELSE "none"
    /\ UNCHANGED <<sgpSearch, paiSearch, attempts, paiRtn, sgpRtn, sgpCh, sgps>>

\* case paiSK = <-paiCh
ConsumePai ==
    /\ ret = "none" /\ paiCh # "empty"
    /\ paiCh' = "empty"
    /\ paiSK' = (paiCh = "value")
    /\ ret' = IF paiCh = "nil" THEN "error" ELSE IF sgps THEN "params" ELSE "none"
    /\ UNCHANGED <<sgpSearch, paiSearch, attempts, paiRtn, sgpRtn, sgpCh, sgps>>

PPNext ==
    \/ SgpSearch \/ PaiSearch
    \/ SendSgps \/ SearchAgain \/ SendPai \/ ConsumeSgps \/ ConsumePai

allVars == <<sgpSearch, paiSearch, ppVars>>

\* Every goroutine that can run does, and the timers fire; a search that found
\* primes too close to each other ends some time (MaxAttempts).
PPFairness ==
    /\ WF_allVars(CallerStep /\ UNCHANGED <<paiSearch, ppVars>>)
    /\ WF_allVars(Timeout /\ UNCHANGED <<paiSearch, ppVars>>)
    /\ \A w \in Worker : WF_allVars(WorkerStep(w) /\ UNCHANGED <<paiSearch, ppVars>>)
    /\ WF_allVars(Pai!CallerStep /\ UNCHANGED <<sgpSearch, ppVars>>)
    /\ WF_allVars(Pai!Timeout /\ UNCHANGED <<sgpSearch, ppVars>>)
    /\ \A w \in PaiWorker : WF_allVars(Pai!WorkerStep(w) /\ UNCHANGED <<sgpSearch, ppVars>>)
    /\ WF_allVars(SendSgps)
    /\ WF_allVars(SendPai \/ SearchAgain)
    /\ WF_allVars(ConsumeSgps \/ ConsumePai)

PPSpec == PPInit /\ [][PPNext]_allVars /\ PPFairness

-----------------------------------------------------------------------------
\* Parameters are returned only if each search collected all its primes, and an
\* error only if one of them ended short of that: a timeout that races the last
\* prime (safe_prime.go:169) costs no complete search and completes no other.
PreParamsJustified ==
    /\ ret = "params" => got = NumPrimes /\ paiGot = NumPrimes
    /\ ret = "error" => \/ sgpRtn = "done" /\ got < NumPrimes
                        \/ paiRtn = "done" /\ paiGot < NumPrimes

\* A worker waits for room in a channel of primes that nobody reads any more.
Stuck ==
    \/ caller = "wait" /\ primeCh = PrimeCap /\ \E w \in Worker : worker[w] = "sendPrime"
    \/ /\ paiCaller = "wait" /\ paiPrimeCh = Pai!PrimeCap
       /\ \E w \in PaiWorker : paiWorker[w] = "sendPrime"

\* GeneratePreParams returns and leaves no goroutine behind, also after an early
\* error return, unless a search is stuck: "consume chans to end goroutines
\* here" (prepare.go:80).
GoroutinesEnd ==
    <>(ret # "none" /\ paiRtn = "done" /\ sgpRtn = "done") \/ <>[]Stuck
=============================================================================
