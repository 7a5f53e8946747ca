----------------------------- MODULE SafePrimes -----------------------------
(***************************************************************************)
(* GetRandomSafePrimesConcurrent of common/safe_prime.go: worker           *)
(* goroutines search for safe primes and send them through a buffered      *)
(* channel, the caller collects numPrimes of them, a timer cancels the     *)
(* shared context, and the deferred calls wait for the workers before they *)
(* close the channels.                                                     *)
(*                                                                         *)
(* A prime is abstracted to "one found"; what a worker's search yields     *)
(* (nothing, a prime, an error of the random source) is any of the three.  *)
(***************************************************************************)
EXTENDS Naturals, FiniteSets

CONSTANTS
    Worker,      \* the search goroutines; their number is `concurrency`
    NumPrimes    \* how many primes the caller asked for

ASSUME SafePrimesAssumption ==
    IsFiniteSet(Worker) /\ Worker # {} /\ NumPrimes \in Nat \ {0}

Concurrency == Cardinality(Worker)
PrimeCap == Concurrency * NumPrimes   \* capacity of primeCh
ErrCap == Concurrency                 \* capacity of errCh

VARIABLES
    cancelled,  \* ctx.Done() is closed
    primeCh,    \* primes buffered in primeCh
    errCh,      \* errors buffered in errCh
    worker,     \* worker[w]: where the goroutine is
    caller,     \* "select", "wait" (deferred waitGroup.Wait) or "returned"
    got,        \* len(primes)
    result,     \* what the caller is about to return
    closed      \* primeCh and errCh are closed

searchVars == <<cancelled, primeCh, errCh, worker, caller, got, result, closed>>

SearchInit ==
    /\ cancelled = FALSE
    /\ primeCh = 0
    /\ errCh = 0
    /\ worker = [w \in Worker |-> "check"]
    /\ caller = "select"
    /\ got = 0
    /\ result = "none"
    /\ closed = FALSE

\* The select at the top of a worker's loop: it stops once the context is done.
Check(w) ==
    /\ worker[w] = "check"
    /\ worker' = [worker EXCEPT ![w] = IF cancelled THEN "done" ELSE "search"]
    /\ UNCHANGED <<cancelled, primeCh, errCh, caller, got, result, closed>>

\* One candidate: no prime (next iteration), a prime, or a read error.
Search(w) ==
    /\ worker[w] = "search"
    /\ \E next \in {"check", "sendPrime", "sendErr"} : worker' = [worker EXCEPT ![w] = next]
    /\ UNCHANGED <<cancelled, primeCh, errCh, caller, got, result, closed>>

\* primeCh <- prime: blocks while the buffer is full.
SendPrime(w) ==
    /\ worker[w] = "sendPrime"
    /\ primeCh < PrimeCap
    /\ primeCh' = primeCh + 1
    /\ worker' = [worker EXCEPT ![w] = "check"]
    /\ UNCHANGED <<cancelled, errCh, caller, got, result, closed>>

\* errCh <- err, and the goroutine returns.
SendErr(w) ==
    /\ worker[w] = "sendErr"
    /\ errCh < ErrCap
    /\ errCh' = errCh + 1
    /\ worker' = [worker EXCEPT ![w] = "done"]
    /\ UNCHANGED <<cancelled, primeCh, caller, got, result, closed>>

\* The timer goroutine: cancel() after the timeout.
Timeout ==
    /\ ~cancelled
    /\ cancelled' = TRUE
    /\ UNCHANGED <<primeCh, errCh, worker, caller, got, result, closed>>

\* case result := <-primeCh; the last prime needed cancels and returns.
TakePrime ==
    /\ caller = "select"
    /\ primeCh > 0
    /\ primeCh' = primeCh - 1
    /\ got' = got + 1
    /\ IF got + 1 = NumPrimes
       THEN cancelled' = TRUE /\ caller' = "wait" /\ result' = "primes"
       ELSE UNCHANGED <<cancelled, caller, result>>
    /\ UNCHANGED <<errCh, worker, closed>>

\* case err := <-errCh: cancel and return the error.
TakeErr ==
    /\ caller = "select"
    /\ errCh > 0
    /\ errCh' = errCh - 1
    /\ cancelled' = TRUE
    /\ caller' = "wait"
    /\ result' = "error"
    /\ UNCHANGED <<primeCh, worker, got, closed>>

\* case <-ctx.Done(): return the timeout error.
TakeDone ==
    /\ caller = "select"
    /\ cancelled
    /\ caller' = "wait"
    /\ result' = "timeout"
    /\ UNCHANGED <<cancelled, primeCh, errCh, worker, got, closed>>

\* Mutation of Return: no deferred waitGroup.Wait().
ReturnAtOnce ==
    /\ caller = "wait"
    /\ caller' = "returned"
    /\ closed' = TRUE
    /\ UNCHANGED <<cancelled, primeCh, errCh, worker, got, result>>

\* waitGroup.Wait() returns once every worker is done; then the channels close.
Return ==
    /\ caller = "wait"
    /\ \A w \in Worker : worker[w] = "done"
    /\ caller' = "returned"
    /\ closed' = TRUE
    /\ UNCHANGED <<cancelled, primeCh, errCh, worker, got, result>>

CallerStep == TakePrime \/ TakeErr \/ TakeDone \/ Return
WorkerStep(w) == Check(w) \/ Search(w) \/ SendPrime(w) \/ SendErr(w)

SearchNext == CallerStep \/ Timeout \/ \E w \in Worker : WorkerStep(w)

\* Every goroutine that can run does, and the timer fires eventually.
SearchFairness ==
    /\ WF_searchVars(CallerStep)
    /\ WF_searchVars(Timeout)
    /\ \A w \in Worker : WF_searchVars(WorkerStep(w))

SearchSpec == SearchInit /\ [][SearchNext]_searchVars /\ SearchFairness

-----------------------------------------------------------------------------
\* Nobody sends on a closed channel, which would panic: the channels are closed
\* only after the last worker left its loop.
NoSendOnClosed ==
    closed => \A w \in Worker : worker[w] \notin {"sendPrime", "sendErr"}
=============================================================================
