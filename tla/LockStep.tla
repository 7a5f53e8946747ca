------------------------------ MODULE LockStep ------------------------------
(***************************************************************************)
(* What the round engine promises, without messages: every party walks     *)
(* through rounds 1 .. Last, and leaves round r only when every party      *)
(* completed it.  TssParty implements this specification (see the mapping  *)
(* in TssParty.tla); the protocol modules are built on it.                 *)
(***************************************************************************)
EXTENDS Naturals

CONSTANTS
    Members,   \* the parties of the run
    Rounds,    \* number of the final round
    OwnOk      \* rounds a party may leave although its own Start failed

ASSUME LockStepAssumption == Rounds \in Nat \ {0} /\ OwnOk \subseteq 1 .. Rounds

VARIABLES
    at,    \* at[p]: the round p started last, 0 before Start
    done,  \* done[p]: the rounds whose Start returned without an error at p
    bad    \* bad[p]: the latest round whose Start returned an error, or 0

lsVars == <<at, done, bad>>

LSInit ==
    /\ at = [p \in Members |-> 0]
    /\ done = [p \in Members |-> {}]
    /\ bad = [p \in Members |-> 0]

\* The messages of p's current round have all arrived at p.
RoundComplete(p) ==
    at[p] > 0 =>
        /\ \A q \in Members \ {p} : at[p] \in done[q]
        /\ at[p] \in done[p] \cup OwnOk

\* The Start of p's next round, returning an error or not.
StartRound(p, good) ==
    /\ at[p] < Rounds
    /\ RoundComplete(p)
    /\ at' = [at EXCEPT ![p] = @ + 1]
    /\ done' = [done EXCEPT ![p] = IF good THEN @ \cup {at[p] + 1} ELSE @]
    /\ bad' = [bad EXCEPT ![p] = IF good THEN @ ELSE at[p] + 1]

LSNext == \E p \in Members, good \in BOOLEAN : StartRound(p, good)

LSSpec == LSInit /\ [][LSNext]_lsVars
=============================================================================
