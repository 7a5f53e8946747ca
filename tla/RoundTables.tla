---------------------------- MODULE RoundTables ----------------------------
(***************************************************************************)
(* The lock-step protocols of the library as tables for TssParty: for each *)
(* round the message types its Start sends and its Update waits for, the   *)
(* types CanAccept wants as broadcasts, and what Start leaves in `started` *)
(* and `ok`, on success and on each kind of error return.                  *)
(***************************************************************************)
EXTENDS Naturals

Good(S) == [good |-> TRUE, started |-> TRUE, ok |-> S]
Bad(S) == [good |-> FALSE, started |-> TRUE, ok |-> S]
BadBeforeStarted == [good |-> FALSE, started |-> FALSE, ok |-> {}]

-----------------------------------------------------------------------------
(* ecdsa/keygen: four rounds, the last one verifies the Paillier proofs.   *)

EcdsaKeygenNeeds == <<{"r1"}, {"r2m1", "r2m2"}, {"r3"}, {}>>
EcdsaKeygenBcast == {"r1", "r2m2", "r3"}

\* Mutation of EcdsaKeygenOutcomes: ok[j] is set before the proof is verified.
EcdsaKeygenOutcomesOkFirst(P) ==
    [p \in P |-> [r \in 1 .. 4 |->
        IF r < 4 THEN {Good({}), Bad({})} ELSE {Good(P), Bad(P)}]]

\* Round 4 sets ok[i], and ok[j] for each proof that verifies; the result goes
\* out only when all do, so ok is full exactly on success.
EcdsaKeygenOutcomes(P) ==
    [p \in P |-> [r \in 1 .. 4 |->
        IF r < 4 THEN {Good({}), Bad({})}
        ELSE {Good(P)} \cup {Bad(S) : S \in {X \in SUBSET P : p \in X /\ X # P}}]]

-----------------------------------------------------------------------------
(* ecdsa/signing with a message (all rounds online): seven rounds and the  *)
(* finalization.  Start may fail before `started` is set (prepare, or a    *)
(* message that is out of range); rounds 1 and 2 set their own ok first    *)
(* and do not fill their own slot for round 2.                             *)

EcdsaSigningNeeds ==
    <<{"r1m1", "r1m2"}, {"r2"}, {"r3"}, {"r4"}, {"r5"}, {"r6"}, {"r7"}, {}>>
EcdsaSigningBcast == {"r1m2", "r3", "r4", "r5", "r6", "r7"}
EcdsaSigningOwnStored == {"r1m1", "r1m2", "r3", "r4", "r5", "r6", "r7"}
EcdsaSigningSelfOk == {1, 2}
EcdsaSigningPrefix == {1}
EcdsaSigningOutcomes(P) ==
    [p \in P |-> [r \in 1 .. 8 |->
        CASE r = 1 -> {Good({p}), Bad({p}), BadBeforeStarted}
          [] r = 2 -> {Good({p}), Bad({p})}
          [] OTHER -> {Good({}), Bad({})}]]

-----------------------------------------------------------------------------
(* eddsa/signing: three rounds and the finalization, which sets every ok   *)
(* before it verifies the signature.                                       *)

EddsaSigningNeeds == <<{"r1"}, {"r2"}, {"r3"}, {}>>
EddsaSigningOutcomes(P) ==
    [p \in P |-> [r \in 1 .. 4 |->
        CASE r = 1 -> {Good({}), BadBeforeStarted}
          [] r = 4 -> {Good(P), Bad(P)}
          [] OTHER -> {Good({}), Bad({})}]]
=============================================================================
