----------------------------- MODULE MCTssParty -----------------------------
(***************************************************************************)
(* The engine on small networks, with the tables of RoundTables.           *)
(***************************************************************************)
EXTENDS TssParty, RoundTables

Types == UNION {Needs[r] : r \in Round}

\* The tables for this run's parties.
KeygenOutcomes == EcdsaKeygenOutcomes(0 .. N - 1)
EddsaSigningOuts == EddsaSigningOutcomes(0 .. N - 1)

\* ECDSA signing cut down to its first two rounds and the last: the rounds that
\* set their own ok before they may fail, the first of them a Prefix round.  Of
\* the two messages of round 1 the broadcast is kept.
SigningHead == <<1, 2, 8>>
SigningHeadNeeds ==
    [r \in 1 .. 3 |-> EcdsaSigningNeeds[SigningHead[r]] \ {"r1m1"}]
SigningHeadOutcomes ==
    [p \in 0 .. N - 1 |-> [r \in 1 .. 3 |->
        EcdsaSigningOutcomes(0 .. N - 1)[p][SigningHead[r]]]]
SigningHeadBcast == EcdsaSigningBcast \cap Types
SigningHeadOwnStored == EcdsaSigningOwnStored \cap Types
=============================================================================
