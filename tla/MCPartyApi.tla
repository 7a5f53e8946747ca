----------------------------- MODULE MCPartyApi -----------------------------
(* EdDSA key generation by two parties, seen by one of them: round 1 sends  *)
(* a commitment, round 2 a share and a de-commitment, round 3 the result.   *)
EXTENDS PartyApi

EddsaSends == <<1, 2, 0>>
EddsaNeeds == <<{"KGRound1Message"}, {"KGRound2Message1", "KGRound2Message2"}, {}>>
BothSetups ==
    {[drainer |-> TRUE, cap |-> 1, endCap |-> 1],
     [drainer |-> FALSE, cap |-> 2 * 3, endCap |-> 2]}
=============================================================================
