---------------------------- MODULE MCResharing ----------------------------
(* Two old members re-share a key of threshold 1 with two new ones, mod 5. *)
EXTENDS Resharing

Key2 == [c \in 0 .. 1 |-> IF c = 0 THEN 2 ELSE 3]
Key4 == [c \in 0 .. 1 |-> IF c = 0 THEN 4 ELSE 1]
Coefs == [p \in 0 .. 3 |-> [c \in 1 .. 1 |-> p + 1]]

\* The hypothesis of ResharingEndMeansMoved holds of this instance.
ASSUME OtherKeyIsSeen
=============================================================================
