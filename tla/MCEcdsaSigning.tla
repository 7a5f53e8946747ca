--------------------------- MODULE MCEcdsaSigning ---------------------------
(* Four signers of a key of threshold 3, mod 11.                           *)
EXTENDS EcdsaSigning

Four == 0 .. 3

Key5 == [c \in 0 .. 3 |-> <<5, 2, 7, 1>>[c + 1]]
TwoNonces ==
    {[k |-> [p \in Four |-> 1 + ((3 * p + a) % (Q - 1))],
      gamma |-> [p \in Four |-> 1 + ((p * p + 2 * a) % (Q - 1))]] : a \in {1, 4}}
Masks == [x \in Four \X Four |-> (2 * x[1] + 5 * x[2] + 3) % Q]
MasksWC == [x \in Four \X Four |-> (7 * x[1] + x[2] * x[2] + 1) % Q]
=============================================================================
