------------------------------ MODULE MCSigning -----------------------------
(***************************************************************************)
(* The two signing protocols: four signers of a key of threshold 3 mod 11, *)
(* two of which may be faulty, run the ECDSA or the EdDSA protocol.        *)
(***************************************************************************)
EXTENDS MCEcdsaSigning, EddsaSigning

VARIABLE scheme   \* the protocol of this run; the other one does not start

TenNonces == {[p \in Four |-> 1 + ((3 * p + a) % (Q - 1))] : a \in 0 .. 9}

\* The protocol that does not run stays where its parties were created.
EcdsaIdle == Init /\ fault = [p \in Four |-> <<"none", p>>]
                  /\ nonce = CHOOSE n \in TwoNonces : TRUE
EddsaIdle == EdInit /\ edFault = [p \in Four |-> "none"]
                    /\ edRi = CHOOSE r \in TenNonces : TRUE

InitBoth ==
    \/ scheme = "ecdsa" /\ Init /\ EddsaIdle
    \/ scheme = "eddsa" /\ EcdsaIdle /\ EdInit

NextBoth ==
    \/ scheme = "ecdsa" /\ Next /\ UNCHANGED <<scheme, edVars>>
    \/ scheme = "eddsa" /\ EdNext /\ UNCHANGED <<scheme, vars>>

SpecBoth == InitBoth /\ [][NextBoth]_<<scheme, vars, edVars>>
=============================================================================
