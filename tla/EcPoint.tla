------------------------------ MODULE EcPoint -------------------------------
(***************************************************************************)
(* Curve points, crypto/ecpoint.go.  The group of all points is cyclic of  *)
(* order Cofactor * Q and a point is its discrete logarithm, so the base   *)
(* point, of order Q, is Cofactor.  The two curves differ in the point at  *)
(* infinity: on edwards25519 (Cofactor 8) it is the affine point (0, 1); on*)
(* secp256k1 (Cofactor 1) the libraries return the coordinates (0, 0),     *)
(* which are not on the curve.  NewECPoint then fails, and the functions   *)
(* that drop its error return a nil point whose next use panics.           *)
(***************************************************************************)
EXTENDS ModArith

CONSTANTS
    Q,              \* order of the base point, a prime
    Cofactor,       \* order of the whole group divided by Q
    InfinityAffine  \* infinity is an affine point (edwards25519)

Order == Cofactor * Q
Base == Cofactor
Panic == -2         \* a nil pointer was dereferenced
Point == IF InfinityAffine THEN 0 .. Order - 1 ELSE 1 .. Order - 1

\* NewECPoint on the coordinates of a library call.
NewECPoint(p) == IF p \in Point THEN p ELSE Nil

\* Add, whose error goes with a nil point; both receivers must not be nil.
Add(p, b) == IF p < 0 \/ b < 0 THEN Panic ELSE NewECPoint((p + b) % Order)

\* ScalarMult multiplies by k.Bytes(), the absolute value of k.
ScalarMult(p, k) ==
    IF p < 0 THEN Panic
    ELSE NewECPoint((p * ((IF k < 0 THEN -k ELSE k) % Order)) % Order)
ScalarBaseMult(k) == ScalarMult(Base, k)

Neg(p) == IF p < 0 THEN Panic ELSE (Order - p) % Order
Sub(p, b) == Add(p, Neg(b))

\* EightInvEight clears the component of small order.
EightInvEight(p) == ScalarMult(ScalarMult(p, 8), Inverse(8, Q))

\* Equals on points that may be nil.
Equals(p, b) == p >= 0 /\ b >= 0 /\ p = b
=============================================================================
