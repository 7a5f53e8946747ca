------------------------------ MODULE MCKeygen ------------------------------
(* Key generation of four parties mod 5 with threshold 1.                  *)
EXTENDS Keygen

Four == 0 .. 3

\* Two polynomials u + a*x.
TwoPolys == {f \in [0 .. 1 -> Zq] : f[1] \in {1, 3} /\ f[0] = 2 * f[1] % Q}
=============================================================================
