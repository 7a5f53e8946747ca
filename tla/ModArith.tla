------------------------------ MODULE ModArith ------------------------------
(***************************************************************************)
(* Modular arithmetic and the random numbers drawn from it: common/int.go, *)
(* common/random.go and common/hash_utils.go.  A random number is any      *)
(* member of the set its generator can return.                             *)
(***************************************************************************)
EXTENDS Integers

Nil == -1   \* a nil *big.Int, or the value that goes with an error

\* modInt.Mul; y is cut into two digits so that no product exceeds 31 bits
\* (n < 2^18).
MulMod(x, y, n) ==
    LET a == x % n
        b == y % n
    IN  (((a * (b \div 512)) % n) * 512 + a * (b % 512)) % n

\* big.Int.GCD with the Bezout coefficients: <<gcd, s, t>>, gcd = s*a + t*b.
xgcd[p \in Nat \X Nat] ==
    IF p[2] = 0 THEN <<p[1], 1, 0>>
    ELSE LET r == xgcd[<<p[2], p[1] % p[2]>>]
         IN  <<r[1], r[3], r[2] - (p[1] \div p[2]) * r[3]>>

GCD(a, b) == xgcd[<<a, b>>][1]

\* modInt.Inverse: nil if g has no inverse mod n.
Inverse(g, n) ==
    LET r == xgcd[<<g % n, n>>] IN IF r[1] = 1 THEN r[2] % n ELSE Nil

Power(x, k, n) ==
    LET pow[i \in Nat] ==
            IF i = 0 THEN 1 % n
            ELSE LET h == pow[i \div 2]
                 IN  MulMod(MulMod(h, h, n), IF i % 2 = 1 THEN x ELSE 1, n)
    IN  pow[k]

\* modInt.Exp: a negative exponent inverts the base, nil if it cannot.
Exp(x, y, n) ==
    IF y >= 0 THEN Power(x % n, y, n)
    ELSE IF GCD(x % n, n) # 1 THEN Nil
    ELSE Power(Inverse(x, n), -y, n)

IsInInterval(b, bound) == 0 <= b /\ b < bound

IsNumberInMultiplicativeGroup(n, v) == 1 <= v /\ v < n /\ GCD(v, n) = 1

\* What the generators can return: 0 is among the "positive" numbers.
RandomPositiveInt(upper) == 0 .. upper - 1
RandomPositiveRelativelyPrimeInt(n) ==
    {v \in RandomPositiveInt(n) : IsNumberInMultiplicativeGroup(n, v)}

\* RejectionSample: the hash reduced mod q.
RejectionSample(q, eHash) == eHash % q

\* modInt.Sqrt: a square root of x mod the prime n, nil if there is none.
Sqrt(x, n) ==
    LET roots == {y \in 0 .. n - 1 : MulMod(y, y, n) = x % n}
    IN  IF roots = {} THEN Nil ELSE CHOOSE y \in roots : TRUE
=============================================================================
