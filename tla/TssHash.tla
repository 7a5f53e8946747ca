------------------------------- MODULE TssHash ------------------------------
(***************************************************************************)
(* Numbers as bytes (big.Int.Bytes and SetBytes, common/slice.go) and what *)
(* the hash functions of common/hash.go feed to SHA-512/256.  The digest   *)
(* itself is external: a small function with a salt, so that every value   *)
(* is the digest of a given input for some salt.                           *)
(***************************************************************************)
EXTENDS ModArith, Sequences

ByteBase == 4              \* a byte is one of ByteBase values (256)
LenWidth == 2              \* bytes of a length field (8)
hashInputDelimiter == 2    \* '$'
DigestRange == 8           \* digests are 0 .. DigestRange-1 (2^256)

\* big.Int.Bytes: the absolute value, most significant byte first, no byte for 0.
digits[n \in Nat] ==
    IF n = 0 THEN <<>> ELSE Append(digits[n \div ByteBase], n % ByteBase)
Bytes(n) == digits[IF n < 0 THEN -n ELSE n]

SetBytes(bz) ==
    LET val[i \in 0 .. Len(bz)] == IF i = 0 THEN 0 ELSE val[i - 1] * ByteBase + bz[i]
    IN  val[Len(bz)]

\* binary.LittleEndian.PutUint64, and byte(n.Sign()) where -1 wraps.
PutUint64(n) == [i \in 1 .. LenWidth |-> (n \div ByteBase ^ (i - 1)) % ByteBase]
Sign(n) == IF n = 0 THEN 0 ELSE IF n > 0 THEN 1 ELSE ByteBase - 1

BigIntsToBytes(ints) == [i \in DOMAIN ints |-> Bytes(ints[i])]
ByteSlicesToBigInts(bzs) == [i \in DOMAIN bzs |-> SetBytes(bzs[i])]

\* NonEmptyBytes refuses the empty slice and a slice of zeros.
NonEmptyBytes(bz) == \E i \in DOMAIN bz : bz[i] # 0
NonEmptyMultiBytes(bzs) == bzs # <<>> /\ \A i \in DOMAIN bzs : NonEmptyBytes(bzs[i])

-----------------------------------------------------------------------------
\* The slices bzs one after the other.
Concat(bzs) ==
    LET cat[i \in 0 .. Len(bzs)] == IF i = 0 THEN <<>> ELSE cat[i - 1] \o bzs[i]
    IN  cat[Len(bzs)]

\* Mutation of HashInput: the length of a block is left out.
HashInputNoLength(in) ==
    PutUint64(Len(in)) \o
    Concat([i \in DOMAIN in |-> in[i] \o <<hashInputDelimiter>>])

\* What SHA512_256 hashes: the number of blocks, then each block followed by the
\* delimiter and its length.
HashInput(in) ==
    PutUint64(Len(in)) \o
    Concat([i \in DOMAIN in |->
        in[i] \o <<hashInputDelimiter>> \o PutUint64(Len(in[i]))])

\* SHA512_256i and SHA512_256iOne append the sign to each number.
IntBlock(n) == Append(Bytes(n), Sign(n))
IntHashInput(in) == HashInput([i \in DOMAIN in |-> IntBlock(in[i])])

\* The digest, external.
Digest(salt, data) ==
    LET acc[i \in 0 .. Len(data)] ==
            IF i = 0 THEN 0 ELSE (acc[i - 1] * 5 + data[i] + 1) % 1009
    IN  (salt + acc[Len(data)]) % DigestRange

SHA512_256(salt, in) == Digest(salt, HashInput(in))
SHA512_256i(salt, in) == Digest(salt, IntHashInput(in))
=============================================================================
