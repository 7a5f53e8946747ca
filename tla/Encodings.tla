----------------------------- MODULE Encodings ------------------------------
(***************************************************************************)
(* The encodings the protocols rely on to be reversible: the parts of a    *)
(* commitment (crypto/commitments), points as lists of coordinates and     *)
(* compressed points (crypto/ecpoint.go), and the little-endian numbers    *)
(* and points of EdDSA (eddsa/signing/utils.go).  The hash inputs are in   *)
(* TssHash.                                                                *)
(***************************************************************************)
EXTENDS TssHash

LOCAL SeqX == INSTANCE SequencesExt

PartsCap == 3
MaxPartSize == 2   \* 128 * 1024 in the code
Err == <<Nil>>            \* an error instead of a list of numbers
ErrParts == <<<<Nil>>>>    \* an error instead of a list of parts or points

\* builder.Secrets: every part preceded by its length.
Secrets(parts) ==
    IF Len(parts) > PartsCap \/ \E i \in DOMAIN parts : Len(parts[i]) > MaxPartSize THEN Err
    ELSE SeqX!FlattenSeq([i \in DOMAIN parts |-> <<Len(parts[i])>> \o parts[i]])

\* ParseSecrets.  From element el with the parts read so far; a length that is the
\* last element is read and forgotten.
ParseSecrets(secrets) ==
    LET inLen == Len(secrets)
        parse[el \in 1 .. inLen + 1, n \in 0 .. PartsCap] ==
            IF el > inLen THEN <<>>
            ELSE LET partLen == secrets[el]
                     rest == parse[el + 1 + partLen, n + 1]
                 IN  IF partLen <= 0 \/ partLen > MaxPartSize THEN ErrParts
                     ELSE IF el = inLen THEN <<>>
                     ELSE IF n >= PartsCap \/ el + partLen > inLen THEN ErrParts
                     ELSE IF rest = ErrParts THEN ErrParts
                     ELSE <<SubSeq(secrets, el + 1, el + partLen)>> \o rest
    IN  IF inLen < 2 THEN ErrParts ELSE parse[1, 0]

\* NewHashCommitmentWithRandomness and DeCommit, with the hashed bytes for their
\* digest (SHA-512/256 is external and taken as free of collisions).
HashCommitment(r, secrets) == [C |-> IntHashInput(<<r>> \o secrets), D |-> <<r>> \o secrets]
DeCommit(C, D) == IF IntHashInput(D) = C THEN Tail(D) ELSE Err

-----------------------------------------------------------------------------
\* FlattenECPoints and UnFlattenECPoints; a point is a pair of coordinates and
\* onCurve tells which pairs are points.
FlattenECPoints(points) == SeqX!FlattenSeq(points)
UnFlattenECPoints(in, onCurve) ==
    LET point(j) == <<in[2 * j - 1], in[2 * j]>>
    IN  IF Len(in) % 2 # 0 \/ \E j \in 1 .. Len(in) \div 2 : point(j) \notin onCurve
        THEN ErrParts ELSE [j \in 1 .. Len(in) \div 2 |-> point(j)]

\* The points of y^2 = x^3 + 7 mod p, and decompressPoint_Secp256k1.
CurvePoints(p) == {<<x, y>> \in (0 .. p - 1) \X (0 .. p - 1) : (y * y) % p = (x * x * x + 7) % p}
DecompressPoint(x, sign, p) ==
    LET y == Sqrt(x * x * x + 7, p)
    IN  IF y = Nil THEN Err ELSE <<x, IF y % 2 # sign % 2 THEN (0 - y) % p ELSE y>>

-----------------------------------------------------------------------------
EncodedLen == 2    \* bytes of an encoded number (32)

\* bigIntToEncodedBytes: padded to EncodedLen, cut after the first EncodedLen bytes
\* if it is longer, and reversed; encodedBytesToBigInt is its inverse.
bigIntToEncodedBytes(a) ==
    LET zeros == [i \in 1 .. EncodedLen |-> 0]
        aB == SubSeq(zeros, 1, EncodedLen - Len(Bytes(a))) \o Bytes(a)
    IN  SeqX!Reverse(SubSeq(aB, 1, EncodedLen))
encodedBytesToBigInt(s) == SetBytes(SeqX!Reverse(s))

\* ecPointToEncodedBytes: the top bit of the last byte of y tells the parity of x.
TopBit == ByteBase \div 2
ecPointToEncodedBytes(x, y) ==
    LET s == bigIntToEncodedBytes(y)
    IN  [s EXCEPT ![EncodedLen] = (@ % TopBit) + TopBit * (x % 2)]

\* ecPointToExtendedElement with its random z: (X : Y : Z : T) in the field mod p.
ecPointToExtendedElement(x, y, z, p) ==
    [X |-> (x * z) % p, Y |-> (y * z) % p, Z |-> z % p, T |-> (x * y * z) % p]
=============================================================================
