------------------------------ MODULE MCCrypto ------------------------------
(***************************************************************************)
(* Jobs for Crypto on small numbers: 0 is among the random numbers, ids    *)
(* may be 0 or equal mod the order 5, plaintexts out of range; q = 3 and   *)
(* N = 5 * 59 in the conversion, as N has room for q^5 + q^2.  And the     *)
(* jobs that encode and decode.                                            *)
(***************************************************************************)
EXTENDS Crypto, SequencesExt

MCSalts == 0 .. 7

MCVssJobs ==
    UNION {[kind : {"vss"}, t : {t}, ids : [1 .. 3 -> {0, 1, 2, 3, 4, 6}], poly : [0 .. t -> Zq]] :
             t \in {1, 2}}

MCPaillierJobs ==
    UNION {[kind : {"paillier"}, P : {k[1]}, R : {k[2]},
            m1 : {-1, 0, 1, 2, k[1] * k[2] - 1, k[1] * k[2]}, m2 : {0, 1, 3, k[1] * k[2] - 2},
            x1 : {0, 1, 2, k[1] * k[2] - 1}, x2 : {1, 4}] :
             k \in {<<5, 59>>, <<5, 7>>, <<7, 17>>}}

MCMtaJobs ==
    [kind : {"mta"}, P : {5}, R : {59}, NTilde : {77}, h1 : {4}, h2 : {64},
     wc : BOOLEAN, a : 0 .. 2, b : 1 .. 2, rA : {7}, betaPrm : {0, 100, 242}, cRand : {9},
     rndA : [alpha : {0, 25, 26}, beta : {3}, gamma : {0, 2078}, rho : {0, 230}],
     rndB : [alpha : {0, 10, 26}, beta : {6}, gamma : {0, 2186}, rho : {230},
             rhoPrm : {2000}, sigma : {17}, tau : {1}],
     salt : 0 .. 2]

MCDLogJobs == [kind : {"dlog"}, edwards : BOOLEAN, x : Zq, a : Zq, salt : MCSalts]
MCDDHJobs == [kind : {"ddh"}, x : Points1, G2 : Points1, s : Zq, salt : MCSalts]
MCSTJobs == [kind : {"st"}, sigma : Points1, l : Zq, a : Zq, b : Zq, h : {2}, R : {1, 3},
             salt : 0 .. 4]
MCPDLJobs ==
    [kind : {"pdl"}, P : {5}, R : {59}, NTilde : {77}, h1 : {4}, h2 : {64},
     x : 1 .. 2, G : 1 .. 2, r : {7},
     rnd : [alpha : {0, 1, 13, 26}, beta : {1, 5, 59, 6}, gamma : {2078}, rho : {0, 230}],
     salt : MCSalts]
MCDlnJobs == [kind : {"dln"}, p : {3}, q : {5}, f1 : {1, 2, 6, 10}, alpha : {1, 2, 3, 4, 8, 16},
              a : [1 .. 2 -> {0, 1, 2, 14}], salt : 0 .. 3]
MCPaiProofJobs == [kind : {"paiproof"}, P : {5}, R : {7}, prms : {{2, 3}}, iters : {1},
                   xs : Pai!GenerateXs(35, 1)]
MCForgeJobs ==
    [kind : {"forge"}, edwards : {FALSE}, X : Points1, alpha : Points1, t : Zq, salt : MCSalts]
      \cup
    [kind : {"forge"}, edwards : {TRUE}, X : {8, 13, 30}, alpha : {0, 5, 8, 17, 24}, t : Zq,
     salt : MCSalts]
MCForgeDDHJobs == [kind : {"ddhforge"}, G2 : Points1, H1 : Points1, H2 : Points1,
                   s1 : Points1, s2 : Points1]
MCModulusJobs == [kind : {"modulus"}, N : {15, 21, 25, 35, 49, 55, 65}]

-----------------------------------------------------------------------------
(* The encodings.                                                          *)

Enc == INSTANCE Encodings

Blocks == BoundedSeq(0 .. 2, 2)
Ints == {-5, -1, 0, 1, 2, 3, 5, 8}
Field == 13
Points == {<<p[1], p[2]>> : p \in Enc!CurvePoints(Field)}

EncodingJobs ==
    \/ job \in [kind : {"blocks"}, in : BoundedSeq(Blocks, 2)]
    \/ job \in [kind : {"ints"}, in : BoundedSeq(Ints, 2)]
    \/ job \in [kind : {"parts"}, in : BoundedSeq(BoundedSeq({0, 1}, 2) \cup {<<1, 1, 1>>}, 4)]
    \/ job \in [kind : {"secrets"}, in : BoundedSeq(0 .. 3, 5)]
    \/ job \in [kind : {"commit"}, r : {0, 1, 7}, in : BoundedSeq(Points, 2)]
    \/ job \in [kind : {"compressed"}, x : 0 .. 2 * Field - 1, sign : {2, 3}]
    \/ job \in [kind : {"number"}, in : 0 .. 63]
    \/ job \in [kind : {"edpoint"}, x : 0 .. 6, y : 0 .. 7]
    \/ job \in [kind : {"extended"}, x : 0 .. 6, y : 0 .. 6, z : 0 .. 6]

HashBlocks == Step("blocks", "ready", "done", Enc!HashInput(job.in))
HashInts == Step("ints", "ready", "done", Enc!IntHashInput(job.in))
BuildParts == Step("parts", "ready", "done",
                   [secrets |-> Enc!Secrets(job.in), parsed |-> Enc!ParseSecrets(Enc!Secrets(job.in))])
ParseParts == Step("secrets", "ready", "done", Enc!ParseSecrets(job.in))

\* Points committed to, sent as bytes, checked for emptiness, opened and read back.
CommitPoints ==
    LET cmt == Enc!HashCommitment(job.r, Enc!FlattenECPoints(job.in))
        bzs == Enc!BigIntsToBytes(cmt.D)
        opened == Enc!DeCommit(cmt.C, Enc!ByteSlicesToBigInts(bzs))
    IN  Step("commit", "ready", IF Enc!NonEmptyMultiBytes(bzs) THEN "done" ELSE "refused",
             Enc!UnFlattenECPoints(opened, Points))

Decompress == Step("compressed", "ready", "done", Enc!DecompressPoint(job.x, job.sign, Field))
EncodeNumber == Step("number", "ready", "done",
                     Enc!encodedBytesToBigInt(Enc!bigIntToEncodedBytes(job.in)))
EncodePoint == Step("edpoint", "ready", "done", Enc!ecPointToEncodedBytes(job.x, job.y))
ExtendPoint == Step("extended", "ready", "done", Enc!ecPointToExtendedElement(job.x, job.y, job.z, 7))

\* Different inputs are hashed as different bytes; the parts of a commitment come
\* back as they were given if there are 1 to PartsCap of them and none is empty,
\* and no other list of numbers is read as these parts except the same list with
\* a dangling length; points survive the commitment unless 0 is among the
\* numbers; a decompressed point is on the curve and has the sign asked for; a
\* number of EdDSA comes back if it is short enough, the encoding of a point
\* determines y and the sign of x, and the extended coordinates determine the
\* point unless the random factor is 0.
EncodingsInvert ==
    /\ Done("blocks") =>
         \A in \in BoundedSeq(Blocks, 2) : Enc!HashInput(in) = out => in = job.in
    /\ Done("ints") =>
         \A in \in BoundedSeq(Ints, 2) : Enc!IntHashInput(in) = out => in = job.in
    /\ Done("parts") =>
         LET ok == /\ Len(job.in) \in 1 .. 3
                   /\ \A i \in DOMAIN job.in : Len(job.in[i]) \in 1 .. 2
         IN  IF ok THEN out.parsed = job.in ELSE out.parsed # job.in
    /\ (Done("secrets") /\ out # Enc!ErrParts) =>
         job.in \in {Enc!Secrets(out), Enc!Secrets(out) \o <<Last(job.in)>>}
    /\ Done("commit") => out = job.in
    /\ (job.kind = "commit" /\ pc = "refused") =>
         job.r = 0 \/ \E i \in DOMAIN job.in : 0 \in {job.in[i][1], job.in[i][2]}
    /\ Done("compressed") =>
         IF out = Enc!Err THEN \A y \in 0 .. Field - 1 : <<job.x % Field, y>> \notin Points
         ELSE /\ <<out[1] % Field, out[2]>> \in Points
              /\ out[2] # 0 => out[2] % 2 = job.sign % 2
    /\ Done("number") => (out = job.in <=> job.in < 16)
    /\ Done("edpoint") =>
         \A x \in 0 .. 6, y \in 0 .. 7 :
             Enc!ecPointToEncodedBytes(x, y) = out <=> (y = job.y /\ x % 2 = job.x % 2)
    /\ Done("extended") =>
         ((\A x, y \in 0 .. 6 :
             /\ (x * out.Z) % 7 = out.X /\ (y * out.Z) % 7 = out.Y
             /\ (out.T * out.Z) % 7 = (out.X * out.Y) % 7
             => x = job.x /\ y = job.y) <=> job.z # 0)

-----------------------------------------------------------------------------
MCInit == Init \/ (EncodingJobs /\ pc = "ready" /\ out = NoOut)

MCNext ==
    \/ Next
    \/ HashBlocks \/ HashInts \/ BuildParts \/ ParseParts \/ CommitPoints
    \/ Decompress \/ EncodeNumber \/ EncodePoint \/ ExtendPoint

MCSpec == MCInit /\ [][MCNext]_vars
=============================================================================
