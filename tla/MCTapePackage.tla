---------------------------- MODULE MCTapePackage ----------------------------
(***************************************************************************)
(* Small registries and manifests to run TapePackage on.                   *)
(***************************************************************************)
EXTENDS TapePackage, TLC

CONSTANTS
    a, b, reg,                \* repositories, reg is the destination
    latest, v1, sigX, sigM,   \* tags: sigX and sigM are cosign tags
    X, Y, M, N,               \* index X lists manifest M, index Y lists N
    S1, S2, T,                \* signatures: S1 and S2 of X, T of M
    p1, p2                    \* processes

MCSubject == [t \in {sigX, sigM} |-> IF t = sigX THEN X ELSE M]
MCIndexOf == [d \in Digests |-> IF d = X THEN {M} ELSE IF d = Y THEN {N} ELSE {}]
MCPrefix(c) == "prefix"       \* all packages have the same short alias

MCEpoch == [p \in Procs |-> IF p = p1 THEN 1 ELSE 2]

At(f, n, t, d) == [file |-> f, name |-> n, tag |-> t, digest |-> d]

\* Image a is published as X and becomes Y (and back); X has a signature that
\* is renewed, and so has the manifest it lists.  Image b:v1 is Y.
MCInitialTags ==
    [n \in Names |-> [t \in Tags |->
        IF n = a THEN CASE t = latest -> X [] t = sigX -> S1 [] t = sigM -> T [] OTHER -> NoDigest
        ELSE IF t = v1 THEN Y ELSE NoDigest]]
MCVersions ==
    [n \in Names |-> [t \in Tags |->
        IF n = a THEN CASE t = latest -> {X, Y} [] t = sigX -> {S1, S2} [] OTHER -> {}
        ELSE IF t = v1 THEN {NoDigest} ELSE {}]]

\* The same reference in two files, another image in one of them, and there also
\* an image of the destination, as in manifests that have been packaged before.
TwoFiles == [p \in Procs |-> (1 :> At("f", a, NoTag, NoDigest)) @@ (2 :> At("g", a, NoTag, NoDigest))
                              @@ (3 :> At("f", b, v1, NoDigest)) @@ (4 :> At("f", reg, v1, Y))]

\* Two applications that have image a in common.
Shared == [p \in Procs |-> (1 :> At("f", a, NoTag, NoDigest)) @@
                           (2 :> IF p = p1 THEN At("g", b, v1, NoDigest) ELSE At("f", a, v1, Y))]

\* Two versions of image a in one file, both pinned.
TwoVersions == [p \in Procs |-> (1 :> At("f", a, NoTag, X)) @@ (2 :> At("f", a, v1, Y))]

\* Repositories a and b hold the same image with signatures of their own.
Mirrored == [p \in Procs |-> (1 :> At("f", a, latest, X)) @@ (2 :> At("f", b, latest, X))]
MirroredTags ==
    [n \in Names |-> [t \in Tags |-> CASE t = latest -> X
                                       [] t = sigX -> IF n = a THEN S1 ELSE S2
                                       [] OTHER -> NoDigest]]
\* One image under two tags, or one that is a manifest and no index.
TwoTags == [p \in Procs |-> (1 :> At("f", a, latest, NoDigest)) @@ (2 :> At("f", a, v1, NoDigest))]
TwoTagsTags == [n \in Names |-> [t \in Tags |-> IF t \in {latest, v1} THEN X ELSE NoDigest]]
OnePlatform == [p \in Procs |-> (1 :> At("f", a, latest, NoDigest)) @@ (2 :> At("f", b, v1, NoDigest))]
OnePlatformTags == [n \in Names |-> [t \in Tags |-> CASE t = latest -> X [] t = v1 -> N
                                                       [] OTHER -> NoDigest]]
NoVersions == [n \in Names |-> [t \in Tags |-> {}]]
=============================================================================
