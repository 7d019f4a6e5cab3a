---------------------------- MODULE MCInspection ----------------------------
(***************************************************************************)
(* Small registries and manifests to run Inspection on.                    *)
(***************************************************************************)
EXTENDS Inspection

CONSTANTS
    a, b, reg,                        \* repositories
    latest, v1, sigX, attM, sbomN, oddX,
    W, X, Y, Z, M, N, O, P, Q, R,     \* indexes W, X, Y and Z, and what they list
    S1, S2, S3, T, U                  \* artefacts

MCSubject == [t \in CosignTags |-> CASE t \in {sigX, oddX} -> X [] t = attM -> M [] OTHER -> N]
MCKind == [t \in CosignTags |-> CASE t = sigX -> "sig" [] t = attM -> "att"
                                  [] t = sbomN -> "sbom" [] OTHER -> "other"]
MCIndexOf == [d \in Digests |-> CASE d = X -> {M, P} [] d = Y -> {N} [] d = Z -> {O} [] d = W -> {Q, R}
                                   [] d = U -> {T} [] OTHER -> {}]

\* S3 has a second layer: the image has been signed twice.
MCLayers == [d \in Digests |-> IF d = S3 THEN 2 ELSE 1]

\* P holds statements about M; Q and R have one of the same kind about N.
MCInline == [d \in Digests |-> CASE d = P -> {<<"sbom", M>>, <<"attestation", M>>}
                                 [] d \in {Q, R} -> {<<"sbom", N>>} [] OTHER -> {}]

At(n, t, d) == [name |-> n, tag |-> t, digest |-> d]

\* Image a:latest is X, becomes W, Y, Z or X again, and X is signed again; N has an
\* SBOM.  Image b:v1 is X too, with one artefact, which is deleted.
MCInitialTags ==
    [n \in Names |-> [t \in Tags |->
        IF n = a THEN CASE t = latest -> X [] t = sigX -> S1 [] t = attM -> U
                        [] t = sbomN -> T [] t = oddX -> T [] OTHER -> NoDigest
        ELSE CASE t = v1 -> X [] t = sigX -> S2 [] OTHER -> NoDigest]]
MCVersions ==
    [n \in Names |-> [t \in Tags |->
        IF n = a THEN CASE t = latest -> {W, X, Y, Z} [] t = sigX -> {S1, S2, S3} [] OTHER -> {}
        ELSE CASE t = v1 -> {NoDigest} [] t = sigX -> {NoDigest, S2} [] OTHER -> {}]]
NoVersions == [n \in Names |-> [t \in Tags |-> {}]]

\* One image with its digest and twice without, and another one.
MCScanned == [l \in Locs |-> CASE l = 1 -> At(a, latest, Y) [] l = 4 -> At(b, v1, NoDigest)
                               [] OTHER -> At(a, latest, NoDigest)]

\* Repositories a and b have the same image, one with its digest in the manifests.
Mirrored == [l \in Locs |-> IF l = 1 THEN At(a, latest, X) ELSE At(b, latest, NoDigest)]
MirroredTags == [n \in Names |-> [t \in Tags |-> IF t = latest THEN X ELSE NoDigest]]

\* Image b:v1 is the manifest N.
Single == [l \in Locs |-> At(b, v1, NoDigest)]
SingleTags == [n \in Names |-> [t \in Tags |-> IF t = v1 THEN N ELSE NoDigest]]
=============================================================================
