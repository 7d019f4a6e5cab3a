SPECIFICATION Spec
CONSTANTS
    a = a  b = b  reg = reg  latest = latest  v1 = v1
    sigX = sigX  attM = attM  sbomN = sbomN  oddX = oddX
    W = W  X = X  Y = Y  Z = Z  M = M  N = N  O = O  P = P  Q = Q  R = R  S1 = S1  S2 = S2  S3 = S3  T = T  U = U
    Names = {a, b}
    Dest = reg
    Tags = {latest, v1, sigX, attM, sbomN, oddX}
    NoTag = NoTag
    Latest = latest
    CosignTags = {sigX, attM, sbomN, oddX}
    Digests = {W, X, Y, Z, M, N, O, P, Q, R, S1, S2, S3, T, U}
    NoDigest = NoDigest
    Subject <- MCSubject
    Kind <- MCKind
    IndexOf <- MCIndexOf
    Layers <- MCLayers
    Inline <- MCInline
    InitialTags <- MCInitialTags
    Versions <- MCVersions
    MaxRetags = 2
    Locs = {1, 2, 3, 4}
    Scanned <- MCScanned
INVARIANTS TypeOK DocumentsOfImage NothingMissed LocationsReported  DigestsTold
CHECK_DEADLOCK FALSE
