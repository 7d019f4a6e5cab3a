SPECIFICATION Spec
CONSTANTS
    a = a  b = b  reg = reg  latest = latest  v1 = v1  sigX = sigX  sigM = sigM
    X = X  Y = Y  M = M  N = N  S1 = S1  S2 = S2  T = T
    Names = {a, b}
    Dest = reg
    Tags = {latest, v1, sigX, sigM}
    NoTag = NoTag
    Latest = latest
    CosignTags = {sigX, sigM}
    Digests = {X, Y, M, N, S1, S2, T}
    NoDigest = NoDigest
    Subject <- MCSubject
    IndexOf <- MCIndexOf
    InitialTags <- MCInitialTags
    Versions <- MCVersions
    MaxRetags = 2
    p1 = p1  p2 = p2
    Procs = {p1}
    Locs = {1, 2}
    Files = {"f", "g"}
    Scanned <- TwoVersions
    Epochs = {1}
    Epoch <- MCEpoch
    Prefix <- MCPrefix
INVARIANTS PinnedDigestUsed
CHECK_DEADLOCK FALSE
