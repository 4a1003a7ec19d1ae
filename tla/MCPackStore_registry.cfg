SPECIFICATION Spec
CONSTANTS
    A = A
    B = B
    x = x
    y = y
    p = p
    q = q
    c1 = c1
    c2 = c2
    Packs = {A, B}
    Versions = {1, 2, 3}
    Docs = {x, y}
    Paths = {p, q}
    Cuts = {c1, c2}
    Catalog <- Moving
    UserCut = c1
    Scope = {"damage"}
    MaxOpens = 2
    User = User
    NoPath = NoPath
    NoCut = NoCut
    NoManifest = NoManifest
INVARIANT OneActive
INVARIANT PackClaimsAreActive
INVARIANT UserDocsRetrievable
PROPERTY PackClaimsKept
