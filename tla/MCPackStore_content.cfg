SPECIFICATION Spec
CONSTANTS
    A = A
    B = B
    x = x
    y = y
    p = p
    q = q
    c1 = c1
    c2 = c2
    Packs = {A, B}
    Versions = {1, 2}
    Docs = {x, y}
    Paths = {p, q}
    Cuts = {c1, c2}
    Catalog <- Superseding
    UserCut = c2
    Scope = {"supersede", "remove_version", "clear"}
    MaxOpens = 2
    User = User
    NoPath = NoPath
    NoCut = NoCut
    NoManifest = NoManifest
INVARIANT ContentExactlyWhileClaimed
PROPERTY UserClaimsKept
PROPERTY ImplementsSharedContent
