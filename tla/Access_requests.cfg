\* Two tenants on two streams; tokens of two secrets.
CONSTANTS
    Default = default
    Tenants = {default, t1}
    Streams = {s1, s2}
    Followed = s1
    Secrets = {k1, k2}
    NoSecret = NoSecret
    ApiKey = ApiKey
    Invalid = Invalid
    NoTenant = NoTenant
    MaxRows = 3
    MaxTokens = 2
SYMMETRY Symmetry
SPECIFICATION Spec
INVARIANTS
    TypeOK
    TenantsApart
    FollowerIsWhole
    GapMeansShared
