SPECIFICATION Spec
CONSTANTS
    csca1 = csca1
    csca2 = csca2
    jwks1 = jwks1
    jwks2 = jwks2
    AnchorSets <- MCAnchorSets
    JwksDocs <- MCJwksDocs
    None = None
    Absent = Absent
    Rejected = Rejected
    Managed = TRUE
    MaxLate = 0
INVARIANTS
    WalletKeysAttested
