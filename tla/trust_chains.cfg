SPECIFICATION Spec
CONSTANTS
    Certs <- MCCerts
    Pinned <- root
    Lists <- MCLists
    Documents <- MCDocuments
    Unknown = Unknown
    None = None
    MaxDepth = 5
INVARIANTS
    TypeOK
    AnchorsFromPinnedRoot
    DocumentTracesToPinnedRoot
    RunawayMeansCircle
