SPECIFICATION Spec
CONSTANTS
    h1 = h1
    h2 = h2
    p1 = p1
    p2 = p2
    n1 = n1
    o1 = o1
    None = None
    Forged = Forged
    Holders = {h1, h2}
    KeySets <- McKeySets
    Kids = {"kid1"}
    Chips <- McChips
    Nonces = {n1}
    OwnChallenges = {o1}
    Images <- McImages
    ChallengeTtl = 1
    IvrTtl = 1
    MaxTime = 2
    MaxAttestations = 1
    MaxSignatures = 1
    MaxIvrs = 1
SYMMETRY Symmetry
INVARIANTS TypeOK IvrIsEarned ChipWasThere FailedChipIsNoIvr
PROPERTIES ImplementsIssuing
