SPECIFICATION Spec
CONSTANTS
    Procs = {p1, p2, p3}
    Keys = {k1, k2, k3, k4}
    ExternalKeys = {pem}
    NoFile = NoFile
    Torn = Torn
    NoKey = NoKey
SYMMETRY Symmetry
INVARIANTS
    LoserReadsWinnersKey
