SPECIFICATION Spec
CONSTANTS
    Births <- McBirths
    Todays <- McTodays
    Thresholds = {0, 18, 65}
    BandSets = {{}, {18, 65}, {0, 17, 99}}
    None = None
    IvrDays = 180
    MaxProofs = 2
CHECK_DEADLOCK FALSE
INVARIANTS TypeOK AgesAreTrue AgeOnlyGrows BandsAgree
