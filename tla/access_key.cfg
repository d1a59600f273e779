SPECIFICATION Spec
CONSTANTS
    Pages <- McPages
    None = None
    MaxMisreads = 3
INVARIANTS TypeOK ExactReadOpens RecoverableIsNotRefused LookAlikesMislead
