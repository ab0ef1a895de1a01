SPECIFICATION Spec
CONSTANTS
    Writer = {w1, w2}
    Reader = {c1, c2}
    MaxText = 2
    Broken = {c1}
    Concurrent = {w1}
INVARIANTS
    TypeOK
    AnnouncedIsThere
    OthersAreTold
PROPERTIES
    ImplementsAtomicFile
    FanoutEnds
