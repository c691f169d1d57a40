SPECIFICATION Spec
SYMMETRY Symmetry
CONSTANTS
    Handlers = {h1, h2, h3}
    Keys = {k1}
    Slots = {s1, s2}
    NoKey = NoKey
    Overlap = FALSE
INVARIANT TypeOK
 
INVARIANT DroppedKeyIsUnreferenced
CHECK_DEADLOCK FALSE
