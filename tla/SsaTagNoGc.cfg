\* Two producers with their workers, two cells each, offsets 0 to 2 in tags of width 2.
CONSTANTS
    Producers = {p1, p2}
    Cells = {c1, c2}
    p1 = p1
    p2 = p2
    c1 = c1
    c2 = c2
    Offsets = {0, 1, 2}
    TAG_WIDTH = 2
    MaxCalls <- MC_MaxCalls
SPECIFICATION Spec
PROPERTIES
    NoGcRefinement
    AllocDenotesOffset
    CallsReturn
