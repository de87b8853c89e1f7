CONSTANTS
    a = a
    b = b
    Name = {a, b}
    MaxDepth = 2
    MaxInode = 5
SPECIFICATION Spec
SYMMETRY Symmetric
INVARIANTS
    PathEntriesBacked
PROPERTIES
    NumbersNeverReused
    SubtreesStayTogether
    CutOffOnlyByReplacement
    OrphansFrozen
