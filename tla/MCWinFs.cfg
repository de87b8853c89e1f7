CONSTANTS
    a = a
    b = b
    c1 = c1
    c2 = c2
    Name = {a, b}
    MaxDepth = 1
    MaxObject = 2
    MaxFd = 1
    MaxChanges = 1
    Context = {c1, c2}
    NoFd = NoFd
    NoObject = NoObject
SPECIFICATION Spec
SYMMETRY Symmetric
INVARIANTS
    DescriptorsOwned
    PathLeadsToFile
PROPERTIES
    NothingElseVanishes
