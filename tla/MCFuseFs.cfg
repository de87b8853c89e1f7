CONSTANTS
    a = a
    b = b
    Name = {a, b}
    MaxDepth = 2
    MaxInode = 4
    MaxObject = 2
    MaxFd = 1
    MaxChanges = 1
SPECIFICATION Spec
SYMMETRY Symmetric
INVARIANTS
    KernelAgrees
    GoneStaysGone
    DescriptorsOwned
PROPERTIES
    SetattrHitsItsFile
    ImplementsInodeTable
