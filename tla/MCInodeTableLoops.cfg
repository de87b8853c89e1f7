CONSTANTS
    a = a
    b = b
    Name = {a, b}
    MaxDepth = 2
    MaxInode = 4
SPECIFICATION LoopsSpec
SYMMETRY Symmetric
PROPERTIES
    ImplementsTable
