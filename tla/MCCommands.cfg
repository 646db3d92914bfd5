CONSTANTS
    alice = alice
    bob = bob
    n = n
    c = c
    Empty = Empty
    Unreadable = Unreadable
    User <- MCUser
    Name = {n}
    Content <- MCContent
    Destination <- MCDestination
    MaxDepth = 3
    MaxDirs = 2
    MaxFiles = 3
SPECIFICATION CommandSpec
CONSTRAINT Bounded
SYMMETRY Symmetry
INVARIANTS
    Namespace
    StorageMatches
    CwdConfined
PROPERTY OnlyOwnersWrite
