CONSTANTS
    alice = alice
    bob = alice
    n = n
    c = c
    Empty = Empty
    Unreadable = Unreadable
    User <- MCUser
    Name = {n, "shared"}
    Content <- MCContent
    Destination <- MCDestination
    MaxDepth = 4
    MaxDirs = 2
    MaxFiles = 3
SPECIFICATION Spec
CONSTRAINT Bounded
INVARIANTS
    Namespace
    StorageMatches
    LinkShape
    CopiesFollow
PROPERTIES
    ImplementsFileService
