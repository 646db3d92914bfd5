CONSTANTS
    alice = alice
    n = n
    c = c
    Empty = Empty
    Garbled = Garbled
    Proc = {p1}
    User <- MCUser
    Name = {n}
    Content <- MCContent
    MaxLive = 1
    MaxCrashes = 2
    MaxKeys = 3
    MaxDirs = 1
    MaxFiles = 2
SPECIFICATION Spec
CONSTRAINT Bounded
INVARIANTS
    TypeOK
    HomesRegistered
    LinksRegistered
    KeyfileFits
    
    SealedForOwner
PROPERTY
    NoPlaintextLeft
