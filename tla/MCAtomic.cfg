CONSTANTS
    alice = alice
    n = n
    c = c
    Empty = Empty
    Garbled = Garbled
    Proc = {p1}
    User <- MCUser
    Name = {n}
    Content <- MCContent
    MaxLive = 1
    MaxCrashes = 0
SPECIFICATION FairSeenSpec
PROPERTIES
    ImplementsCLI
    LinksSavedAtExit
