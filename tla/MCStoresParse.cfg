CONSTANTS
    alice = alice
    n = n
    c = c
    Empty = Empty
    Garbled = Garbled
    Proc = {p1, p2}
    User <- MCUser
    Name = {n}
    Content <- MCContent
    MaxLive = 2
    MaxCrashes = 0
    MaxKeys = 3
    MaxDirs = 1
    MaxFiles = 2
    Existing <- MCUser
SPECIFICATION ReadySpec
CONSTRAINT Attended
INVARIANT StoresParse
\* A process is started once, and may have ended.
CHECK_DEADLOCK FALSE
