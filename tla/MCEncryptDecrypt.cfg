CONSTANTS
    Key = {k1, k2}
    Byte <- MCByte
    File <- MCFile
SPECIFICATION FairSpec
INVARIANTS
    RoundTrip
    RefusedRightly
    ChunkFits
PROPERTY LoopsEnd
