SPECIFICATION FairSpec
CONSTANTS
    longer = longer
    shorter = shorter
    trailer = trailer
    Releases <- MCReleases
    Size <- MCSize
    MinChunks = 2
    MaxStreams = 2
INVARIANTS TypeOK DeliveredFile NothingInvalidLeft CountedOnce
PROPERTIES BytesKept KeepsPromise SearchEnds
