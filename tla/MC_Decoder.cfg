SPECIFICATION FairSpec
CONSTANTS
    Bytes = {0, 1, 2}
    Handled = {1, 2}
    MinSize <- MCMinSize
    Limits = {0, 1, 3}
    MaxStream = 8
    Streams <- MCStreams
    Width = 4
INVARIANTS
    TypeOK
    ReadsInBounds
    DecodesWholeFrames
    BatchIsScalar
    FilterSameOnEveryBuild
    ScansAgree
    PercentileIsRank
PROPERTIES Termination
