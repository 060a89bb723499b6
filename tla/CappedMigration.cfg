SPECIFICATION Spec
CONSTANTS
    Programs = {"migration"}
    Backends = {"Memory", "FileSystem", "AwsS3", "Mongo", "AwsDynamoDB"}
    KvWriters = {w1, w2}
    Puts <- MCPuts
    MaxKvFaults = 1
    Files = {"f1", "tmp"}
    LedgerFiles = {"header", "body"}
    Dirs = {"root", "sub"}
    Root = "root"
    DirOf <- MCDirOf
    ParentOf <- MCParentOf
    Excluded = {"tmp"}
    MaxWrites = 2
    MaxFileFaults = 1
    TopBlock = 3
    Concurrency = 2
    MaxRetries = 1
    MaxBlocksPerIter = 2
    WriteRanges <- MCWriteRanges
    MaxBlockFails = 2
    MaxKills = 1
    LastId = 3
    BatchSize = 2
    MaxVersion = 2
    MaxStops = 2
    RlpSingle = 4
    RlpShort = 2
    RlpWidths = 2
    IndexedBlocks <- MCContent
    HeaderLen = 3
    MaxInlineLen = 16
    Request = {r1, r2}
    FailureThreshold = 2
    FailureCap = 3
    MaxFlips = 3
INVARIANT
    MigrationComplete
