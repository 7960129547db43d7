SPECIFICATION Spec
CONSTANTS
    CacheSize = 4
    RLEChunks = 3
    RowsPerBatch = 2
    LZWTableSize = 16
    PsdScansPerChunk = 2
    PcxChunkRows = 2
    InBufferSize = 3
    OutBufferSize = 2
    XyzPaletteSize = 4
    PspScansPerChunk = 2
    PngChunkRows = 2
    JpegChunkRows = 2
    MaxTerminations = 2
    MaxRenames = 1
    Files <- MCFiles
INVARIANTS
    PictureIsTheFiles
    OnlyTheFilesBytes
    LockedPixelsOnly

    
