SPECIFICATION Spec
CONSTANTS
    Keys <- MCKeys
    Escaped <- MCEscaped
    Unescaped <- MCUnescaped
    ChunkKeys <- MCChunkKeys
    Lowercase <- MCLowercase
    Barred <- MCBarred
    None = None
    Paths <- MCPaths
    Catalogs <- MCCatalogs
    Buckets <- MCBuckets
    Saves = {0, 1, 9}
INVARIANTS
    NoticeNamesObject
    OutputsIgnored
    ListingAgreesWithNotice
    AnswerIsTheCatalog
    ListingIsResumable
