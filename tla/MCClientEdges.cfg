CONSTANTS
    ArtifactSavers = {s1, s2}
    Hashes = {h}
    CleanupAfter = 1
    MaxTick = 2
    Savers = {s1, s2}
    Passphrases = {"a", "b"}
    MaxSaves = 3
    MaxCrashes = 1
    Seeds = {1, 2}
    FilePasswords = {"", "a", "b"}
    MaxAddresses = 2
    SecretNames = {"a", "b"}
    SecretValues = {1, 2}
    Addresses = {"c", "d"}
    MasterKeys = {1, 2}
    MaxHeight = 2
    Handlers = {h1, h2}
    GrpcTx = t
    TopBlock = 2
    MaxForks = 1
    MaxCalls = 2
    MaxItems = 2
    Topics <- TopicSet
    PayloadSizes = {0, 121, 300}
    PacketIds = {0, 258}
    MaxOnWire = 2
    Segments <- SegmentSet
    CoapPayloads <- CoapPayloadSet
    Uris = {u1, u2}
    LastMessageId = 3
    Ports = {8080, 99}
    MaxTokens = 4
    AddressKeys <- KeySet
    KeySize = 4
    Networks = {0, 112, 116}
    Deltas = {1, 6, 21}
    Numbers <- NumberSet
    Blobs <- BlobSet
    EraBlocks = {0, 5, 4097, 70001}
    EraPeriods = {1, 64, 100, 4096, 65536, 100000}
    MaxFields = 3
    HashedAbove = 20
SPECIFICATION Spec
SYMMETRY EdgeSymmetry
INVARIANTS
    FilesKept
    SecretsFaithful
    
    StoppedMeansOver
    
    
CHECK_DEADLOCK FALSE
