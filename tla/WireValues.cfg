SPECIFICATION Spec
CONSTANTS
    Known <- MCKnown
    NaN = NaN
    BackendValues <- MCBackendValues
    ComposedValues <- MCComposedValues
    PeerPicoseconds <- MCPeerPicoseconds
    PeerChunks <- MCPeerChunks
    MaxChunkCount = 2
    MaxMessageSize = 24
INVARIANTS
    ValueArrives
    CutIsRefused
