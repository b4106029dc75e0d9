SPECIFICATION InboundSpec
CONSTANTS
    Documents     <- SomeDocuments
    Lexemes       <- WrittenAs
    Nodes         <- NodesOf
    JP_MAX_TOKENS = 41
    Lengths       = {2, 3}
    MaxFrames     = 3
    Piece         = 2
    RECV_BUF_SIZE = 3
    ID_LEN        = 24
    CONTENT_LEN   = 13
INVARIANTS
    InboundTypeOK
    FramesWhole
    FieldsExact
CHECK_DEADLOCK FALSE
