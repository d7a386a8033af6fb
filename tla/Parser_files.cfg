SPECIFICATION Spec
CONSTANTS
    Files <- ParserFiles
    None = None
INVARIANTS
    TypeOK
    DepthBounded
    AcceptedIsClosed
PROPERTIES
    FileIsRead
