SPECIFICATION TreeSpec
CONSTANTS
    Files <- OperatorFiles
    None = None
INVARIANTS
    ExactlyExpressions
    TreeIsReference
