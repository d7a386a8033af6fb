SPECIFICATION Spec
CONSTANTS
    Files <- CallFiles
    None = None
PROPERTY
    NamedArgumentHasColon
