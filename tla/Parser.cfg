CONSTANTS
    Base = 3
    MAX_LENGTH = 5
    MaxStream = 8
SPECIFICATION ParserSpec
INVARIANT ChunkingDoesNotMatter
CHECK_DEADLOCK FALSE
