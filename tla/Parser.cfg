\* Math texts of up to 5 symbols; json texts of up to 4 or 5 pieces.
SPECIFICATION ParserSpec
CONSTANTS
    Sources <- AllSources
    Grammar <- Grammars
    Fragments <- Pieces
    MaxFragments <- Most
    DepthLimit <- Depths
    SizeLimit <- Sizes
    BufferLimit <- Buffers
    NotYetLimit <- NotYets
INVARIANTS
    TreeConsistent
    TreeIsAsWritten
    WaysAgree
    RefusedIsAnError
    WordsAreRead
CHECK_DEADLOCK FALSE
