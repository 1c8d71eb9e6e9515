\* Scripts of one or two of eleven messages, six of which must be refused, or
\* of three, delivered in pieces of any size.
CONSTANTS
    Symbols <- Letters
    Scripts <- UpToThree
    EnoughLength = 6
    HeaderMaxSize = 18
    ContentMaxSize = 2
    BadUrls <- Refusals
SPECIFICATION Spec
INVARIANTS
    TypeOK
    PiecesDoNotMatter
    AnswersWhereDue
PROPERTIES
    ReceiveReturns
