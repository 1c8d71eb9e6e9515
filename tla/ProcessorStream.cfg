\* One sender of two requests, a pool resized between 0 and 2 workers at any
\* time, an answer a request and two calls of wake().
CONSTANTS
    r1 = r1  r2 = r2  s1 = s1
    noRequest = noRequest
    Requests <- TwoRequests
    NoRequest <- noRequest
    Senders <- OneSender
    MaxThreads = 2
    CoreCounts <- UpTo2
    InitCount = 1
    MaxAnswers = 1
    MaxWakes = 2
SPECIFICATION Spec
INVARIANTS
    StreamConsistent
PROPERTIES
    KeepsStreamPromise
    StreamProgress
