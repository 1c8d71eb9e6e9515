\* A listening channel, one that connects and one that is accepted, buffers of
\* two bytes, messages of one and of three bytes.
CONSTANTS
    l = l  o = o  a = a
    Listening <- OneListening
    Opening <- OneOpening
    Accepted <- OneAccepted
    None = None
    Used <- OneOrTheOther
    FailAtOnce = {"receive"}
    BufferSize = 2
    Messages = {1, 3}
    MaxSent <- Sends
    MaxArrived <- Arrivals
    MaxWakes = 1
SPECIFICATION Spec
INVARIANTS
    PortConsistent
    BytesInOrder
PROPERTIES
    BytesGetThrough
    EverythingIsNoticed
