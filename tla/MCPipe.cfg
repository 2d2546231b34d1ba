\* A pipe of three bytes and requests of up to two: every wrap-around, and
\* both boundaries, are met from every offset of tail.
CONSTANTS
    Byte = {0, 1}
    PIPE_SIZE = 3
    MaxRequest = 2
SPECIFICATION Spec
INVARIANT RingConsistent
PROPERTY ImplementsStream
