SPECIFICATION Spec
CONSTANTS
    Byte <- MCByte
    Newline <- NL
    ParseInt <- Decimal
    Wire <- MCWire
    Frames <- MCFrames
    Begin <- MCBegin
    NewlineAt <- MCNewlineAt
INVARIANTS
    TypeOK
    DeliveredInOrder
    NothingWithheld
PROPERTIES
    ImplementsDelivery
CHECK_DEADLOCK FALSE
