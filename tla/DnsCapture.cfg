SPECIFICATION Spec
CONSTANTS
    Packets <- AllPackets
    Names = {"host"}
    RingCap = 2
INVARIANTS
    TypeOK
    Attributed
    ShortResponsesLearned
