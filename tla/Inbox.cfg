SPECIFICATION InboxSpec
CONSTANTS
    Tokens = {t1, t2, t3}
    Callers = {c1, c2}
    Kinds = {"work", "activity"}
    BatchSize = 2
    MaxEvents = 3
SYMMETRY Symmetry
INVARIANTS
    DeliveredOnce
    UnreadIsReachable
PROPERTIES
    NothingLostUnseen
