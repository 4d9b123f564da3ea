SPECIFICATION Spec
CONSTANTS
    Listeners = {l1, l2}
    Tokens = {t1, t2}
    Agent = Agent
    NoToken = NoToken
    Callers <- MCCallers
    Kinds = {"work"}
    BatchSize = 1
    MaxEvents = 1
    Faults = {"leave"}
INVARIANTS
    AmbiguityIsKept
