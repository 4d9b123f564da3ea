SPECIFICATION Spec
CONSTANTS
    Listeners = {l1, l2}
    Tokens = {t1, t2}
    Agent = Agent
    NoToken = NoToken
    Callers <- MCCallers
    Kinds = {"work"}
    BatchSize = 1
    MaxEvents = 2
    Faults = {"leave", "lost", "restart", "exit"}
SYMMETRY Symmetry
PROPERTIES
    LaunchedOnce
