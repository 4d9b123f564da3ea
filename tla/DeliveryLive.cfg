SPECIFICATION FairSpec
CONSTANTS
    Listeners = {l1}
    Tokens = {t1, t2, t3}
    Agent = Agent
    NoToken = NoToken
    Callers <- MCCallers
    Kinds = {"work"}
    BatchSize = 1
    MaxEvents = 2
    Faults = {"restart"}
INVARIANT ReservationsAreTended
PROPERTIES
    IdleSessionsWake
