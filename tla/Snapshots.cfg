SPECIFICATION Spec
SYMMETRY Symmetry
CONSTANTS
    i1 = i1
    i2 = i2
    d1 = d1
    d2 = d2
    r1 = r1
    r2 = r2
    t1 = t1
    t2 = t2
    a = a
    k = k
    m = m
    Clients = {t1, t2}
    Sweepers = {t1, t2}
    OfferMs = 1
    TurnMs = 1
    QueueMs = 1
    ReconnectMs = 1
    InstanceMs = 1
    RetentionMs = 1
    MaxSequence = 2
    Instances = {i1, i2}
    Identities = {d1, d2}
    Requests = {r1, r2}
    ContentTargets <- Threads
    FileTargets <- Files
INVARIANTS GrantsAreSound
PROPERTY SweepsCatchUp
