\* One strand, which is given tasks while it ends a batch.
CONSTANTS
    s1 = s1  s2 = s2
    w1 = w1  w2 = w2
    c1 = c1  c2 = c2
    NoStrand = NoStrand
    Workers <- TwoWorkers
    Strands <- OneStrand
    Clients <- TwoClients
    Waiters <- OneClient
    MaxTasks = 2
SPECIFICATION Spec
INVARIANT
    NoTaskDropped
