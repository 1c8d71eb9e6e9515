\* Two strands on two workers, a waiter and tasks that submit, two tasks each.
CONSTANTS
    s1 = s1  s2 = s2
    w1 = w1  w2 = w2
    c1 = c1  c2 = c2
    NoStrand = NoStrand
    Workers <- TwoWorkers
    Strands <- TwoStrands
    Clients <- OneClient
    Waiters <- OneClient
    MaxTasks = 2
SPECIFICATION FairSpec
INVARIANTS
    StrandConsistent
    TasksInOrder
    FailureStopsStrand
PROPERTIES
    WaitAllMeansDone
    WaitReturns
