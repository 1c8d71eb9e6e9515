\* A lone waiter that also submits, another client that submits, two tasks
\* (either may submit the other), and a pool that is resized to 0, 1 or 3
\* workers at any time; every thread is scheduled and tasks return.
CONSTANTS
    t1 = t1  t2 = t2
    c1 = c1  c2 = c2
    noTask = noTask
    Tasks <- TwoTasks
    NoTask <- noTask
    Clients <- TwoClients
    Waiters <- OneClient
    MaxThreads = 3
    CoreCounts <- Sizes013
    InitCount = 3
    WaitCounts <- Counts02
SPECIFICATION FairSpec
INVARIANTS
    PoolConsistent
    WakeUpsSuffice
    ShrinkDrains
PROPERTIES
    KeepsPoolPromise
    WaitMeansDone
    PoolProgress
