CONSTANTS
    ca1 = ca1
    ca2 = ca2
    server = server
    runtime = runtime
    r1 = r1
    r2 = r2
    None = None
    Accounts <- TwoAccounts
    Servers <- OneServer
    Runtimes <- OneRuntime
    Tasks <- TwoTasks
    MaxChanges = 2
SPECIFICATION FairSpec
INVARIANTS
    DisconnectHolds
    InvalidationDrops
    ActiveWasSeen
PROPERTY CachesSettle
