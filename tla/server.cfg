\* Requests of a server and its background loop, the local backend.
SPECIFICATION FairSpec
CONSTANTS
    a = a
    b = b
    x = x
    y = y
    l1 = l1
    l2 = l2
    client = client
    other = other
    worker = worker
    Torn = Torn
    None = None
    Gone = Gone
    Path = {a}
    Lost = {}
    Data = {x, y}
    Size <- MCSize
    Task = {client, worker}
    Sync = {worker}
    Ops <- OpsServer
    Backend = "local"
    BatchWindow = 60
    Threshold = 2
    SizeLimit = 2
    Trigger = "file"
    Limit <- OneRemote
    Mishaps = 1
 
PROPERTIES EveryCallReturns DirtyDrains
