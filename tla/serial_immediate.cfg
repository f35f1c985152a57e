\* One caller, no batch window: every call; listings import small objects,
\* large ones are read directly.
SPECIFICATION Spec
CONSTANTS
    a = a
    b = b
    x = x
    y = y
    l1 = l1
    l2 = l2
    client = client
    other = other
    worker = worker
    Torn = Torn
    None = None
    Gone = Gone
    Path = {a, b}
    Lost = {}
    Data = {x, y}
    Size <- MCSize
    Task <- SerialTask
    Sync = {}
    Ops <- OpsAll
    Backend = "opendal"
    BatchWindow = 0
    Threshold = 2
    SizeLimit = 2
    Trigger = "dir"
    Limit <- NoHazard
    Mishaps = 1
INVARIANTS  NoLostWrite NoLostDelete  ServedWhole DiskAgrees NoSelfConflict
