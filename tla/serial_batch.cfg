\* One caller, exports batched: every call but a directory listing.
SPECIFICATION Spec
CONSTANTS
    a = a
    b = b
    x = x
    y = y
    l1 = l1
    l2 = l2
    client = client
    other = other
    worker = worker
    Torn = Torn
    None = None
    Gone = Gone
    Path = {a, b}
    Lost = {}
    Data = {x, y}
    Size <- MCSize
    Task <- SerialTask
    Sync = {}
    Ops <- OpsNoList
    Backend = "opendal"
    BatchWindow = 60
    Threshold = 9
    SizeLimit = 9
    Trigger = "dir"
    Limit <- NoHazard
    Mishaps = 1
INVARIANTS TypeOK NoLostWrite ServedWhole DiskAgrees  FlushDrains NoSelfConflict
