\* A listing imports the object of a path with an unexported write.
SPECIFICATION Spec
CONSTANTS
    a = a
    b = b
    x = x
    y = y
    l1 = l1
    l2 = l2
    client = client
    other = other
    worker = worker
    Torn = Torn
    None = None
    Gone = Gone
    Path = {a}
    Lost = {}
    Data = {x, y}
    Size <- MCSize
    Task <- SerialTask
    Sync = {}
    Ops <- OpsWriteListFlush
    Backend = "opendal"
    BatchWindow = 60
    Threshold = 9
    SizeLimit = 9
    Trigger = "dir"
    Limit <- NoHazard
    Mishaps = 1
INVARIANTS NoLostWrite
