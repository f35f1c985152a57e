\* One caller, and one thing that goes wrong: somebody else changes an object,
\* a backend call fails, or the process crashes.
SPECIFICATION Spec
CONSTANTS
    a = a
    b = b
    x = x
    y = y
    l1 = l1
    l2 = l2
    client = client
    other = other
    worker = worker
    Torn = Torn
    None = None
    Gone = Gone
    Path = {a, b}
    Lost = {l1}
    Data = {x, y}
    Size <- MCSize
    Task <- SerialTask
    Sync = {}
    Ops <- OpsMutations
    Backend = "opendal"
    BatchWindow = 60
    Threshold = 9
    SizeLimit = 9
    Trigger = "dir"
    Limit <- OneOfEach
    Mishaps = 1
INVARIANTS  NoLostWrite NoLostDelete NothingAtRisk LostFoundReadable FlushDrains
