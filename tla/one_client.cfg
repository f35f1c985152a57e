\* One client that calls any server and waits until all have heard of it.
SPECIFICATION PatientSpec
CONSTANTS
    i1 = i1
    i2 = i2
    c1 = c1
    c2 = c2
    c3 = c3
    a = a
    b = b
    x = x
    y = y
    None = None
    Gone = Gone
    Instance = {i1, i2}
    Client = {c1}
    Path = {a, b}
    Data = {x, y}
    Ops = {"read", "stat", "write", "delete", "rename", "flush"}
    Syncing = {}
    Announcing = {i1, i2}
    Calls = 3
    Mishaps = 0
INVARIANTS TypeOK 
 
\* The clients have no more calls to make.
CHECK_DEADLOCK FALSE
