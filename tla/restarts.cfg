\* Two clients and one server with its background loop, which may go down twice.
SPECIFICATION FairSpec
CONSTANTS
    i1 = i1
    i2 = i2
    c1 = c1
    c2 = c2
    c3 = c3
    a = a
    b = b
    x = x
    y = y
    None = None
    Gone = Gone
    Instance = {i1}
    Client = {c1, c2}
    Path = {a}
    Data = {x, y}
    Ops = {"read", "write", "delete"}
    Syncing = {i1}
    Announcing = {i1}
    Calls = 1
    Mishaps = 2
PROPERTIES  Answered
\* The clients have no more calls to make.
CHECK_DEADLOCK FALSE
