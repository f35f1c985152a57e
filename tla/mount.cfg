\* Files of up to two blocks, names that collide, renames of files and directories, one backend call that fails.
SPECIFICATION MountSpec
CONSTANTS
    x = x
    None = None
    NoEntry = NoEntry
    Idle = Idle
    Path <- MCPath
    StartsWith <- MCStartsWith
    Named <- MCNamed
    Eager <- MCEager
    Renames <- MCRenames
    Block = {x}
    Zero = Zero
    MaxLen = 2
    NoHandle = NoHandle
    Data <- MCData
    Empty <- MCEmpty
    Mishaps = 1
INVARIANTS MountTypeOK 
PROPERTIES ImplementsFileSystem
