\* Directories two deep, one rename of a directory, one backend call that fails.
SPECIFICATION Spec
CONSTANTS
    x = x
    None = None
    NoEntry = NoEntry
    Idle = Idle
    Path <- MCPath
    StartsWith <- MCStartsWith
    Named <- MCNamed
    Eager <- MCEager
    Renames <- MCRenames
    Data = {x, Empty}
    Empty = Empty
    Mishaps = 1
INVARIANTS TypeOK CacheAgrees ListingTrue TreeListsDirs
PROPERTIES   MovesWhatItKnows
