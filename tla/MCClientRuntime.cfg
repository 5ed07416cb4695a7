SPECIFICATION Spec
CONSTANTS
    Hosts = {h1, h2}
    Tasks = {t1, t2}
    MaxCarriers = 3
    MaxEra = 2
SYMMETRY Alike
INVARIANTS
    NoPhantomAuthority
    NoOrphan
PROPERTIES
    NewestWins
CHECK_DEADLOCK FALSE
