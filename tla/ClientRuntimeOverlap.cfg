SPECIFICATION Spec
CONSTANTS
    Hosts = {h1, h2}
    Tasks = {t1, t2}
    MaxCarriers = 3
    MaxEra = 2
SYMMETRY Alike
PROPERTIES
    RecoveryIsHarness
CHECK_DEADLOCK FALSE
