CONSTANTS
    Pids = {p1, p2, p3}
    Idle = idle
    Nul = nul
    PrioMax = 1
    DateMax = 1
    Fids = {}
    Sids = {s1}
    ClockFreq = 1
    SchedFreq = 1
    ShortMax = 2
SPECIFICATION SpecSansPerte
CHECK_DEADLOCK FALSE
SYMMETRY Symetrie
VIEW Vue
INVARIANTS
    TypeSemaphore
    CompteEgaleFile
PROPERTIES
    ImplementeSemaphore
