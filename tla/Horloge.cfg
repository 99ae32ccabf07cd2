CONSTANTS
    Pids = {p1, p2, p3}
    Idle = idle
    Nul = nul
    PrioMax = 2
    DateMax = 3
    Fids = {}
    Sids = {}
    ClockFreq = 2
    SchedFreq = 1
SPECIFICATION Spec
CHECK_DEADLOCK FALSE
SYMMETRY Symetrie
VIEW Vue
INVARIANTS
    TypeOK
    Discipline
    Filiation
    FilesTriees
    JamaisEnfileDeuxFois
    WaitpidValide
PROPERTIES
    DisparitionDesZombies
    Preemption
    ReveilALHeure
    TourDOrdonnancement
