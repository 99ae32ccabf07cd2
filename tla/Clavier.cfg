CONSTANTS
    Pids = {p1, p2, p3}
    Idle = idle
    Nul = nul
    PrioMax = 2
    DateMax = 1
    Fids = {}
    Sids = {}
    ClockFreq = 1
    SchedFreq = 1
    BufferSize = 3
    HistorySize = 1
    LongueursLues = {2, 4}
    DebordMax = 1
SPECIFICATION SpecLecteurs
CHECK_DEADLOCK FALSE
SYMMETRY Symetrie
VIEW Vue

PROPERTIES LigneServie LecteurLePlusFort
