CONSTANTS
    Pids = {p1, p2, p3}
    Idle = idle
    Nul = nul
    PrioMax = 2
    DateMax = 1
    Fids = {f1}
    Sids = {}
    ClockFreq = 1
    SchedFreq = 1
    ShortMax = 1
    Messages = {m1, m2}
    MsgMax = 2
    Rien = rien
SPECIFICATION SpecMessages
CHECK_DEADLOCK FALSE
SYMMETRY Symetrie
VIEW VueMessages
INVARIANTS
    TypeFiles
    Discipline
    AttentesSeparees
    PcountJuste
PROPERTIES
    ImplementeFile
    Preemption
