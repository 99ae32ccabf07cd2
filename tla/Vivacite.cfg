CONSTANTS
    Pids = {p1, p2, p3}
    Idle = idle
    Nul = nul
    PrioMax = 1
    DateMax = 1
    Fids = {}
    Sids = {}
    ClockFreq = 2
    SchedFreq = 1
SPECIFICATION SpecCalme
CHECK_DEADLOCK FALSE
INVARIANT PasDeReveilPerdu
PROPERTIES
    FinDuSommeil
    Equite
    AttenteServie
