CONSTANTS
    Pids = {p1, p2, p3}
    Idle = idle
    Nul = nul
    PrioMax = 2
    DateMax = 1
    Fids = {}
    Sids = {}
    ClockFreq = 2
    SchedFreq = 1
SPECIFICATION Spec
CHECK_DEADLOCK FALSE
INVARIANT EluJamaisLibere
