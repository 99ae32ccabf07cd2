CONSTANTS
    Pids = {p1, p2, p3}
    Idle = idle
    Nul = nul
    PrioMax = 1
    DateMax = 1
    Fids = {f1}
    Sids = {s1}
    ClockFreq = 1
    SchedFreq = 1
    ShortMax = 1
    Messages = {m1}
    MsgMax = 1
    Rien = rien
SPECIFICATION SpecServices
CHECK_DEADLOCK FALSE
VIEW VueServices
PROPERTIES
    SignalSert
    PsendSert
    PreceiveSert
