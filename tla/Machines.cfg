SPECIFICATION SpecMachines
CONSTANTS
    Mot = 1024
    TasDebut = 68
    TasFin = 196
    Page = 16
    Mxfast = 20
    LogGrand = 5
    NBins = 30
    SeuilConsolide = 64
    SeuilTrim = 96
    Longueurs = {40, 1020}
    Demandes = {20, 60, 980}
    BlocsMax = 3
    BrutsMax = 2
    TouchesClavier = {42, 54, 97, 56, 100, 79, 119}
    NpadMax = 1
    Programmes <- Progs
    Traps = {3}
    BufMax = 9
    Parasites = {35, 36, 43, 45, 58, 120, 125}
    PannesMax = 1
    TailleMemoire = 5
    OctetMax = 2
    Bits = 5
    PrintfBufMax = 3
    Imprimeurs = {1, 2}
    Impressions <- Imps
    Hauteur = 3
    Largeur = 5
    Tabulation = 2
    TamponLignes = 5
    IdStarts = {0, 2, 5, 6}
    Joueurs = {"j1", "j2"}
    Melodies <- Mel
    TicksMax = 4
    NR_PHILO = 3
    Tours = 2
    USER_START = 16
    USER_END = 48
    Pointeurs = {0, 15, 16, 48}
    PidsFils = {1, 2}
    Essais = 2
    Lettres = 2
VIEW Vue
CHECK_DEADLOCK FALSE
INVARIANTS
    AllocateurSain
    AllocationJuste
    PiloteJuste
    ChainesSures
    ImpressionSure
    EcranSur
    RepasJuste
    AppelSur
    MusiqueTenue
PROPERTIES
    ReponseJuste
    ConversationFinit
    SonJuste
