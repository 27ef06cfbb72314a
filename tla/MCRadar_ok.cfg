SPECIFICATION Spec
CONSTANTS
    m1 = m1
    m2 = m2
    m3 = m3
    Mints = {m1, m2, m3}
    Nadie = Nadie
    Lecturas <- MCLecturas
    NACIMIENTO = 2
    Niveles = {2, 3}
    OBJETIVO = 3
    Bandas = {3, 4}
    EXPLOTA = 4
    GRANDE = 4
    GANADOR = 3
    MIN_GRADUACION = 4
    ESTAMPIDA = 2
    TRACKED_MINTS_CAP = 1
    DEEP_TRACKED_MAX = 1
    CAP_HISTORY = 1
    PODA = 1
    OUTCOME_MEMORY_CAP = 2
    FOTO = 1
    MUESTRA_MAX = 1
    SWAP_WATCH_CAP = 1
    MaxAvisos = 7
    MaxSwap = 1
    MaxArranques = 1
INVARIANTS
    ConteoHonesto
    PicosConcuerdan
    TechoSobreBase
    GraduadoReal
    SeguidosSonLosUltimos
SYMMETRY Simetria
\* The notifications end.
CHECK_DEADLOCK FALSE
