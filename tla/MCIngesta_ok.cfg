SPECIFICATION Spec
CONSTANTS
    m1 = m1
    m2 = m2
    creador = creador
    Motores = {m1, m2}
    UltimoEvento = 3
    Creaciones <- MCCreaciones
    Creadores = {creador}
    CreadorDe <- MCCreadorDe
    TamCola = 2
    CapCarrera = 2
    CapDetector = 1
    TamAnalisis = 1
    MaxConexiones = 3
    MaxArranques = 1
INVARIANTS
    NadaSeEsfuma
    EntregaUnaVez
    PublicadaUnaVez
SYMMETRY Simetria
\* With every engine rejected the worker waits for ever; and the bounds end it.
CHECK_DEADLOCK FALSE
