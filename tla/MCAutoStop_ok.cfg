SPECIFICATION FairSpec
CONSTANTS
    Mints = {m1}
    Caps = {5, 10}
    Reglas <- MCReglas
    MaxAltas = 2
    MaxEnVuelo = 1
    FALLOS_PARA_AVISAR = 1
    MaxPorOrden = 5
    MaxDiario = 5
INVARIANTS
    TrailingSubsume
PROPERTIES
    CerradaNoCambia
    StopActua
