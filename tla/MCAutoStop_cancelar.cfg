SPECIFICATION Spec
CONSTANTS
    Mints = {m1}
    Caps = {5, 10}
    Reglas <- MCReglas
    MaxAltas = 1
    MaxEnVuelo = 1
    FALLOS_PARA_AVISAR = 1
    MaxPorOrden = 10
    MaxDiario = 10
PROPERTIES
    CanceladaNoVende
