SPECIFICATION SpecFirmante
CONSTANTS
    Entornos = {""}
    SIN_ENTORNO = ""
    MaxCreadas = 2
    w1 = w1
    w2 = w2
    Carteras = {w1, w2}
    Propia = propia
    Nadie = nadie
    SinFichero = sin_fichero
    Ilegible = ilegible
    Transacciones <- MCTransacciones
    Importes = {1, 2}
    MaxPorOrden = 1
    MaxDiario = 2
    UltimoDia = 0
    MaxGastado = 3
    Fallos = {"corte"}
INVARIANT RetiradaUnaVez
