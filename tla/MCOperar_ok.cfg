SPECIFICATION SpecOperar
CONSTANTS
    Entornos = {"", "secreta"}
    SIN_ENTORNO = ""
    MaxCreadas = 2
    w1 = w1
    w2 = w2
    Carteras = {w1, w2}
    Propia = propia
    Nadie = nadie
    SinFichero = sin_fichero
    Ilegible = ilegible
    Transacciones <- MCTransacciones
    Importes = {1, 2}
    MaxPorOrden = 1
    MaxDiario = 2
    UltimoDia = 1
    MaxGastado = 3
    Fallos = {"disco", "ilegible", "reloj", "corte"}
    Preparadoras = {p1}
    Calentadoras = {c1}
    Curvas <- MCCurvas
    Compras = {5000}
    Porcentajes = {50, 100}
    Saldos = {0, 20, 60}
    FEE_BPS = 100
    SLIPPAGE_BPS = 1000
    COSTE_RED = 400
    GLOBAL_TTL = 1
    BLOCKHASH_TTL = 1
    MaxEdad = 1
INVARIANTS
    TopeDiario
    DiscoCubre
    LaMostradaSigueAhi
    SueloDeLoVendido
    GastoEsElImporte
PROPERTIES
    SaleSoloALaFijada
SYMMETRY Simetria
