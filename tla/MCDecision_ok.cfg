SPECIFICATION SpecDecision

CONSTANTS
    Curvas <- MCCurvas
    Importes = {0, 4, 12, 18}
    Capital = 20
    TASAS = 2
    MAX_IMPACTO = 5000
    MEV = 200
    Derivas <- MCDerivas
    COMPETENCIA = 30
    MAX_HOLD = 2
    MaxEventos = 4
    Niveles = {20, 50}
    Precios = {0, 2, 3, 5}
    MIN_TRADES = 1
    MIN_FACTOR = 0
    MAX_CAIDA = 6000
    LADO_COSTE = 225
    Claves = {k1, k2}
    MAX_RETRIES = 2
    IMPORTE = 2
    MAX_ORDEN = 2
    MAX_DIA = 6
    EQUITY = 10000
    RIESGO = 100
    POR_TOKEN = 10
    PERDIDA_DIA = 2
    CAIDA = 10
    RACHA = 4
    RESERVA = 100
    MAX_EXPUESTO = 4000
    MAX_ORDER = 2000
    MIN_ORDER = 20
    MAX_POSICIONES = 1
    LIQUIDEZ_PCT = 10
    HARD = 30
    TRAILING = 25
    SOFT = 25
    TOMA = 20
    ARMADO = 20
    PLAZO = 3
    Retornos <- MCRetornos
    Entradas <- MCEntradas
    MaxAbiertas = 3
    Manuales = {"balance_anomaly"}
    Averias = {"latency"}
    Ventanas = {0, 2, 4}
    SUBE = 50
    BAJA = 20
    HORIZONTE = 3
    Purgas = {0, 1}
    Intervalos = {1, 3}
    MaxSerie = 4
    Verdades <- MCVerdades
    TOP = 2
    MIN_HOLDERS = 4
    QUEUE_SIZE = 1
    MAX_TRANSACTIONS = 3
    PROTOCOL_ACCOUNTS = {"p"}

INVARIANTS
    LibroCuadra
    SinApalancamiento
    IdaYVueltaAcotada
    MetricasCoherentes
    PerdidaDelDiaAcotada
    NoSeQuedaAbierta
    AnalisisNoAbre

PROPERTIES
    NadaMiraAdelante
    UnaPorDecision
    TodoEncoladoAcaba

CHECK_DEADLOCK FALSE
