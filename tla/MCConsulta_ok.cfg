SPECIFICATION SpecConsulta

CONSTANTS
    Hilos = {"a", "b"}
    Repartos <- MCRepartos
    Creadores = {"c1"}
    GAP = 2
    RETRIES = 2
    ESPERAS <- MCEsperas
    PAGINAS = 2
    MEDIO = 1
    LENTO = 2
    FALLOS = 2
    Tareas = {"t1", "t2", "t3"}
    HUECO = 2
    MAX_ATTEMPTS = 3
    INICIAL = 1
    TOPE = 2
    Mints = {"m1"}
    Entregas <- MCEntregas
    CuentasCurva <- MCCuentasCurva
    OCIO = 1
    ESPERA_PRIMERA = 1
    ESPERA_SIMULA = 1
    MAX_VISTOS = 1
    VENTANA = 6
    FIRMAS = 2
    MIN_RETS = 3
    BLOQUE = 5
    Medidas <- MCMedidas
    Horizontes = {30, 300}
    DRAWS = 3
    MIN_FINAS = 24

INVARIANTS
    InformeFiel
    LoQueFaltaNoOpina
    EscenariosEnOrden
    RespuestaFiel

PROPERTIES
    RitmoPorHilo
    Espaciadas
    ConsultaAcaba
    SeVuelveAVigilar

CHECK_DEADLOCK FALSE
