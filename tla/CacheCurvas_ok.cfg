SPECIFICATION FairSpec
CONSTANTS
    Mints = {m1, m2}
    Graduables = {m1}
    Peticiones = {p1, p2}
    CURVA_TTL = 1
    GRADUACION_TTL = 2
    TOKEN_CACHE_MAX = 1
    MaxEdad = 2
INVARIANTS
    GraduadoCierto
PROPERTIES
    AcabaSabiendose
