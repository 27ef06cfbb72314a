SPECIFICATION FairSpec
CONSTANTS
    Claves = {k1, k2}
    Subs <- MCSubs
    MaxPeticiones = 3
    MaxCaidas = 1
    MaxCola = 2
INVARIANTS
    Atribucion
    SinHuerfanas
PROPERTIES
    SeguidaAcabaActiva
\* Nothing watched and nothing on the way: the iterator waits in recv.
CHECK_DEADLOCK FALSE
