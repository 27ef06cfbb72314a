------------------------------ MODULE CacheCurvas ----------------------------
(***************************************************************************)
(* What the API knows of a curve (apps/api/mit_api/trade.py): the cache of *)
(* curves, the cache of graduations, and the live view of a token          *)
(* (main.py, token_live), which asks for both.  Requests of several        *)
(* clients interleave where they await the RPC, which may answer late,     *)
(* fail, or find no curve.                                                 *)
(*                                                                         *)
(* Of a curve only its completion is kept: "si" or "no", and "nada" when   *)
(* it is not known.  An instant is kept as the time since, counted up to   *)
(* MaxEdad, which stands for that or more.  A cache is a dictionary in     *)
(* order of insertion.                                                     *)
(***************************************************************************)
EXTENDS Integers, Sequences

CONSTANTS
    Mints,
    Graduables,        \* bound: the tokens whose curve may complete
    Peticiones,        \* requests the API serves at once
    CURVA_TTL,
    GRADUACION_TTL,
    TOKEN_CACHE_MAX,
    MaxEdad            \* bound: ages are told apart up to this one

ASSUME PlazosAssumption ==
    /\ Graduables \subseteq Mints
    /\ CURVA_TTL \in Nat \ {0}
    /\ GRADUACION_TTL \in Nat \ {0}
    /\ TOKEN_CACHE_MAX \in Nat \ {0}
    /\ MaxEdad \in Nat
    /\ CURVA_TTL <= MaxEdad
    /\ GRADUACION_TTL <= MaxEdad

VARIABLES
    completas,     \* chain: the curves that are complete
    curvaCache,    \* _curva_cache
    gradCache,     \* _graduacion_cache
    tarea,         \* what each request awaits
    respuesta      \* the last answer of the view

caches == <<curvaCache, gradCache>>
vars == <<completas, caches, tarea, respuesta>>

Edades == 0 .. MaxEdad
Dato == {"si", "no"}
Saber == {"si", "no", "nada"}

Entrada(m, d, e) == [mint |-> m, completa |-> d, edad |-> e]
Libre == [paso |-> "libre"]

\* A read on its way: for which of the two questions, what the first one
\* answered, what was cached when it was sent, how long ago token_graduated
\* looked at the clock, and what the node saw.
Lectura(paso, m, grad, previo) ==
    [paso |-> paso, mint |-> m, graduado |-> grad, guardado |-> previo,
     edad |-> 0, visto |-> "nada"]

-----------------------------------------------------------------------------
(* The dictionaries                                                        *)

Tiene(d, m) == \E n \in DOMAIN d : d[n].mint = m

\* A cache of a single slot would answer for another token.
MutGuardado(d, m) == IF d = <<>> THEN "nada" ELSE d[1].completa

Guardado(d, m) ==
    IF Tiene(d, m) THEN d[CHOOSE n \in DOMAIN d : d[n].mint = m].completa ELSE "nada"

ConSitio(d) == IF Len(d) >= TOKEN_CACHE_MAX THEN Tail(d) ELSE d

Asignar(d, e) ==
    IF Tiene(d, e.mint)
    THEN [n \in DOMAIN d |-> IF d[n].mint = e.mint THEN e ELSE d[n]]
    ELSE Append(d, e)

\* The oldest insertion makes room even for a key that is already there.
Poner(d, e) == Asignar(ConSitio(d), e)

Quitar(d, m) ==
    LET n == CHOOSE k \in DOMAIN d : d[k].mint = m IN
    IF Tiene(d, m) THEN SubSeq(d, 1, n - 1) \o SubSeq(d, n + 1, Len(d)) ELSE d

CurvaVigente(m) ==
    \E n \in DOMAIN curvaCache : curvaCache[n].mint = m /\ curvaCache[n].edad < CURVA_TTL

\* What was once read as "no" would be believed for ever.
MutGradVigente(m) == Tiene(gradCache, m)

GradVigente(m) ==
    \E n \in DOMAIN gradCache :
        /\ gradCache[n].mint = m
        /\ gradCache[n].completa = "si" \/ gradCache[n].edad < GRADUACION_TTL

Init ==
    /\ completas = {}
    /\ curvaCache = <<>>
    /\ gradCache = <<>>
    /\ tarea = [p \in Peticiones |-> Libre]
    /\ respuesta = Libre

-----------------------------------------------------------------------------
(* token_live: the graduation first, then the curve                        *)

Contestar(p, m, grad) ==
    /\ tarea' = [tarea EXCEPT ![p] = Libre]
    /\ respuesta' = [paso |-> "vista", mint |-> m, graduado |-> grad]

Esperar(p, lectura) ==
    /\ tarea' = [tarea EXCEPT ![p] = lectura]
    /\ UNCHANGED respuesta

\* curva_actual, once token_graduated answered: from the cache, or reading.
\* What this read finds serves the price, which is not modelled.
PedirCurva(p, m, grad) ==
    IF CurvaVigente(m)
    THEN Contestar(p, m, grad)
    ELSE Esperar(p, Lectura("curva", m, grad, "nada"))

\* The graduation is cached.
PedirConGraduacion(p, m) ==
    /\ tarea[p] = Libre
    /\ GradVigente(m)
    /\ PedirCurva(p, m, Guardado(gradCache, m))
    /\ UNCHANGED <<completas, caches>>

\* The graduation is not, and the curve is.
PedirConCurva(p, m) ==
    /\ tarea[p] = Libre
    /\ ~ GradVigente(m) /\ CurvaVigente(m)
    /\ LET d == Guardado(curvaCache, m) IN
         /\ gradCache' = Poner(gradCache, Entrada(m, d, 0))
         /\ Contestar(p, m, d)
    /\ UNCHANGED <<completas, curvaCache>>

\* Neither is.
PedirSinNada(p, m) ==
    /\ tarea[p] = Libre
    /\ ~ GradVigente(m) /\ ~ CurvaVigente(m)
    /\ Esperar(p, Lectura("graduacion", m, "nada", Guardado(curvaCache, m)))
    /\ UNCHANGED <<completas, caches>>

Pedir(p, m) == PedirConGraduacion(p, m) \/ PedirConCurva(p, m) \/ PedirSinNada(p, m)

\* The answer arrives: both caches learn it, and the curve just read serves
\* the second question.  The graduation is dated when it was asked for.
LlegarGraduacion(p) ==
    /\ tarea[p].paso = "graduacion" /\ tarea[p].visto # "nada"
    /\ LET t == tarea[p] IN
         /\ curvaCache' = Poner(curvaCache, Entrada(t.mint, t.visto, 0))
         /\ gradCache' = Poner(gradCache, Entrada(t.mint, t.visto, t.edad))
         /\ Contestar(p, t.mint, t.visto)
    /\ UNCHANGED completas

LlegarCurva(p) ==
    /\ tarea[p].paso = "curva" /\ tarea[p].visto # "nada"
    /\ LET t == tarea[p] IN
         /\ curvaCache' = Poner(curvaCache, Entrada(t.mint, t.visto, 0))
         /\ Contestar(p, t.mint, t.graduado)
    /\ UNCHANGED <<completas, gradCache>>

\* The RPC fails: what was cached when the read was sent, however old, is
\* taken for the curve of now.
FallarGraduacion(p) ==
    /\ tarea[p].paso = "graduacion"
    /\ LET t == tarea[p] IN
         /\ gradCache' = IF t.guardado = "nada" THEN gradCache
                         ELSE Poner(gradCache, Entrada(t.mint, t.guardado, t.edad))
         /\ PedirCurva(p, t.mint, t.guardado)
    /\ UNCHANGED <<completas, curvaCache>>

FallarCurva(p) ==
    /\ tarea[p].paso = "curva"
    /\ Contestar(p, tarea[p].mint, tarea[p].graduado)
    /\ UNCHANGED <<completas, caches>>

\* The account does not exist, or it cannot be decoded: nothing is known.
NoHayCurva(p) ==
    /\ tarea[p].paso = "graduacion"
    /\ PedirCurva(p, tarea[p].mint, "nada")
    /\ UNCHANGED <<completas, caches>>

\* forget_graduation, called when a `migrate' goes by in the logs.
Olvidar(m) ==
    /\ Tiene(gradCache, m)
    /\ gradCache' = Quitar(gradCache, m)
    /\ UNCHANGED <<completas, curvaCache, tarea, respuesta>>

-----------------------------------------------------------------------------
(* The chain, the node and the clock                                       *)

Completar(m) ==
    /\ m \in Graduables \ completas
    /\ completas' = completas \cup {m}
    /\ UNCHANGED <<caches, tarea, respuesta>>

\* The node looks at the chain some time before its answer arrives.
Mirar(p) ==
    /\ tarea[p].paso # "libre" /\ tarea[p].visto = "nada"
    /\ tarea' = [tarea EXCEPT ![p].visto = IF tarea[p].mint \in completas THEN "si" ELSE "no"]
    /\ UNCHANGED <<completas, caches, respuesta>>

Envejecida(r) == [r EXCEPT !.edad = IF r.edad < MaxEdad THEN r.edad + 1 ELSE r.edad]

PasarTiempo ==
    /\ curvaCache' = [n \in DOMAIN curvaCache |-> Envejecida(curvaCache[n])]
    /\ gradCache' = [n \in DOMAIN gradCache |-> Envejecida(gradCache[n])]
    /\ tarea' = [p \in Peticiones |->
                   IF tarea[p].paso = "graduacion" THEN Envejecida(tarea[p]) ELSE tarea[p]]
    /\ UNCHANGED <<completas, respuesta>>

Next ==
    \/ \E p \in Peticiones, m \in Mints : Pedir(p, m)
    \/ \E p \in Peticiones :
         \/ LlegarGraduacion(p)
         \/ LlegarCurva(p)
         \/ FallarGraduacion(p)
         \/ FallarCurva(p)
         \/ NoHayCurva(p)
         \/ Mirar(p)
    \/ \E m \in Mints : Olvidar(m) \/ Completar(m)
    \/ PasarTiempo

Spec == Init /\ [][Next]_vars

\* A read for the graduation of m.
Consulta(p, m) == tarea[p].paso = "graduacion" /\ tarea[p].mint = m

\* The panel keeps asking for the token it shows, every read ends somehow,
\* time passes, and the reads of a token do not all fail.
Fairness ==
    /\ WF_vars(PasarTiempo)
    /\ \A p \in Peticiones :
         WF_vars(LlegarGraduacion(p) \/ LlegarCurva(p) \/ FallarGraduacion(p) \/ FallarCurva(p))
    /\ \A m \in Graduables :
         /\ SF_vars(\E p \in Peticiones : Pedir(p, m))
         /\ SF_vars(\E p \in Peticiones : Consulta(p, m) /\ Mirar(p))
         /\ SF_vars(\E p \in Peticiones : Consulta(p, m) /\ LlegarGraduacion(p))

FairSpec == Spec /\ Fairness

-----------------------------------------------------------------------------
(* Properties                                                              *)

Entradas == [mint : Mints, completa : Dato, edad : Edades]

Suspendidas ==
    {Libre} \cup [paso : {"graduacion", "curva"}, mint : Mints, graduado : Saber, guardado : Saber,
                  edad : Edades, visto : Saber]

TypeOK ==
    /\ completas \subseteq Mints
    /\ curvaCache \in Seq(Entradas) /\ Len(curvaCache) <= TOKEN_CACHE_MAX
    /\ gradCache \in Seq(Entradas) /\ Len(gradCache) <= TOKEN_CACHE_MAX
    /\ tarea \in [Peticiones -> Suspendidas]
    /\ \/ respuesta = Libre
       \/ respuesta \in [paso : {"vista"}, mint : Mints, graduado : Saber]

Responde(m, d) == respuesta.paso = "vista" /\ respuesta.mint = m /\ respuesta.graduado = d

\* The panel is never told that a token graduated while its curve is open,
\* whichever reads of whichever tokens crossed, failed or came late
\* (trade.py:834-860: the rule on logs "fallaba en 6 de cada 10").
GraduadoCierto == \A m \in Mints : Responde(m, "si") => m \in completas

\* Whoever keeps asking for a token that graduated stops being told that it
\* did not, in spite of the answers that were on their way, of the failed
\* reads and of what the caches evict (trade.py:749-753).
AcabaSabiendose == \A m \in Graduables : m \in completas ~> [] ~ Responde(m, "no")

=============================================================================
