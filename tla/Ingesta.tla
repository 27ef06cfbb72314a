------------------------------- MODULE Ingesta -------------------------------
(***************************************************************************)
(* The detection path of the worker (apps/worker/mit_worker/ingest.py):    *)
(* several engines bring the same events over their own connections        *)
(* (ResilientLogStream), their pumps put them in one bounded queue         *)
(* (RacingLogStream), a consumer drops the repeated ones, recognises the   *)
(* creations (NewTokenDetector), saves them (TokenRepository) and          *)
(* publishes them.  The process may die at any point; the database stays.  *)
(*                                                                         *)
(* Events are the numbers of their order on the chain.  A connection       *)
(* brings events in that order, from anywhere: the provider repeats part   *)
(* of what came before a reconnection and loses part of it.  A creation    *)
(* stands for its signature and its mint, which it shares with no other.   *)
(***************************************************************************)
EXTENDS Integers, Sequences, FiniteSets, Functions

CONSTANTS
    Motores,         \* the engines
    UltimoEvento,    \* bound: events on the chain
    Creaciones,      \* those that create a token
    Creadores,
    CreadorDe,       \* creation -> creator
    TamCola,         \* queue_size
    CapCarrera,      \* dedup_capacity of the race
    CapDetector,     \* dedup_capacity of the detector
    TamAnalisis,     \* QUEUE_SIZE of the analysis
    MaxConexiones,   \* bound: connections ever opened
    MaxArranques     \* bound: restarts of the process

Eventos == 1 .. UltimoEvento
ASSUME EventosAssumption == UltimoEvento \in Nat /\ Creaciones \subseteq Eventos
ASSUME CreadoresAssumption == CreadorDe \in [Creaciones -> Creadores]
ASSUME CapacidadesAssumption ==
    /\ TamCola \in Nat \ {0}
    /\ CapCarrera \in Nat \ {0}
    /\ CapDetector \in Nat \ {0}
    /\ TamAnalisis \in Nat \ {0}
    /\ MaxConexiones \in Nat
    /\ MaxArranques \in Nat

VARIABLES
    motor,        \* where each engine's iterator is
    pos,          \* the last event each engine's connection brought
    cola,         \* _queue: events brought and not consumed
    vistas,       \* _seen: signatures the race remembers, oldest first
    dedup,        \* the detector's BoundedDedup, oldest first
    manejo,       \* the creation in _handle, or Libre
    analisis,     \* the queue of the analysis
    tokens,       \* database: rows of tokens
    creados,      \* database: tokens_created of each creator
    publicados,   \* times each creation was published
    entregas,     \* ghost: what the race delivered since the process started
    traidas,      \* ghost: creations some engine brought
    perdidas,     \* ghost: creations dropped, not saved, or lost in a crash
    conexiones,
    arranques

transporte == <<motor, pos, conexiones>>
memoria == <<vistas, dedup, manejo, analisis, entregas>>
base == <<tokens, creados>>
vars == <<transporte, cola, memoria, base, publicados, traidas, perdidas, arranques>>

Libre == [paso |-> "libre"]
En(paso, e) == [paso |-> paso, evento |-> e]

Init ==
    /\ motor = [i \in Motores |-> "fuera"]
    /\ pos = [i \in Motores |-> 0]
    /\ conexiones = 0
    /\ cola = <<>>
    /\ vistas = <<>>
    /\ dedup = <<>>
    /\ manejo = Libre
    /\ analisis = <<>>
    /\ tokens = {}
    /\ creados = [c \in Creadores |-> 0]
    /\ publicados = [e \in Creaciones |-> 0]
    /\ entregas = <<>>
    /\ traidas = {}
    /\ perdidas = {}
    /\ arranques = 0

-----------------------------------------------------------------------------
(* ResilientLogStream: one engine                                          *)

SoloTransporte == UNCHANGED <<cola, memoria, base, publicados, traidas, perdidas, arranques>>

PasarA(i, estado) == motor' = [motor EXCEPT ![i] = estado]

\* connect() and the subscription's request
Conectar(i) ==
    /\ motor[i] = "fuera"
    /\ conexiones < MaxConexiones
    /\ conexiones' = conexiones + 1
    /\ PasarA(i, "espera")
    /\ pos' = [pos EXCEPT ![i] = 0]
    /\ SoloTransporte

Confirmar(i) ==
    /\ motor[i] = "espera"
    /\ PasarA(i, "viva")
    /\ UNCHANGED <<pos, conexiones>> /\ SoloTransporte

\* SubscriptionRejectedError ends the pump's task: the engine is not retried
\* and nobody looks at the task.
Rechazar(i) ==
    /\ motor[i] = "espera"
    /\ PasarA(i, "muerto")
    /\ UNCHANGED <<pos, conexiones>> /\ SoloTransporte

\* The connection fails or keeps silent: the engine waits and connects again.
Cortar(i) ==
    /\ motor[i] \in {"espera", "viva"}
    /\ PasarA(i, "fuera")
    /\ UNCHANGED <<pos, conexiones>> /\ SoloTransporte

-----------------------------------------------------------------------------
(* RacingLogStream: the pumps                                              *)

\* Mutant: a full queue takes nothing, and the oldest is still dropped.
MutEncolar(q, e) == IF Len(q) < TamCola THEN Append(q, e) ELSE Tail(q)

\* A full queue drops its oldest event.
Encolar(q, e) == Append(IF Len(q) < TamCola THEN q ELSE Tail(q), e)

Desbordada(q) == IF Len(q) < TamCola THEN {} ELSE {Head(q)} \cap Creaciones

Traer(i, e) ==
    /\ motor[i] = "viva"
    /\ e > pos[i]
    /\ pos' = [pos EXCEPT ![i] = e]
    /\ cola' = Encolar(cola, e)
    /\ traidas' = traidas \cup ({e} \cap Creaciones)
    /\ perdidas' = perdidas \cup Desbordada(cola)
    /\ UNCHANGED <<motor, conexiones, memoria, base, publicados, arranques>>

-----------------------------------------------------------------------------
(* The consumer: RacingLogStream.__aiter__, NewTokenDetector, _handle      *)

\* Mutant: the memory holds one less than its capacity.
MutRecordar(s, e, cap) == IF Len(s) + 1 < cap THEN Append(s, e) ELSE Tail(Append(s, e))

\* mark_seen and BoundedDedup.add: past its capacity, the oldest goes.
Recordar(s, e, cap) == IF Len(s) < cap THEN Append(s, e) ELSE Tail(Append(s, e))

Sacar ==
    /\ manejo = Libre
    /\ cola # <<>>
    /\ cola' = Tail(cola)
    /\ UNCHANGED <<transporte, analisis, base, publicados, traidas, perdidas, arranques>>

\* A copy of what the race remembers is counted and dropped.
SacarRepetido ==
    /\ Sacar
    /\ Head(cola) \in Range(vistas)
    /\ UNCHANGED <<vistas, dedup, manejo, entregas>>

Entregar(e) ==
    /\ vistas' = Recordar(vistas, e, CapCarrera)
    /\ entregas' = Append(entregas, e)

\* Not a creation, or one the detector remembers.
SacarOtro ==
    /\ Sacar
    /\ Head(cola) \notin Range(vistas)
    /\ Head(cola) \notin Creaciones \/ Head(cola) \in Range(dedup)
    /\ Entregar(Head(cola))
    /\ UNCHANGED <<dedup, manejo>>

SacarCreacion ==
    /\ Sacar
    /\ Head(cola) \notin Range(vistas)
    /\ Head(cola) \in Creaciones /\ Head(cola) \notin Range(dedup)
    /\ Entregar(Head(cola))
    /\ dedup' = Recordar(dedup, Head(cola), CapDetector)
    /\ manejo' = En("guarda", Head(cola))

Guardando(e) == manejo = En("guarda", e)

TrasGuardar == UNCHANGED <<transporte, cola, vistas, dedup, analisis, publicados,
                           entregas, traidas, arranques>>

\* The transaction of save_detection: the creator's counter first, then the
\* token, unless the mint is there already.
Transaccion(e) ==
    /\ creados' = [creados EXCEPT ![CreadorDe[e]] = @ + 1]
    /\ tokens' = tokens \cup {e}

\* Mutant: what was saved is not asked.
MutTrasInsertar(e) == En("publica", e)

\* Only what was really inserted goes on.
TrasInsertar(e) == IF e \in tokens THEN Libre ELSE En("publica", e)

Guardar(e) ==
    /\ Guardando(e)
    /\ Transaccion(e)
    /\ manejo' = TrasInsertar(e)
    /\ UNCHANGED perdidas /\ TrasGuardar

\* save_detection raises: it was rolled back, or committed and the answer was
\* lost.  It is counted and logged, and the consumer goes on.
FallarAlGuardar(e) ==
    /\ Guardando(e)
    /\ UNCHANGED base \/ Transaccion(e)
    /\ manejo' = Libre
    /\ perdidas' = perdidas \cup {e}
    /\ TrasGuardar

\* The creation is published and queued for analysis if there is room.
Publicar(e) ==
    /\ manejo = En("publica", e)
    /\ manejo' = Libre
    /\ publicados' = [publicados EXCEPT ![e] = @ + 1]
    /\ analisis' = IF Len(analisis) < TamAnalisis THEN Append(analisis, e) ELSE analisis
    /\ UNCHANGED <<transporte, cola, vistas, dedup, base, entregas, traidas, perdidas, arranques>>

\* AnalysisPipeline.run: one token is analysed, well or not.
Analizar ==
    /\ analisis # <<>>
    /\ analisis' = Tail(analisis)
    /\ UNCHANGED <<transporte, cola, vistas, dedup, manejo, base, publicados,
                   entregas, traidas, perdidas, arranques>>

-----------------------------------------------------------------------------

\* The creation _handle has not saved yet.
EnManejo == IF manejo.paso = "guarda" THEN {manejo.evento} ELSE {}

EnCola == Range(cola) \cap Creaciones

\* The process dies and starts again: only the database is left.
Reiniciar ==
    /\ arranques < MaxArranques
    /\ arranques' = arranques + 1
    /\ motor' = [i \in Motores |-> "fuera"]
    /\ perdidas' = perdidas \cup EnManejo \cup EnCola
    /\ cola' = <<>>
    /\ vistas' = <<>>
    /\ dedup' = <<>>
    /\ manejo' = Libre
    /\ analisis' = <<>>
    /\ entregas' = <<>>
    /\ UNCHANGED <<pos, conexiones, base, publicados, traidas>>

Next ==
    \/ \E i \in Motores : Conectar(i) \/ Confirmar(i) \/ Rechazar(i) \/ Cortar(i)
    \/ \E i \in Motores, e \in Eventos : Traer(i, e)
    \/ SacarRepetido
    \/ SacarOtro
    \/ SacarCreacion
    \/ \E e \in Creaciones : Guardar(e) \/ FallarAlGuardar(e) \/ Publicar(e)
    \/ Analizar
    \/ Reiniciar

Spec == Init /\ [][Next]_vars

-----------------------------------------------------------------------------
(* Properties                                                              *)

TypeOK ==
    /\ motor \in [Motores -> {"fuera", "espera", "viva", "muerto"}]
    /\ pos \in [Motores -> 0 .. UltimoEvento]
    /\ conexiones \in 0 .. MaxConexiones
    /\ cola \in Seq(Eventos) /\ Len(cola) <= TamCola
    /\ vistas \in Seq(Eventos) /\ Len(vistas) <= CapCarrera
    /\ dedup \in Seq(Creaciones) /\ Len(dedup) <= CapDetector
    /\ manejo = Libre \/ manejo \in [paso : {"guarda", "publica"}, evento : Creaciones]
    /\ analisis \in Seq(Creaciones) /\ Len(analisis) <= TamAnalisis
    /\ tokens \subseteq Creaciones
    /\ creados \in [Creadores -> Nat]
    /\ publicados \in [Creaciones -> Nat]
    /\ entregas \in Seq(Eventos)
    /\ traidas \subseteq Creaciones
    /\ perdidas \subseteq Creaciones
    /\ arranques \in 0 .. MaxArranques

\* No creation vanishes: once an engine has brought it, it is in the queue, in
\* the handler or in the database, or it was lost for one of the reasons the
\* code admits (a full queue, a failed write, a crash).  No copy is dropped as
\* repeated unless one went through (racing_stream.py:98-133, detector.py:142,
\* ingest.py:1374-1400).
NadaSeEsfuma == traidas \subseteq EnCola \cup EnManejo \cup tokens \cup perdidas

\* An event is delivered once, however many engines and reconnections bring
\* it, unless CapCarrera others were delivered since (racing_stream.py:82-89).
EntregaUnaVez ==
    \A j, k \in DOMAIN entregas :
        j < k /\ entregas[j] = entregas[k] => k - j > CapCarrera

\* A token is announced at most once in the life of the database, across
\* repeated events, failed writes and restarts (ingest.py:1384-1400).
PublicadaUnaVez == \A e \in Creaciones : publicados[e] <= 1

=============================================================================
