-------------------------------- MODULE Radar --------------------------------
(***************************************************************************)
(* What the worker remembers of the tokens it has seen born                *)
(* (apps/worker/mit_worker/ingest.py): their market cap on the curve, the  *)
(* stampedes, the empirical rates of OutcomeTracker, the corpus on disk,   *)
(* the graduations and what is followed of them on PumpSwap.  One task     *)
(* handles the creations and the trades of the curve, another the trades   *)
(* of PumpSwap; they interleave where the first awaits the eviction of a   *)
(* followed token.                                                         *)
(*                                                                         *)
(* Market caps are naturals and a growth is the cap it stands for          *)
(* (growth x BIRTH_CAP_SOL).  Time is left out: whether a trade comes      *)
(* within the throttle or after the launch window is chosen at each trade. *)
(* A memory in order of use (OrderedDict, deque) is a function from mints  *)
(* to their place counted from the newest, 0 for those it does not hold.   *)
(***************************************************************************)
EXTENDS Integers, Sequences, FiniteSets

CONSTANTS
    Mints,
    Nadie,                  \* no mint
    Lecturas,               \* what a trade may read: its cap and its progress
    NACIMIENTO,             \* BIRTH_CAP_SOL
    Niveles,                \* GROWTH_BUCKETS, as caps
    OBJETIVO,               \* TARGET_MCAP_SOL
    Bandas,                 \* CAP_BAND_EDGES_SOL
    EXPLOTA,                \* EXPLODE_TARGET_SOL
    GRANDE,                 \* BIG_CAP_SOL
    GANADOR,                \* WINNER_GROWTH, as a cap
    MIN_GRADUACION,         \* GRADUATION_MIN_CAP_SOL
    ESTAMPIDA,              \* STAMPEDE_TRADES
    TRACKED_MINTS_CAP,
    DEEP_TRACKED_MAX,
    CAP_HISTORY,
    PODA,                   \* how many forgotten peaks one cap removes
    OUTCOME_MEMORY_CAP,
    FOTO,                   \* stampedes the photo ranks
    MUESTRA_MAX,            \* multiples kept for the ceiling
    SWAP_WATCH_CAP,
    MaxAvisos,              \* bound: notifications handled in a life
    MaxSwap,                \* bound: trades seen on PumpSwap
    MaxArranques            \* bound: restarts

\* Any cap may be read: 0 when the reserves say nothing, and caps below the one
\* at birth (0.045 SOL with a full progress was measured, ingest.py:188-195,
\* and BIRTH_CAP_SOL is rounded up).
ASSUME LecturasAssumption ==
    Lecturas \subseteq [cap : Nat, progreso : {"lejos", "camino", "lleno"}]
ASSUME UmbralesAssumption ==
    /\ {NACIMIENTO, OBJETIVO, EXPLOTA, GRANDE, GANADOR, MIN_GRADUACION} \subseteq Nat \ {0}
    /\ Niveles \subseteq 1 .. OBJETIVO
    /\ Bandas \subseteq 1 .. EXPLOTA
    /\ EXPLOTA <= GRANDE
ASSUME TopesAssumption ==
    /\ {ESTAMPIDA, TRACKED_MINTS_CAP, DEEP_TRACKED_MAX, CAP_HISTORY, PODA,
        OUTCOME_MEMORY_CAP, FOTO, MUESTRA_MAX, SWAP_WATCH_CAP} \subseteq Nat \ {0}
    /\ {MaxAvisos, MaxSwap, MaxArranques} \subseteq Nat
ASSUME MintsAssumption ==
    /\ Nadie \notin Mints
    /\ Nadie \notin [mint : Mints, cap : Nat, viejo : Mints]
    /\ IsFiniteSet(Mints)

VARIABLES
    conocidos,     \* _token_meta and _series: born in this life of the process
    seguidos,      \* _tracked_mints
    frenos,        \* the mints of _cap_throttle
    nacidos,       \* _birth
    pasados,       \* births whose launch window is known to be over
    rafaga,        \* _launch_trades
    estampida,     \* _stampede: trades in the window, 0 if it is none
    profundos,     \* _deep
    base,          \* _cap_at_detection, 0 if none
    capActual,     \* _current_cap
    recientes,     \* its order
    pico,          \* _peak_cap, 0 if forgotten
    historia,      \* _cap_history
    resueltas,     \* _resolved
    muestra,       \* length of _peak_multiples
    resultados,    \* the OutcomeTracker
    sembrado,      \* the corpus it was seeded from
    ganadores,     \* _recorded_winners
    progreso,      \* _grad_progress
    graduados,     \* _graduated
    pausa,         \* the graduation that awaits the eviction of another
    orden,         \* _swap_order
    vigilados,     \* what MultiLogStream is asked to follow
    picoSwap,      \* _swap_peak
    opsSwap,       \* _swap_trades
    grandesSwap,   \* _swap_reached_big
    corpus,        \* disk: stampedes.jsonl
    premiados,     \* disk: winners.jsonl
    guardados,     \* database: tokens
    completas,     \* ghost: curves whose last trade was handled
    avisos, ventas, arranques

lanzamiento == <<conocidos, seguidos, frenos, nacidos, pasados, rafaga, estampida, profundos, base>>
caps == <<capActual, recientes, pico, historia>>
cierre == <<resueltas, muestra, corpus>>
tasas == <<resultados, sembrado, ganadores, premiados>>
graduacion == <<progreso, graduados, pausa, completas>>
swap == <<orden, vigilados, picoSwap, opsSwap, grandesSwap, ventas>>
vars == <<lanzamiento, caps, cierre, tasas, graduacion, swap, guardados, avisos, arranques>>

-----------------------------------------------------------------------------
(* Memories in order of use                                                *)

Nada == [m \in Mints |-> 0]
Presentes(memoria) == {m \in Mints : memoria[m] # 0}

\* m becomes the newest; who was newer than it grows older by one place, and
\* beyond the capacity is forgotten.
Tocar(memoria, m, cap) ==
    LET lugar(x) == IF memoria[m] = 0 \/ memoria[x] < memoria[m] THEN memoria[x] + 1 ELSE memoria[x]
    IN  [x \in Mints |-> IF x = m THEN 1
                         ELSE IF memoria[x] = 0 \/ lugar(x) > cap THEN 0 ELSE lugar(x)]

Expulsados(memoria, m, cap) == Presentes(memoria) \ Presentes(Tocar(memoria, m, cap))

Menor(a, b) == IF a < b THEN a ELSE b
Mayor(a, b) == IF a > b THEN a ELSE b

-----------------------------------------------------------------------------
(* OutcomeTracker                                                          *)

\* _load_corpus_seed: the lines of the corpus that reached a cap.
Lineas(disco, cap) == Cardinality({l \in disco : l.pico >= cap})

Sembrar(disco) ==
    [vistos |-> {}, maximo |-> Nada,
     llegaron |-> {}, explotaron |-> {}, grandes |-> {},
     alcanzan |-> [n \in Niveles |-> 0],
     aciertan |-> [n \in Niveles |-> 0],
     banda |-> [b \in Bandas |-> Lineas(disco, b)],
     explota |-> [b \in Bandas |-> Lineas(disco, EXPLOTA)],
     grande |-> [b \in Bandas |-> Lineas(disco, GRANDE)]]

\* The mint is new and the memory full, or it does not pass its peak.
NoCuenta(r, m, cap) ==
    IF m \in r.vistos THEN cap <= r.maximo[m] ELSE Cardinality(r.vistos) >= OUTCOME_MEMORY_CAP

\* Mutant: a threshold where the peak already was is crossed again.
MutCruzados(cuenta, desde, hasta) ==
    [u \in DOMAIN cuenta |-> IF desde <= u /\ u <= hasta THEN cuenta[u] + 1 ELSE cuenta[u]]

\* One more at every threshold the mint has just crossed, or is above of.
Cruzados(cuenta, desde, hasta) ==
    [u \in DOMAIN cuenta |-> IF desde < u /\ u <= hasta THEN cuenta[u] + 1 ELSE cuenta[u]]
Logro(cuenta, logrado, cap) == IF logrado THEN Cruzados(cuenta, 0, cap) ELSE cuenta

\* Only the advances of a mint's peak count.
Observar(r, m, cap) ==
    IF NoCuenta(r, m, cap) THEN r
    ELSE LET previo == r.maximo[m] IN
         [r EXCEPT
            !.vistos = @ \cup {m},
            !.maximo[m] = cap,
            !.alcanzan = Cruzados(@, previo, cap),
            !.banda = Cruzados(@, previo, cap),
            !.llegaron = IF cap >= OBJETIVO THEN @ \cup {m} ELSE @,
            !.aciertan = Logro(@, cap >= OBJETIVO /\ m \notin r.llegaron, cap),
            !.explotaron = IF cap >= EXPLOTA THEN @ \cup {m} ELSE @,
            !.explota = Logro(@, cap >= EXPLOTA /\ m \notin r.explotaron, cap),
            !.grandes = IF cap >= GRANDE THEN @ \cup {m} ELSE @,
            !.grande = Logro(@, cap >= GRANDE /\ m \notin r.grandes, cap)]

-----------------------------------------------------------------------------

Init ==
    /\ conocidos = {}
    /\ seguidos = Nada
    /\ frenos = {}
    /\ nacidos = Nada
    /\ pasados = {}
    /\ rafaga = Nada
    /\ estampida = Nada
    /\ profundos = Nada
    /\ base = Nada
    /\ capActual = Nada
    /\ recientes = Nada
    /\ pico = Nada
    /\ historia = [m \in Mints |-> <<>>]
    /\ resueltas = {}
    /\ muestra = 0
    /\ corpus = {}
    /\ resultados = Sembrar({})
    /\ sembrado = {}
    /\ ganadores = {}
    /\ premiados = {}
    /\ progreso = Nada
    /\ graduados = {}
    /\ pausa = Nadie
    /\ completas = {}
    /\ orden = Nada
    /\ vigilados = {}
    /\ picoSwap = Nada
    /\ opsSwap = Nada
    /\ grandesSwap = {}
    /\ ventas = 0
    /\ guardados = {}
    /\ avisos = 0
    /\ arranques = 0

\* The consumer takes its next notification.
Aviso ==
    /\ pausa = Nadie
    /\ avisos < MaxAvisos
    /\ avisos' = avisos + 1
    /\ UNCHANGED arranques

-----------------------------------------------------------------------------
(* _handle of a creation                                                   *)

\* The token is remembered before it is saved: one whose save fails, or that
\* the database already had, is tracked but not counted among the outcomes.
Crear(m) ==
    /\ Aviso
    /\ m \notin conocidos
    /\ conocidos' = conocidos \cup {m}
    /\ seguidos' = Tocar(seguidos, m, TRACKED_MINTS_CAP)
    /\ frenos' = frenos \ Expulsados(seguidos, m, TRACKED_MINTS_CAP)
    /\ nacidos' = Tocar(nacidos, m, TRACKED_MINTS_CAP)
    /\ LET viejos == Expulsados(nacidos, m, TRACKED_MINTS_CAP) IN
       /\ pasados' = pasados \ viejos
       /\ rafaga' = [x \in Mints |-> IF x \in viejos THEN 0 ELSE rafaga[x]]
    /\ \/ /\ m \notin guardados
          /\ guardados' = guardados \cup {m}
          /\ resultados' = Observar(resultados, m, NACIMIENTO)
       \/ /\ guardados' \in {guardados, guardados \cup {m}}
          /\ UNCHANGED resultados
    /\ UNCHANGED <<estampida, profundos, base, caps, cierre, sembrado, ganadores, premiados,
                   graduacion, swap>>

-----------------------------------------------------------------------------
(* _publish_cap_updates: one trade of a tracked mint                       *)

\* Time passes: once the launch window of a birth is over, it stays over.
Envejecer(m) == pasados' \in {pasados, pasados \cup ({m} \cap Presentes(nacidos))}

\* Mutant: a stampede starts from the cap of the trade that reveals it.
MutCapDePartida(m, cap) == cap

\* The last cap known before this trade, or the one at birth.
CapDePartida(m, cap) == IF recientes[m] = 0 THEN NACIMIENTO ELSE capActual[m]

\* _count_launch_trade: only in the window of a birth that was seen, and once
\* as a stampede.
Contar(m, cap) ==
    LET n == rafaga[m] + 1 IN
    IF nacidos[m] = 0 \/ m \in pasados'
    THEN UNCHANGED <<rafaga, estampida, profundos, base>>
    ELSE /\ rafaga' = [rafaga EXCEPT ![m] = n]
         /\ IF n = ESTAMPIDA
            THEN /\ estampida' = [estampida EXCEPT ![m] = n]
                 /\ profundos' = Tocar(profundos, m, DEEP_TRACKED_MAX)
                 /\ base' = [base EXCEPT ![m] = CapDePartida(m, cap)]
            ELSE /\ estampida' = [estampida EXCEPT ![m] = IF @ = 0 THEN 0 ELSE n]
                 /\ UNCHANGED <<profundos, base>>

\* Mutant: what a stampede left behind is forgotten like the rest.
MutOlvidables(picos, m, protegidos) == {x \in Presentes(picos) \ {m} : recientes[x] = 0}

\* Peaks that may be forgotten: their mints have no current cap and are not
\* protected as stampedes.
Olvidables(picos, m, protegidos) ==
    {x \in Presentes(picos) \ {m} : recientes[x] = 0 /\ x \notin protegidos}

\* _record_cap, with the pruning of the peaks.
AnotarCap(m, cap, protegidos) ==
    IF cap = 0 THEN UNCHANGED <<pico, historia>>
    ELSE LET conPico == [pico EXCEPT ![m] = Mayor(@, cap)]
             completa == Append(historia[m], cap)
             conHistoria == [historia EXCEPT ![m] =
                 IF Len(completa) > CAP_HISTORY THEN Tail(completa) ELSE completa]
             sobran == IF Cardinality(Presentes(conPico)) > 2 * TRACKED_MINTS_CAP
                       THEN Olvidables(conPico, m, protegidos) ELSE {}
         IN \E fuera \in SUBSET sobran :
              /\ Cardinality(fuera) = Menor(PODA, Cardinality(sobran))
              /\ pico' = [x \in Mints |-> IF x \in fuera THEN 0 ELSE conPico[x]]
              /\ historia' = [x \in Mints |-> IF x \in fuera THEN <<>> ELSE conHistoria[x]]

\* _record_winner: the first time the growth is enough; the write may fail.
Premiar(m, cap) ==
    IF cap < GANADOR \/ m \in ganadores
    THEN UNCHANGED <<ganadores, premiados>>
    ELSE /\ ganadores' = ganadores \cup {m}
         /\ premiados' \in {premiados,
                premiados \cup {[mint |-> m, arranque |-> arranques, pico |-> cap]}}

\* What the handler does with the cap once the graduation is dealt with.
Anotar(m, cap, protegidos) ==
    /\ resultados' = Observar(resultados, m, cap)
    /\ Premiar(m, cap)
    /\ capActual' = [x \in Mints |->
           IF x = m THEN cap
           ELSE IF x \in Expulsados(recientes, m, TRACKED_MINTS_CAP) THEN 0 ELSE capActual[x]]
    /\ recientes' = Tocar(recientes, m, TRACKED_MINTS_CAP)
    /\ AnotarCap(m, cap, protegidos)
    /\ UNCHANGED sembrado

SinAnotar == UNCHANGED <<caps, tasas>>

Protegidos == Presentes(estampida) \cup Presentes(profundos)

\* Mutant: progress alone makes a graduation.
MutEsGraduacion(l) == l.progreso = "lleno"

\* A full progress with an impossible cap is a bad reading.
EsGraduacion(l) == l.progreso = "lleno" /\ l.cap >= MIN_GRADUACION

\* The curve trades no more after the trade that completes it.
Operacion(m, l) ==
    /\ Aviso
    /\ seguidos[m] # 0
    /\ m \notin completas
    /\ completas' = IF EsGraduacion(l) THEN completas \cup {m} ELSE completas
    /\ Envejecer(m)
    /\ Contar(m, l.cap)
    /\ UNCHANGED <<conocidos, nacidos, guardados, cierre, picoSwap, opsSwap, grandesSwap, ventas>>

\* Within the throttle of the previous one: it only counts for the stampede.
OperacionFrenada(m, l) ==
    /\ Operacion(m, l)
    /\ m \in frenos
    /\ UNCHANGED <<seguidos, frenos, progreso, graduados, pausa, orden, vigilados>>
    /\ SinAnotar

OperacionMedida(m, l) ==
    /\ Operacion(m, l)
    /\ frenos' = frenos \cup {m}
    /\ seguidos' = Tocar(seguidos, m, TRACKED_MINTS_CAP)
    /\ progreso' = [progreso EXCEPT ![m] =
           CASE l.progreso = "lejos"  -> @
             [] l.progreso = "camino" -> 1
             [] l.progreso = "lleno"  -> 2]

OperacionComun(m, l) ==
    /\ OperacionMedida(m, l)
    /\ ~ EsGraduacion(l) \/ m \in graduados
    /\ Anotar(m, l.cap, Protegidos')
    /\ UNCHANGED <<graduados, pausa, orden, vigilados>>

\* The token graduates: _watch_on_swap puts it last in the queue, and
OperacionGradua(m, l) ==
    /\ OperacionMedida(m, l)
    /\ EsGraduacion(l) /\ m \notin graduados
    /\ graduados' = graduados \cup {m}
    /\ orden' = Tocar(orden, m, SWAP_WATCH_CAP)

\* either there is room,
OperacionGraduaConSitio(m, l) ==
    /\ OperacionGradua(m, l)
    /\ Expulsados(orden, m, SWAP_WATCH_CAP) = {}
    /\ vigilados' = vigilados \cup {m}
    /\ Anotar(m, l.cap, Protegidos')
    /\ UNCHANGED pausa

\* or the oldest is dropped, which is awaited.
OperacionGraduaEsperando(m, l) ==
    /\ OperacionGradua(m, l)
    /\ \E viejo \in Expulsados(orden, m, SWAP_WATCH_CAP) :
         /\ vigilados' = vigilados \ {viejo}
         /\ pausa' = [mint |-> m, cap |-> l.cap, viejo |-> viejo]
    /\ SinAnotar

\* Mutant: the room that was made is not used.
MutVigilar(m) == UNCHANGED vigilados

Vigilar(m) == vigilados' = vigilados \cup {m}

Reanudar ==
    /\ pausa # Nadie
    /\ pausa' = Nadie
    /\ opsSwap' = [opsSwap EXCEPT ![pausa.viejo] = 0]
    /\ Vigilar(pausa.mint)
    /\ Anotar(pausa.mint, pausa.cap, Protegidos)
    /\ UNCHANGED <<lanzamiento, cierre, progreso, graduados, completas, orden, picoSwap,
                   grandesSwap, ventas, guardados, avisos, arranques>>

-----------------------------------------------------------------------------
(* _maybe_publish_top: every trade handled ends in it, unless the last     *)
(* photo is recent.  Of what it does, only the closing of the stampedes    *)
(* that are over changes anything.                                         *)

\* The value in place k of the sorted sequence.
EnLugar(h, k) ==
    CHOOSE v \in {h[i] : i \in DOMAIN h} :
        /\ Cardinality({i \in DOMAIN h : h[i] < v}) < k
        /\ Cardinality({i \in DOMAIN h : h[i] <= v}) >= k

\* Twice the median of the last caps.
DobleMediana(h) == EnLugar(h, (Len(h) + 1) \div 2) + EnLugar(h, Len(h) \div 2 + 1)

\* _health: from the peak to the median of the last caps, half or more lost.
Cayendo(m) == pico[m] # 0 /\ historia[m] # <<>> /\ DobleMediana(historia[m]) <= pico[m]

\* Those with the largest bursts, in any order among equals.
Fotos ==
    {f \in SUBSET Presentes(estampida) :
        /\ Cardinality(f) = Menor(FOTO, Cardinality(Presentes(estampida)))
        /\ \A x \in f, y \in Presentes(estampida) \ f : estampida[x] >= estampida[y]}

\* _last_known_cap
SeConoceCap(m) == recientes[m] # 0 \/ historia[m] # <<>>

\* _resolve_outcome
PorCerrar(f) ==
    {m \in f : SeConoceCap(m) /\ Cayendo(m) /\ m \notin resueltas /\ base[m] # 0}

Linea(m) == [mint |-> m, arranque |-> arranques, base |-> base[m], pico |-> pico[m]]

\* The closed are remembered before they are written, and a write may fail.
Fotografiar ==
    /\ pausa = Nadie
    /\ Presentes(seguidos) # {}
    /\ \E f \in Fotos :
         /\ PorCerrar(f) # {}
         /\ resueltas' = resueltas \cup PorCerrar(f)
         /\ muestra' = Menor(MUESTRA_MAX, muestra + Cardinality(PorCerrar(f)))
         /\ \E escritas \in SUBSET PorCerrar(f) :
              corpus' = corpus \cup {Linea(m) : m \in escritas}
    /\ UNCHANGED <<lanzamiento, caps, tasas, graduacion, swap, guardados, avisos, arranques>>

-----------------------------------------------------------------------------
(* _consume_swap                                                           *)

\* A trade of a graduated token.  One that is no longer followed may still be
\* notified: by the notification in hand, or because its subscription was
\* confirmed after it was dropped (MultiLogStream).
OperarSwap(m, cap) ==
    /\ m \in graduados /\ (pausa # Nadie => pausa.mint # m)
    /\ ventas < MaxSwap
    /\ ventas' = ventas + 1
    /\ picoSwap' = [picoSwap EXCEPT ![m] = Mayor(@, cap)]
    /\ opsSwap' = [opsSwap EXCEPT ![m] = @ + 1]
    /\ grandesSwap' = IF cap >= GRANDE THEN grandesSwap \cup {m} ELSE grandesSwap
    /\ UNCHANGED <<lanzamiento, caps, cierre, tasas, graduacion, orden, vigilados, guardados,
                   avisos, arranques>>

-----------------------------------------------------------------------------

\* The process dies and starts again with what is on disk: the rates start
\* from the stampedes of the corpus.
Reiniciar ==
    /\ arranques < MaxArranques
    /\ arranques' = arranques + 1
    /\ conocidos' = {} /\ frenos' = {} /\ pasados' = {} /\ resueltas' = {}
    /\ ganadores' = {} /\ graduados' = {} /\ vigilados' = {} /\ grandesSwap' = {}
    /\ seguidos' = Nada /\ nacidos' = Nada /\ rafaga' = Nada /\ estampida' = Nada
    /\ profundos' = Nada /\ base' = Nada /\ capActual' = Nada /\ recientes' = Nada
    /\ pico' = Nada /\ progreso' = Nada /\ orden' = Nada /\ picoSwap' = Nada /\ opsSwap' = Nada
    /\ historia' = [m \in Mints |-> <<>>]
    /\ pausa' = Nadie
    /\ sembrado' = corpus
    /\ resultados' = Sembrar(corpus)
    /\ muestra' = Menor(MUESTRA_MAX, Cardinality(corpus))
    /\ UNCHANGED <<corpus, premiados, guardados, completas, avisos, ventas>>

Next ==
    \/ \E m \in Mints : Crear(m)
    \/ \E m \in Mints, l \in Lecturas :
         \/ OperacionFrenada(m, l)
         \/ OperacionComun(m, l)
         \/ OperacionGraduaConSitio(m, l)
         \/ OperacionGraduaEsperando(m, l)
    \/ Reanudar
    \/ Fotografiar
    \/ \E m \in Mints, l \in Lecturas : OperarSwap(m, l.cap)
    \/ Reiniciar

Spec == Init /\ [][Next]_vars

-----------------------------------------------------------------------------
(* Properties                                                              *)

Lugares(cap) == [Mints -> 0 .. cap]

Conteos == [vistos : SUBSET Mints, maximo : [Mints -> Nat],
            llegaron : SUBSET Mints, explotaron : SUBSET Mints, grandes : SUBSET Mints,
            alcanzan : [Niveles -> Nat], aciertan : [Niveles -> Nat],
            banda : [Bandas -> Nat], explota : [Bandas -> Nat], grande : [Bandas -> Nat]]

TipoConjuntos ==
    {conocidos, frenos, pasados, resueltas, ganadores, graduados, vigilados,
     grandesSwap, guardados, completas} \subseteq SUBSET Mints

TipoMemorias ==
    /\ seguidos \in Lugares(TRACKED_MINTS_CAP)
    /\ nacidos \in Lugares(TRACKED_MINTS_CAP)
    /\ recientes \in Lugares(TRACKED_MINTS_CAP)
    /\ profundos \in Lugares(DEEP_TRACKED_MAX)
    /\ orden \in Lugares(SWAP_WATCH_CAP)

TipoCaps ==
    /\ {rafaga, estampida, base, capActual, pico, picoSwap, opsSwap} \subseteq [Mints -> Nat]
    /\ historia \in [Mints -> Seq(Nat)]
    /\ \A m \in Mints : Len(historia[m]) <= CAP_HISTORY

TipoDisco ==
    /\ muestra \in 0 .. MUESTRA_MAX
    /\ resultados \in Conteos
    /\ {corpus, sembrado} \subseteq SUBSET [mint : Mints, arranque : Nat, base : Nat, pico : Nat]
    /\ IsFiniteSet(corpus) /\ IsFiniteSet(sembrado)
    /\ premiados \subseteq [mint : Mints, arranque : Nat, pico : Nat]

TipoResto ==
    /\ progreso \in [Mints -> 0 .. 2]
    /\ pausa = Nadie \/ pausa \in [mint : Mints, cap : Nat, viejo : Mints]
    /\ {avisos, ventas, arranques} \subseteq Nat

TypeOK == TipoConjuntos /\ TipoMemorias /\ TipoCaps /\ TipoDisco /\ TipoResto

Alcanzaron(cap) == Cardinality({m \in Mints : resultados.maximo[m] >= cap})

\* "es un conteo honesto de lo que ha pasado" (ingest.py:479): each counter of
\* OutcomeTracker, kept up to date one crossing at a time, is the recount of
\* the peaks it stands for, on top of the corpus it was seeded from; so no
\* rate it publishes passes 1.
ConteoHonesto ==
    /\ \A n \in Niveles :
         /\ resultados.alcanzan[n] = Alcanzaron(n)
         /\ resultados.aciertan[n] = Alcanzaron(OBJETIVO)
    /\ \A b \in Bandas :
         /\ resultados.banda[b] = Lineas(sembrado, b) + Alcanzaron(b)
         /\ resultados.explota[b] = Lineas(sembrado, EXPLOTA) + Alcanzaron(EXPLOTA)
         /\ resultados.grande[b] = Lineas(sembrado, GRANDE) + Alcanzaron(GRANDE)

\* The two memories of a token's peak agree as long as the one of the radar
\* keeps it, and it keeps the one of a stampede whatever is evicted around it:
\* it is the only source of its cap (ingest.py:918-920).  They differ only
\* where every cap read is below the one at birth, which the tracker notes at
\* the creation and the radar does not.
PicosConcuerdan ==
    \A m \in resultados.vistos :
        pico[m] # 0 \/ (estampida[m] # 0 /\ resultados.maximo[m] > NACIMIENTO)
            => \/ pico[m] = resultados.maximo[m]
               \/ pico[m] < NACIMIENTO /\ resultados.maximo[m] = NACIMIENTO

\* Where the cap a stampede was detected at was read, its peak, whatever is
\* evicted and pruned meanwhile, is not below it, and the multiple it adds to
\* the empirical ceiling is at least 1 (ingest.py:957, 1046).  A multiple below
\* 1 comes only from a base nobody read: with no cap known when the burst ends
\* the base is the one at birth, and every reading since may be below it.
TechoSobreBase ==
    \A m \in Mints : base[m] # 0 /\ pico[m] # 0 => pico[m] >= base[m] \/ base[m] = NACIMIENTO

\* A token counts as graduated only if it was once worth what a graduated
\* token is worth: no saturated reading marks it for ever (ingest.py:188-195).
GraduadoReal ==
    \A m \in graduados \cap resultados.vistos :
        pausa = Nadie \/ pausa.mint # m => resultados.maximo[m] >= MIN_GRADUACION

\* What is followed on PumpSwap is the last SWAP_WATCH_CAP tokens that
\* graduated, but for the one that awaits its place (ingest.py:1446-1461).
SeguidosSonLosUltimos ==
    vigilados = Presentes(orden) \ (IF pausa = Nadie THEN {} ELSE {pausa.mint})

=============================================================================
