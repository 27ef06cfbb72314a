------------------------------- MODULE Fuentes --------------------------------
(***************************************************************************)
(* The data sources of the command-line analyser and who asks them         *)
(* (ps: sources.py, analyze.py, scan.py, radar.py, live.py; serve.py).     *)
(*                                                                         *)
(* The server gives each request of the browser a thread.  An analysis, a  *)
(* search, a look at the newborn tokens and a live stream each ask a       *)
(* sequence of sources, with up to RETRIES attempts each, and share three  *)
(* things that nothing guards: when GeckoTerminal was last asked, the list *)
(* of the sources that did not answer, and what is known of each creator.  *)
(*                                                                         *)
(* Time is discrete and relative: an age saturates at the gap.  What a     *)
(* source says is left out but for what it decides of the next step.       *)
(***************************************************************************)
EXTENDS Integers, Sequences, FiniteSets

CONSTANTS
    Hilos,             \* threads of the server
    Repartos,          \* what they are asked to do: thread -> work
    Creadores,         \* wallets that launch tokens
    GAP,               \* _MIN_GAP of GeckoTerminal
    RETRIES,           \* retries of get_json
    ESPERAS,           \* how an attempt fails -> back-off per attempt
    PAGINAS,           \* pages of the history of a creator
    MEDIO, LENTO,      \* iterations of a stream between DexScreener and Gecko
    FALLOS             \* failures in a row that end a stream

ASSUME FuentesAssumption ==
    /\ {GAP, RETRIES, PAGINAS, MEDIO, LENTO, FALLOS} \subseteq Nat \ {0}
    /\ IsFiniteSet(Creadores)
    /\ Repartos \subseteq [Hilos -> {"analisis", "buscar", "radar", "vivo"}]
    /\ {"limite", "otro"} \subseteq DOMAIN ESPERAS
    /\ \A c \in DOMAIN ESPERAS : ESPERAS[c] \in Nat \ {0}

VARIABLES
    trabajo,           \* thread -> what it is asked to do
    ultima,            \* _last_call: its age, negative in a back-off
    blandos,           \* _soft_errors: <<thread, source>>
    historial,         \* _cache_creador
    etapa,             \* thread -> the source it is asking
    sub,               \* thread -> "mide", "duerme", "pide", "pausa"
    resta,             \* thread -> time left to sleep
    intento,           \* thread -> attempt
    vuelta,            \* thread -> iteration of a stream, page of a history
    seguidos,          \* thread -> failures in a row of a stream
    quedan,            \* thread -> creators to look at, the first in hand
    avisos,            \* thread -> what its report says that failed
    propios,           \* ghost: thread -> sources that failed it for good
    solape,            \* ghost: thread -> another touched the list meanwhile
    edad               \* ghost: thread -> age of its last request to Gecko

hilo == <<trabajo, etapa, sub, resta, intento, vuelta, seguidos, quedan>>
compartido == <<ultima, blandos, historial>>
testigos == <<avisos, propios, solape, edad>>
varsFuentes == <<hilo, compartido, testigos>>

Gecko == {"pools", "velas", "velas de 1m", "pools otra vez", "velas otra vez", "trades",
          "busca 1", "busca 2", "busca 3"}
Blandas == Gecko \cup {"dex", "lista"}           \* a failure is written down
Fuente(e) == IF e \in Gecko THEN "gecko" ELSE e   \* the source that failed
Otras == {"coin", "sol", "narrativa", "creador", "tick"}
Acabado == {"fin", "error"}
Etapas == Blandas \cup Otras \cup Acabado \cup {"nada", "elige", "recoge", "manda"}

Avisos == {Fuente(e) : e \in Blandas}
Primer(e) == IF e \in Gecko THEN "mide" ELSE "pide"  \* only Gecko has a gap

Corre(h) == etapa[h] \notin Acabado \cup {"nada"}
Ciclo == MEDIO * LENTO

-----------------------------------------------------------------------------
(* What is asked after a source, and after it failed                       *)

\* analyze: a token without a pool asks for one; few candles are asked for
\* again in minutes, and none in the pool that a search finds.
Analisis1(e, bien) ==
    CASE e = "coin" -> IF bien THEN {"sol"} ELSE {"error"}
      [] e = "sol" -> {"pools", "velas"}
      [] e = "pools" -> IF bien THEN {"velas", "dex"} ELSE {"dex"}
      [] e = "velas" -> {"velas de 1m", "pools otra vez"} \cup (IF bien THEN {"trades"} ELSE {})
      [] e = "velas de 1m" -> {"pools otra vez", "trades"}
      [] e = "pools otra vez" -> {"trades"} \cup (IF bien THEN {"velas otra vez"} ELSE {})
      [] e = "velas otra vez" -> {"trades"}
      [] e = "trades" -> {"dex"}
      [] OTHER -> {"recoge"}

Buscar1(e) == CASE e = "busca 1" -> {"busca 2"} [] e = "busca 2" -> {"busca 3"} [] OTHER -> {"recoge"}

\* The words in fashion are kept for a while.
Radar1(e) == IF e = "lista" THEN {"narrativa", "elige"} ELSE {"elige"}

\* The lanes of a stream: the second every MEDIO, the third every LENTO, and
\* neither when the tick failed.
Vivo1(h, e, bien) ==
    LET gecko == IF vuelta[h] % LENTO = 0 THEN {"trades"} ELSE {"manda"}
    IN  CASE e = "tick" /\ bien -> IF vuelta[h] % MEDIO = 0 THEN {"dex"} ELSE gecko
          [] e = "tick" /\ ~bien -> IF seguidos[h] + 1 >= FALLOS THEN {"fin"} ELSE {"manda"}
          [] e = "dex" -> gecko
          [] OTHER -> {"manda"}

Sigue(h, bien) ==
    CASE trabajo[h] = "analisis" -> Analisis1(etapa[h], bien)
      [] trabajo[h] = "buscar" -> Buscar1(etapa[h])
      [] trabajo[h] = "radar" -> Radar1(etapa[h])
      [] trabajo[h] = "vivo" -> Vivo1(h, etapa[h], bien)

Primera(h) ==
    CASE trabajo[h] = "analisis" -> "coin" [] trabajo[h] = "buscar" -> "busca 1"
      [] trabajo[h] = "radar" -> "lista" [] trabajo[h] = "vivo" -> "tick"

-----------------------------------------------------------------------------
(* sources.py                                                              *)

\* Whatever h does to the list, the others that are running see it.
Toca(h) == solape' = [g \in Hilos |-> solape[g] \/ (g # h /\ Corre(g))]

\* Mutant: what an earlier request left in the list stays there.
MutLimpia(h) == blandos' = blandos

\* take_errors at the start; a stream takes none.
Limpia(h) == blandos' = IF trabajo[h] = "vivo" THEN blandos ELSE {}

\* do_GET: a request arrives and its thread begins.
Empieza(h) ==
    /\ etapa[h] = "nada"
    /\ etapa' = [etapa EXCEPT ![h] = Primera(h)]
    /\ sub' = [sub EXCEPT ![h] = Primer(Primera(h))]
    /\ Limpia(h)
    /\ IF trabajo[h] = "vivo" THEN UNCHANGED solape ELSE Toca(h)
    /\ UNCHANGED <<trabajo, ultima, historial, resta, intento, vuelta, seguidos, quedan,
                   avisos, propios, edad>>

\* Mutant: only a back-off is waited for.
MutHueco(h) == IF ultima < 0 THEN -ultima ELSE 0

Hueco(h) == IF ultima < GAP THEN GAP - ultima ELSE 0

\* _throttle reads when Gecko was last asked, by anybody, and sleeps; two
\* threads that read the same moment wake up together.
Medir(h) ==
    /\ sub[h] = "mide"
    /\ sub' = [sub EXCEPT ![h] = "duerme"]
    /\ resta' = [resta EXCEPT ![h] = Hueco(h)]
    /\ UNCHANGED <<trabajo, etapa, intento, vuelta, seguidos, quedan, compartido, testigos>>

Enviar1(h) ==
    /\ sub[h] = "duerme"
    /\ resta[h] = 0
    /\ sub' = [sub EXCEPT ![h] = "pide"]
    /\ ultima' = 0
    /\ edad' = [edad EXCEPT ![h] = 0]
    /\ UNCHANGED <<trabajo, etapa, resta, intento, vuelta, seguidos, quedan, blandos, historial,
                   avisos, propios, solape>>

Reintenta(h) == intento[h] < RETRIES

\* Mutant: the attempts are not counted.
MutOtroIntento(h) == intento[h]

OtroIntento(h) == intento[h] + 1

Pide(h) == sub[h] = "pide" /\ etapa[h] \in Blandas \cup Otras

\* A 429 or a 5xx pushes forward when Gecko may be asked again, which the next
\* thread that sends overwrites; any other failure does not.
Reintentar(h, como) ==
    LET espera == ESPERAS[como] * intento[h]
    IN  /\ Pide(h)
        /\ Reintenta(h)
        /\ sub' = [sub EXCEPT ![h] = "pausa"]
        /\ resta' = [resta EXCEPT ![h] = espera]
        /\ intento' = [intento EXCEPT ![h] = OtroIntento(h)]
        /\ ultima' = IF etapa[h] \in Gecko /\ como # "otro" THEN -espera ELSE ultima
        /\ UNCHANGED <<trabajo, etapa, vuelta, seguidos, quedan, blandos, historial, testigos>>

Despierta(h) ==
    /\ sub[h] = "pausa"
    /\ resta[h] = 0
    /\ sub' = [sub EXCEPT ![h] = Primer(etapa[h])]
    /\ UNCHANGED <<trabajo, etapa, resta, intento, vuelta, seguidos, quedan, compartido, testigos>>

\* The source has answered, or it has failed for good: at its last attempt, or
\* with an error that no attempt would mend.
Pasa(h, e) ==
    /\ etapa' = [etapa EXCEPT ![h] = e]
    /\ sub' = [sub EXCEPT ![h] = Primer(e)]
    /\ intento' = [intento EXCEPT ![h] = 1]
    /\ resta' = [resta EXCEPT ![h] = IF e = "manda" THEN 1 ELSE 0]

Contesta(h) ==
    /\ Pide(h) /\ etapa[h] # "creador"
    /\ \E e \in Sigue(h, TRUE) : Pasa(h, e)
    /\ seguidos' = IF etapa[h] = "tick" THEN [seguidos EXCEPT ![h] = 0] ELSE seguidos
    /\ UNCHANGED <<trabajo, vuelta, quedan, compartido, testigos>>

\* SourceError: written down, swallowed or counted, as who asked decides.
Falla1(h) ==
    /\ Pide(h) /\ etapa[h] # "creador"
    /\ \E e \in Sigue(h, FALSE) : Pasa(h, e)
    /\ seguidos' = IF etapa[h] = "tick" THEN [seguidos EXCEPT ![h] = @ + 1] ELSE seguidos
    /\ propios' = [propios EXCEPT ![h] = @ \cup {Fuente(etapa[h])}]
    /\ IF etapa[h] \in Blandas
       THEN blandos' = blandos \cup {<<h, Fuente(etapa[h])>>} /\ Toca(h)
       ELSE UNCHANGED <<blandos, solape>>
    /\ UNCHANGED <<trabajo, vuelta, quedan, ultima, historial, avisos, edad>>

-----------------------------------------------------------------------------
(* radar.py: the history of each creator                                   *)

\* busca looks at the newborn tokens one after the other; a creator that is
\* known is not asked about again, whatever is known of it.
Elige(h) ==
    /\ etapa[h] = "elige"
    /\ \/ /\ quedan[h] # << >>
          /\ IF historial[Head(quedan[h])] = "sin"
             THEN Pasa(h, "creador") /\ UNCHANGED quedan
             ELSE quedan' = [quedan EXCEPT ![h] = Tail(@)] /\ UNCHANGED <<etapa, sub, intento, resta>>
       \/ /\ quedan[h] = << >>
          /\ Pasa(h, "recoge")
          /\ UNCHANGED quedan
    /\ vuelta' = [vuelta EXCEPT ![h] = 0]
    /\ UNCHANGED <<trabajo, seguidos, compartido, testigos>>

\* What the pages read say of the creator is kept, and the next one is looked at.
Guarda(h, sabe) ==
    /\ historial' = [historial EXCEPT ![Head(quedan[h])] = sabe]
    /\ Pasa(h, "elige")
    /\ quedan' = [quedan EXCEPT ![h] = Tail(@)]
    /\ UNCHANGED vuelta

\* A page: full, and there may be another, or it is the last that is asked
\* for; short or empty, and there is no more; or it fails, which nobody writes
\* down, and what came before it is kept as if it were all.
Pagina(h) ==
    /\ Pide(h) /\ etapa[h] = "creador"
    /\ \/ /\ vuelta[h] + 1 < PAGINAS
          /\ Pasa(h, "creador")
          /\ vuelta' = [vuelta EXCEPT ![h] = @ + 1]
          /\ UNCHANGED <<quedan, historial, propios>>
       \/ /\ \/ Guarda(h, "todo")
             \/ vuelta[h] + 1 = PAGINAS /\ Guarda(h, "parte")
             \/ vuelta[h] = 0 /\ Guarda(h, "nada")
          /\ UNCHANGED propios
       \/ /\ Guarda(h, IF vuelta[h] = 0 THEN "nada" ELSE "parte")
          /\ propios' = [propios EXCEPT ![h] = @ \cup {"creador"}]
    /\ UNCHANGED <<trabajo, seguidos, ultima, blandos, avisos, solape, edad>>

-----------------------------------------------------------------------------
(* The end of a request, and the stream                                    *)

\* take_errors at the end: the list, whoever wrote in it.
Recoge(h) ==
    /\ etapa[h] = "recoge"
    /\ etapa' = [etapa EXCEPT ![h] = "fin"]
    /\ avisos' = [avisos EXCEPT ![h] = blandos]
    /\ blandos' = {}
    /\ Toca(h)
    /\ UNCHANGED <<trabajo, ultima, historial, sub, resta, intento, vuelta, seguidos, quedan,
                   propios, edad>>

\* _stream writes what it has and sleeps; the browser may have gone.
Manda(h) ==
    /\ etapa[h] = "manda"
    /\ resta[h] = 0
    /\ \/ Pasa(h, "tick") /\ vuelta' = [vuelta EXCEPT ![h] = (@ + 1) % Ciclo]
       \/ Pasa(h, "fin") /\ UNCHANGED vuelta
    /\ UNCHANGED <<trabajo, seguidos, quedan, compartido, testigos>>

Hilo(h) ==
    \/ Medir(h) \/ Enviar1(h) \/ Despierta(h) \/ Contesta(h) \/ Falla1(h)
    \/ Elige(h) \/ Pagina(h) \/ Recoge(h) \/ Manda(h)
    \/ \E como \in DOMAIN ESPERAS : Reintentar(h, como)

Pasa1(n) == IF n > 0 THEN n - 1 ELSE 0

Reloj ==
    /\ \E h \in Hilos : Corre(h)
    /\ ultima' = IF ultima < GAP THEN ultima + 1 ELSE ultima
    /\ edad' = [h \in Hilos |-> IF edad[h] < GAP THEN edad[h] + 1 ELSE edad[h]]
    /\ resta' = [h \in Hilos |-> Pasa1(resta[h])]
    /\ UNCHANGED <<trabajo, blandos, historial, etapa, sub, intento, vuelta, seguidos, quedan,
                   avisos, propios, solape>>

InitFuentes ==
    /\ trabajo \in Repartos
    /\ ultima = GAP /\ blandos = {}
    /\ historial = [c \in Creadores |-> "sin"]
    /\ etapa = [h \in Hilos |-> "nada"]
    /\ sub = [h \in Hilos |-> "pide"]
    /\ resta = [h \in Hilos |-> 0]
    /\ intento = [h \in Hilos |-> 1]
    /\ vuelta = [h \in Hilos |-> 0]
    /\ seguidos = [h \in Hilos |-> 0]
    /\ quedan \in [Hilos -> UNION {[1 .. n -> Creadores] : n \in 0 .. Cardinality(Creadores)}]
    /\ \A h \in Hilos : trabajo[h] # "radar" => quedan[h] = << >>
    /\ avisos = [h \in Hilos |-> {}]
    /\ propios = [h \in Hilos |-> {}]
    /\ solape = [h \in Hilos |-> FALSE]
    /\ edad = [h \in Hilos |-> GAP]

NextFuentes == Reloj \/ \E h \in Hilos : Empieza(h) \/ Hilo(h)

\* The threads are the system's, every request has a time limit and time goes
\* by.  That a request arrives is up to the browser.
SpecFuentes ==
    /\ InitFuentes /\ [][NextFuentes]_varsFuentes
    /\ WF_varsFuentes(Reloj)
    /\ \A h \in Hilos : WF_varsFuentes(Hilo(h))

-----------------------------------------------------------------------------
(* Properties                                                              *)

\* Every variable keeps its type (sources.py:27-42; radar.py:44).
FuentesTypeOK ==
    /\ ultima \in Int /\ ultima <= GAP
    /\ trabajo \in Repartos
    /\ blandos \subseteq Hilos \X Avisos
    /\ historial \in [Creadores -> {"sin", "nada", "parte", "todo"}]
    /\ etapa \in [Hilos -> Etapas]
    /\ sub \in [Hilos -> {"mide", "duerme", "pide", "pausa"}]
    /\ resta \in [Hilos -> Nat]
    /\ intento \in [Hilos -> 1 .. RETRIES]
    /\ vuelta \in [Hilos -> Nat]
    /\ seguidos \in [Hilos -> 0 .. FALLOS]
    /\ quedan \in [Hilos -> Seq(Creadores)]
    /\ avisos \in [Hilos -> SUBSET (Hilos \X Avisos)]
    /\ propios \in [Hilos -> SUBSET (Avisos \cup Otras)]
    /\ solape \in [Hilos -> BOOLEAN]
    /\ edad \in [Hilos -> 0 .. GAP]

\* "Espaciamos las llamadas para no comernos un 429" (sources.py:27-28) holds
\* of each thread, whatever the others write over the moment they share: its
\* requests to GeckoTerminal are a gap apart, retries included.  Of all of
\* them together it does not: as many as there are threads may leave at once.
RitmoPorHilo ==
    [][\A h \in Hilos :
          sub[h] = "duerme" /\ sub'[h] = "pide" => edad[h] >= GAP]_varsFuentes

\* A report that is out and that no other request overlapped.
Intacto(h) == etapa[h] = "fin" /\ trabajo[h] # "vivo" /\ ~solape[h]

\* The report of a request that no other overlaps names no failure of another,
\* whatever earlier requests and streams, which take no failures, left in the
\* list, and none of its own is lost among those the code writes down: the
\* hosts of Blandas (take_errors: sources.py:38-42, analyze.py:72 and 160,
\* scan.py:214-224, radar.py:315-337).  A failure that the code swallows -- the
\* price of SOL, the words in fashion, a page of a creator -- is in no report:
\* see InformeCompleto.
InformeFiel ==
    \A h \in Hilos : Intacto(h) => avisos[h] = {<<h, e>> : e \in propios[h] \cap Avisos}

\* "Se acumulan aqui para que el informe pueda avisar de que falta un dato"
\* (sources.py:32-34): whatever failed a request is in its report.  It does
\* not hold: sol_price_usd (sources.py:108-112), narrativas_calientes
\* (radar.py:187) and historial_creador (radar.py:117) write nothing down.
InformeCompleto ==
    \A h \in Hilos : Intacto(h) => \A e \in propios[h] : <<h, e>> \in avisos[h]

\* Every request ends, with a report or an error, although every source may
\* fail at every attempt and the threads make each other wait: again and again
\* there is a moment when no thread has one under way but the streams, which
\* last while the browser wants (get_json, sources.py:61-91).
ConsultaAcaba == []<>(\A h \in Hilos : trabajo[h] # "vivo" => ~Corre(h))
=============================================================================
