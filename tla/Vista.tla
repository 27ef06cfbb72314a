-------------------------------- MODULE Vista --------------------------------
(***************************************************************************)
(* The live view of a token (apps/api: candles.py, livesignals.py,         *)
(* potential.py, token_live, token_simulate and _recommendation of         *)
(* main.py).                                                               *)
(*                                                                         *)
(* While somebody looks at a token, a task follows it: it reads the logs   *)
(* that mention it and keeps the last operations in memory.  A request     *)
(* renews the interest, waits a while if nothing has arrived, computes the *)
(* candles, asks the chain twice and only then reads the operations again  *)
(* for the rest of the answer.  Each await is a step of its own.           *)
(*                                                                         *)
(* Amounts, times and reserves are small integers; ratios are per cent.    *)
(***************************************************************************)
EXTENDS Curva, SequencesExt

CONSTANTS
    Mints,             \* tokens that are looked at
    Entregas,          \* notifications that the node may send
    CuentasCurva,      \* what the account of the curve may hold
    OCIO,              \* IDLE_TIMEOUT_SECONDS
    ESPERA_PRIMERA,    \* _ESPERA_PRIMERA_VEZ_S
    ESPERA_SIMULA,     \* 20 sleeps of 0.25 s
    MAX_VISTOS,        \* _MAX_VISTOS
    VENTANA, FIRMAS    \* operations and signatures kept: 600 and 2000

Reservas == [vs : Nat, vt : Nat, rt : Nat, sup : Nat]
SIN_CURVA == [vs |-> 0, vt |-> 0, rt |-> 0, sup |-> 0]        \* None
ANONIMO == ""                              \* PumpSwap does not say who
SIN_FIRMA == ""                            \* a notification without a signature

\* An operation that the logs of a transaction tell: who, when, which side,
\* how many SOL, and the reserves that it left.
Operaciones ==
    [t : Nat, compra : BOOLEAN, sol : Nat, quien : STRING, vs : Nat, vt : Nat]

\* A notification: whether the transaction failed, whether it can be decoded,
\* its operations of this token on the curve and on PumpSwap, and whether it
\* migrates the token.
Notificaciones ==
    [mint : Mints, firma : STRING, err : BOOLEAN, rota : BOOLEAN, migra : BOOLEAN,
     curva : Seq(Operaciones), swap : Seq(Operaciones)]

ASSUME VistaAssumption ==
    /\ {OCIO, ESPERA_PRIMERA, ESPERA_SIMULA, MAX_VISTOS, VENTANA, FIRMAS} \subseteq Nat \ {0}
    /\ Entregas \subseteq Notificaciones
    /\ \A e \in Entregas : \A o \in ToSet(e.swap) : o.quien = ANONIMO
    /\ CuentasCurva \subseteq [completa : BOOLEAN, curva : Reservas]

VARIABLES
    estado,            \* _states: what is known of each token
    tarea,             \* _tasks: "no", "vigila", "cierra", "acabada"
    consumidor,        \* the task that reads: "lee", "roto"
    vistos,            \* _VISTOS: when each token was first asked for
    mirada,            \* pages that show a token
    peticion,          \* token -> how far the request for it is
    plazo,             \* token -> time left to wait
    previo             \* token -> candles and curve the request has before it asks

varsVista == <<estado, tarea, consumidor, vistos, mirada, peticion, plazo, previo>>

Nuevo == [hay |-> FALSE, eventos |-> << >>, seen |-> {}, curva |-> SIN_CURVA, acceso |-> 0,
          conectado |-> FALSE, graduado |-> FALSE, error |-> FALSE]

-----------------------------------------------------------------------------
(* livesignals.py and potential.py: what the operations say                *)

PorTiempo(ops) == SortSeq(ops, LAMBDA a, b : a.t < b.t)
Compras(ops) == SelectSeq(ops, LAMBDA o : o.compra)
Lapso(orden) == Mayor(1, Last(orden).t - orden[1].t)
Mitad(orden) == orden[(Len(orden) \div 2) + 1].t

\* The SOL of some of the operations.
Soles(ops, lugares) == SumFunction([i \in lugares |-> ops[i].sol])

\* Mutant: the operations of PumpSwap count, all as one wallet.
MutIdentificados(ops) == DOMAIN ops

\* The operations that say who made them.
identificados(ops) == {i \in DOMAIN ops : ops[i].quien # ANONIMO}

DeCartera(ops, w) == {i \in identificados(ops) : ops[i].quien = w}

\* The k-th of their amounts in order.
ImporteEn(ops, lugares, k) ==
    Min({ops[i].sol : i \in {i \in lugares :
            Cardinality({j \in lugares : ops[j].sol <= ops[i].sol}) >= k}})

DobleMediana(ops, lugares) ==
    LET n == Cardinality(lugares)
    IN  ImporteEn(ops, lugares, (n + 1) \div 2) + ImporteEn(ops, lugares, (n \div 2) + 1)

\* The wallet with most volume, if it has 35 % of it or somebody, not
\* necessarily that wallet, made an operation of five times the median.
detect_whale(ops) ==
    LET suyos == identificados(ops)
        carteras == {ops[i].quien : i \in suyos}
        con == {i \in suyos : ops[i].sol > 0}
        quien == CHOOSE w \in carteras : \A v \in carteras :
                     Soles(ops, DeCartera(ops, v)) <= Soles(ops, DeCartera(ops, w))
        de == DeCartera(ops, quien)
        ballena == \/ Soles(ops, de) * 100 >= 35 * Soles(ops, suyos)
                   \/ \E i \in suyos : 2 * ops[i].sol >= 5 * DobleMediana(ops, con)
    IN  IF Cardinality(suyos) < 4 \/ con = {} \/ Cardinality(carteras) < 2 \/ ~ballena
        THEN [hay |-> FALSE, quien |-> ANONIMO, acumula |-> FALSE]
        ELSE [hay |-> TRUE, quien |-> quien,
              acumula |-> 2 * Cardinality({i \in de : ops[i].compra}) > Cardinality(de)]

\* The operations since the bottom are counted from its place among those
\* that have a price, in the list of all.
detect_pre_bounce(ops) ==
    LET orden == PorTiempo(ops)
        con == SelectSeq(orden, LAMBDA o : o.vt > 0)
        precio == [i \in DOMAIN con |-> (con[i].vs * 1000) \div con[i].vt]
        n == Len(con)
        alto == CHOOSE p \in ToSet(precio) : \A q \in ToSet(precio) : q <= p
        fondo == CHOOSE i \in 1 .. n : \A j \in 1 .. n :
                     precio[i] < precio[j] \/ (precio[i] = precio[j] /\ i <= j)
        desde == SubSeq(orden, fondo, Len(orden))
    IN  /\ Len(ops) >= 6 /\ n >= 6
        /\ alto > 0 /\ (alto - precio[fondo]) * 100 >= 15 * alto
        /\ precio[fondo] > 0 /\ (precio[n] - precio[fondo]) * 100 >= 5 * precio[fondo]
        /\ Len(Compras(desde)) * 100 >= 55 * Len(desde)
        /\ fondo < n - 1

\* The five parts of the score, each in per cent.
Senales1(ops, c) ==
    LET orden == PorTiempo(ops)
        n == Len(ops)
        recientes == Len(SelectSeq(orden, LAMBDA o : o.t >= Mitad(orden) /\ o.compra))
        primeras == Len(SelectSeq(orden, LAMBDA o : o.t < Mitad(orden) /\ o.compra))
    IN  [velocidad |-> Menor(100, (n * 100) \div Lapso(orden)),
         presion |-> (Len(Compras(ops)) * 100) \div n,
         diversidad |-> Menor(100, (Cardinality({o.quien : o \in ToSet(ops)}) * 100) \div 30),
         graduacion |-> IF c = SIN_CURVA THEN 0 ELSE progress_pct(c),
         sostenibilidad |-> IF primeras > 0 THEN Menor(100, (recientes * 100) \div primeras)
                            ELSE IF recientes > 0 THEN 100 ELSE 0]

estimate_traction(ops, c) ==
    IF Len(ops) < 3 THEN 0
    ELSE LET s == Senales1(ops, c)
         IN  (25 * s.velocidad + 25 * s.presion + 20 * s.diversidad + 15 * s.graduacion
              + 15 * s.sostenibilidad) \div 100

\* COMPRA only with push and a way to go; late or fading, it is not.
_recommendation(ops, c) ==
    LET nota == estimate_traction(ops, c)
        s == Senales1(ops, c)
        pct == IF c = SIN_CURVA THEN 0 ELSE progress_pct(c)
    IN  CASE Len(ops) < 3 -> "OBSERVA"
          [] Len(ops) >= 3 /\ pct >= 95 -> "EVITA"
          [] Len(ops) >= 3 /\ pct < 80 /\ nota >= 60 /\ s.presion >= 55 /\ s.sostenibilidad >= 80 -> "COMPRA"
          [] Len(ops) >= 3 /\ pct < 95 /\ (nota < 35 \/ s.sostenibilidad < 40 \/ s.presion < 40) -> "VENDE"
          [] OTHER -> "MANTEN"

\* One candle per second; an operation without reserves has no price.
build_candles(ops) ==
    LET con == {i \in DOMAIN ops : ops[i].vt > 0}
        En1(t) == {i \in con : ops[i].t = t}
        Precios1(t) == {(ops[i].vs * 1000) \div ops[i].vt : i \in En1(t)}
    IN  {[time |-> t, trades |-> Cardinality(En1(t)), volume |-> Soles(ops, En1(t)),
          high |-> Max(Precios1(t)), low |-> Min(Precios1(t))] : t \in {ops[i].t : i \in con}}

-----------------------------------------------------------------------------
(* candles.py                                                              *)

Ocioso1(m) == estado[m].acceso > OCIO

\* Mutant: a task that has ended is taken for one that follows.
MutLibre(m) == tarea[m] = "no"

Libre(m) == tarea[m] \in {"no", "acabada"}

\* watch: renews the interest, and follows the token if nobody does; one that
\* is closing down is still there.
watch(m) ==
    /\ estado' = [estado EXCEPT ![m].hay = TRUE, ![m].acceso = 0]
    /\ tarea' = IF Libre(m) THEN [tarea EXCEPT ![m] = "vigila"] ELSE tarea
    /\ consumidor' = IF Libre(m) THEN [consumidor EXCEPT ![m] = "lee"] ELSE consumidor

Cola1(s, n) == IF Len(s) > n THEN SubSeq(s, Len(s) - n + 1, Len(s)) ELSE s

\* The curve that the last operation leaves; what is really left to sell is
\* not in it, so half of the virtual reserve is taken.
CurvaVista(o) == [vs |-> Mayor(1, o.vs), vt |-> Mayor(1, o.vt), rt |-> o.vt \div 2, sup |-> 1000]

\* _ingest: once per signature, if there is one; the operations of this token
\* on the curve or, when there is none, those of PumpSwap, which are not yet a
\* graduation.  One that cannot be decoded is an error that the next one clears.
_ingest(s, e) ==
    LET firmado == [s EXCEPT !.conectado = TRUE, !.seen = @ \cup ({e.firma} \ {SIN_FIRMA})]
        frescas == IF e.curva # << >> THEN e.curva ELSE e.swap
        todas == Cola1(s.eventos \o frescas, VENTANA)
        con == [firmado EXCEPT !.eventos = todas, !.error = FALSE, !.curva = CurvaVista(Last(todas)),
                               !.graduado = @ \/ (e.curva = << >> /\ e.migra)]
    IN  CASE e.err \/ e.firma \in s.seen -> {[s EXCEPT !.conectado = TRUE]}
          [] ~e.err /\ e.firma \notin s.seen /\ e.rota -> {[firmado EXCEPT !.error = TRUE]}
          [] OTHER -> IF frescas = << >> THEN {firmado}
                      ELSE IF Cardinality(con.seen) <= FIRMAS THEN {con}
                      ELSE {[con EXCEPT !.seen = q] : q \in kSubset(FIRMAS, con.seen)}

Notificar(m, e) ==
    /\ tarea[m] = "vigila" /\ consumidor[m] = "lee"
    /\ e.mint = m
    /\ \E s \in _ingest(estado[m], e) : estado' = [estado EXCEPT ![m] = s]
    /\ UNCHANGED <<tarea, consumidor, vistos, mirada, peticion, plazo, previo>>

\* The provider rejects the subscription, which the stream does not retry.
Rehusar(m) ==
    /\ tarea[m] = "vigila" /\ consumidor[m] = "lee"
    /\ consumidor' = [consumidor EXCEPT ![m] = "roto"]
    /\ UNCHANGED <<estado, tarea, vistos, mirada, peticion, plazo, previo>>

\* _watch_loop leaves its loop: nobody looks, and it cancels the reader and
\* waits for it; or the reader died, and waiting for it raises at once.
Soltar(m) ==
    /\ tarea[m] = "vigila"
    /\ Ocioso1(m) \/ consumidor[m] = "roto"
    /\ tarea' = [tarea EXCEPT ![m] = IF consumidor[m] = "roto" THEN "acabada" ELSE "cierra"]
    /\ estado' = [estado EXCEPT ![m].conectado = FALSE, ![m].error = @ \/ consumidor[m] = "roto"]
    /\ UNCHANGED <<consumidor, vistos, mirada, peticion, plazo, previo>>

Terminar(m) ==
    /\ tarea[m] = "cierra"
    /\ tarea' = [tarea EXCEPT ![m] = "acabada"]
    /\ UNCHANGED <<estado, consumidor, vistos, mirada, peticion, plazo, previo>>

-----------------------------------------------------------------------------
(* main.py                                                                 *)

\* _VISTOS with this token: the oldest goes when there are too many.
ConMint(m) ==
    IF \E i \in DOMAIN vistos : vistos[i].mint = m THEN vistos
    ELSE Cola1(Append(vistos, [mint |-> m, edad |-> 0]), MAX_VISTOS)

EdadDe(m) ==
    LET suyas == {i \in DOMAIN vistos : vistos[i].mint = m}
    IN  IF suyas = {} THEN 0 ELSE vistos[CHOOSE i \in suyas : TRUE].edad

Vacio1(m) == estado[m].eventos = << >> /\ ~estado[m].error

Nada1 == [trades |-> 0, curva |-> SIN_CURVA]

\* Of the candles, how many operations they count is kept.
Velas(m) ==
    previo' = [previo EXCEPT ![m] =
                   [trades |-> SumFunction([v \in build_candles(estado[m].eventos) |-> v.trades]),
                    curva |-> estado[m].curva]]

\* token_live: the wait is for a token that was asked for not long ago.
Pedir(m) ==
    /\ m \in mirada /\ peticion[m] = "nada"
    /\ watch(m)
    /\ vistos' = ConMint(m)
    /\ IF Vacio1(m) /\ EdadDe(m) < ESPERA_PRIMERA
       THEN /\ peticion' = [peticion EXCEPT ![m] = "espera"]
            /\ plazo' = [plazo EXCEPT ![m] = ESPERA_PRIMERA - EdadDe(m)]
            /\ UNCHANGED previo
       ELSE /\ peticion' = [peticion EXCEPT ![m] = "grado"]
            /\ Velas(m)
            /\ UNCHANGED plazo
    /\ UNCHANGED mirada

\* Something has arrived, or the wait is over.
Servir(m) ==
    /\ peticion[m] = "espera"
    /\ ~Vacio1(m) \/ plazo[m] = 0
    /\ peticion' = [peticion EXCEPT ![m] = "grado"]
    /\ Velas(m)
    /\ UNCHANGED <<estado, tarea, consumidor, vistos, mirada, plazo>>

\* token_graduated is waited for; what it says goes as it is in the answer,
\* and that nobody knows goes as a no.
Grado(m) ==
    /\ peticion[m] = "grado"
    /\ peticion' = [peticion EXCEPT ![m] = "cuenta"]
    /\ UNCHANGED <<estado, tarea, consumidor, vistos, mirada, plazo, previo>>

\* The account of the curve if it can be read and is not complete, and
\* otherwise what the last operation before the awaits left.
Elegida(m, c) ==
    IF c.completa \/ c.curva = SIN_CURVA THEN previo[m].curva
    ELSE [vs |-> Mayor(1, c.curva.vs), vt |-> Mayor(1, c.curva.vt), rt |-> c.curva.rt,
          sup |-> Mayor(1, c.curva.sup)]

\* The answer, once the account is c: the candles, and a curve that may have
\* been left behind, of before the awaits; the rest of the operations of now.
Respuesta(m, c) ==
    LET ops == estado[m].eventos
        curva == Elegida(m, c)
    IN  [trades |-> Len(ops), candles |-> previo[m].trades, curva |-> curva,
         recommendation |-> _recommendation(ops, curva),
         whale |-> detect_whale(ops), pre_bounce |-> detect_pre_bounce(ops),
         unique_traders |-> {o.quien : o \in ToSet(ops)}]

Leidas == CuentasCurva \cup {[completa |-> FALSE, curva |-> SIN_CURVA]}

\* curva_actual is waited for, and Respuesta leaves.
Cuenta(m) ==
    /\ peticion[m] = "cuenta"
    /\ peticion' = [peticion EXCEPT ![m] = "nada"]
    /\ previo' = [previo EXCEPT ![m] = Nada1]
    /\ UNCHANGED <<estado, tarea, consumidor, vistos, mirada, plazo>>

\* token_simulate: it waits for operations; with three of them, what follows
\* is a run of Simulador over copies of them.
Simular(m) ==
    /\ m \in mirada /\ peticion[m] = "nada"
    /\ watch(m)
    /\ peticion' = [peticion EXCEPT ![m] = "simula"]
    /\ plazo' = [plazo EXCEPT ![m] = IF estado[m].eventos = << >> THEN ESPERA_SIMULA ELSE 0]
    /\ UNCHANGED <<vistos, mirada, previo>>

Simulado(m) ==
    /\ peticion[m] = "simula"
    /\ estado[m].eventos # << >> \/ plazo[m] = 0
    /\ peticion' = [peticion EXCEPT ![m] = "nada"]
    /\ UNCHANGED <<estado, tarea, consumidor, vistos, mirada, plazo, previo>>

-----------------------------------------------------------------------------
(* Who looks, and time                                                     *)

Abrir(m) ==
    /\ m \notin mirada
    /\ mirada' = mirada \cup {m}
    /\ UNCHANGED <<estado, tarea, consumidor, vistos, peticion, plazo, previo>>

Apartar(m) ==
    /\ m \in mirada
    /\ mirada' = mirada \ {m}
    /\ UNCHANGED <<estado, tarea, consumidor, vistos, peticion, plazo, previo>>

RelojVista ==
    /\ estado' = [m \in Mints |-> IF estado[m].hay /\ ~Ocioso1(m)
                                  THEN [estado[m] EXCEPT !.acceso = @ + 1] ELSE estado[m]]
    /\ vistos' = [i \in DOMAIN vistos |-> [vistos[i] EXCEPT !.edad = Menor(@ + 1, ESPERA_PRIMERA)]]
    /\ plazo' = [m \in Mints |-> Mayor(plazo[m] - 1, 0)]
    /\ UNCHANGED <<tarea, consumidor, mirada, peticion, previo>>

InitVista ==
    /\ estado = [m \in Mints |-> Nuevo]
    /\ tarea = [m \in Mints |-> "no"]
    /\ consumidor = [m \in Mints |-> "lee"]
    /\ vistos = << >>
    /\ mirada = {}
    /\ peticion = [m \in Mints |-> "nada"]
    /\ plazo = [m \in Mints |-> 0]
    /\ previo = [m \in Mints |-> Nada1]

Contestar(m) == Servir(m) \/ Grado(m) \/ Cuenta(m) \/ Simulado(m)
Vigilar(m) == Soltar(m) \/ Terminar(m)

NextVista ==
    \/ RelojVista
    \/ \E m \in Mints :
          \/ Abrir(m) \/ Apartar(m) \/ Pedir(m) \/ Simular(m) \/ Rehusar(m)
          \/ Contestar(m) \/ Vigilar(m)
          \/ \E e \in Entregas : Notificar(m, e)

\* The page asks every 800 ms while it is open (apps/panel: index.html), the
\* tasks of the event loop run, and time goes by.
SpecVista ==
    /\ InitVista /\ [][NextVista]_varsVista
    /\ WF_varsVista(RelojVista)
    /\ \A m \in Mints : /\ WF_varsVista(Pedir(m)) /\ WF_varsVista(Contestar(m))
                         /\ WF_varsVista(Vigilar(m))

-----------------------------------------------------------------------------
(* Properties                                                              *)

\* Every variable keeps its type: the operations, the tokens asked for and
\* the interest stay under their limits.
VistaTypeOK ==
    /\ estado \in [Mints -> [hay : BOOLEAN, eventos : Seq(Operaciones), seen : SUBSET STRING,
                             curva : Reservas, acceso : 0 .. OCIO + 1, conectado : BOOLEAN,
                             graduado : BOOLEAN, error : BOOLEAN]]
    /\ \A m \in Mints : Len(estado[m].eventos) <= VENTANA
    /\ tarea \in [Mints -> {"no", "vigila", "cierra", "acabada"}]
    /\ consumidor \in [Mints -> {"lee", "roto"}]
    /\ vistos \in Seq([mint : Mints, edad : 0 .. ESPERA_PRIMERA]) /\ Len(vistos) <= MAX_VISTOS
    /\ mirada \subseteq Mints
    /\ peticion \in [Mints -> {"nada", "espera", "grado", "cuenta", "simula"}]
    /\ plazo \in [Mints -> Nat]
    /\ previo \in [Mints -> [trades : Nat, curva : Reservas]]

\* A token whose page keeps asking ends up followed, although the tracker was
\* just closing it down when the page came back and the request found a task
\* that was still there (watch, candles.py:225-234).  Followed is that its task
\* has not ended: it says nothing of a provider that rejects the subscription
\* every time (logs_stream.py:59-63), whose task begins anew at each request.
SeVuelveAVigilar == \A m \in Mints : []<>(tarea[m] = "vigila" \/ m \notin mirada)

\* An answer holds together although it is computed on both sides of two
\* awaits, while operations arrive and the oldest leave: its candles count no
\* operation that its total does not, the whale it names made one of the
\* operations and is somebody, and it says COMPRA of no token whose account
\* says that it is nearly sold, whatever the operations seen say (token_live,
\* main.py:355-493; livesignals.py:41-48).  With no account that can be read,
\* or with a complete one, the curve is CurvaVista's guess and nothing is
\* claimed of how much is really sold.
RespuestaFiel ==
    \A m \in Mints, c \in Leidas :
        LET r == Respuesta(m, c)
        IN  peticion[m] = "cuenta" =>
                /\ r.candles <= r.trades
                /\ r.whale.hay => r.whale.quien \in r.unique_traders \ {ANONIMO}
                /\ r.recommendation = "COMPRA" /\ ~c.completa /\ c.curva.vt > 0 =>
                       progress_pct(c.curva) < 80
=============================================================================
