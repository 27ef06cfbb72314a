---------------------------- MODULE ConsultaProofs ----------------------------
(***************************************************************************)
(* Machine-checked proofs about the components that ask somebody else, and *)
(* about the forecast and the verdict made of the answers, for any tasks,  *)
(* threads, tokens and requests and for any answers:                       *)
(*                                                                         *)
(*   - the RPC client has one request on the wire, a gap after the last;   *)
(*   - each thread of the analyser asks GeckoTerminal a gap after it last  *)
(*     asked, and an undisturbed report names what failed;                 *)
(*   - no token is shown as graduated before its curve completes, whatever *)
(*     the caches keep and however the reads cross;                        *)
(*   - a forecast says nothing of what no source said, and its scenarios   *)
(*     are in order;                                                       *)
(*   - no verdict of the worker's analysis advises to act, whatever could  *)
(*     be read.                                                            *)
(***************************************************************************)
EXTENDS Rpc, Fuentes, CacheCurvas, Pronostico, Analisis, PlieguesProofs, SequenceTheorems

-----------------------------------------------------------------------------
(* The client of the nodes                                                 *)

\* Between the throttle and the answer the lock is held; who sleeps in the
\* throttle wakes up a gap after the last request; and who may still fail has
\* attempts left.
RpcInv ==
    /\ RpcTypeOK
    /\ enviado = ultimo
    /\ \A t \in Tareas :
          /\ tramo[t] \in {"frena", "pide"} => Turno(t)
          /\ tramo[t] = "frena" => ultimo + duerme[t] >= HUECO
          /\ tramo[t] \in {"cola", "frena", "pide", "pausa"} => intentos[t] < MAX_ATTEMPTS

\* Whoever joins the queue changes nothing for who holds the lock.
LEMMA ColaLema ==
    ASSUME NEW q \in Seq(Tareas), NEW t \in Tareas
    PROVE  /\ Append(q, t) \in Seq(Tareas)
           /\ q # << >> => Append(q, t) # << >> /\ Head(Append(q, t)) = Head(q)
<1>1. Append(q, t) \in Seq(Tareas) /\ Len(Append(q, t)) = Len(q) + 1 /\ Len(q) \in Nat
  OBVIOUS
<1>2. q # << >> => Len(q) # 0
  BY EmptySeq
<1> QED
  BY <1>1, <1>2

LEMMA Rpc_Init == InitRpc => RpcInv
<1> SUFFICES ASSUME InitRpc PROVE RpcInv
  OBVIOUS
<1>1. RpcTypeOK
  BY RpcAssumption DEF InitRpc, RpcTypeOK, Tramos, Resultados
<1> QED
  BY <1>1 DEF InitRpc, RpcInv

\* The two ways into the queue.
LEMMA Entrar_Inv ==
    ASSUME RpcInv, NEW t \in Tareas, Llamar(t) \/ Reanudar(t) PROVE RpcInv'
<1> USE DEF RpcInv, RpcTypeOK
<1>1. /\ cerrojo' = Append(cerrojo, t) /\ tramo' = [tramo EXCEPT ![t] = "cola"]
      /\ UNCHANGED <<ultimo, enviado, duerme>>
  BY DEF Llamar, Reanudar
<1>2. /\ intentos' \in [Tareas -> 0 .. MAX_ATTEMPTS] /\ backoff' \in [Tareas -> 1 .. TOPE]
      /\ intentos'[t] < MAX_ATTEMPTS
      /\ \A s \in Tareas : s # t => intentos'[s] = intentos[s]
  <2>1. CASE Llamar(t)
    BY <2>1, RpcAssumption DEF Llamar
  <2>2. CASE Reanudar(t)
    BY <2>2 DEF Reanudar
  <2> QED
    BY <2>1, <2>2
<1>3. cerrojo' \in Seq(Tareas) /\ \A s \in Tareas : Turno(s) => Turno(s)'
  BY <1>1, ColaLema DEF Turno
<1>4. RpcTypeOK'
  BY <1>1, <1>2, <1>3 DEF Tramos
<1> QED
  BY <1>1, <1>2, <1>3, <1>4

LEMMA Frenar_Inv ==
    ASSUME RpcInv, NEW t \in Tareas, Frenar(t) PROVE RpcInv'
<1> USE DEF RpcInv, RpcTypeOK
<1>1. /\ tramo[t] = "cola" /\ Turno(t)
      /\ tramo' = [tramo EXCEPT ![t] = "frena"]
      /\ duerme' = [duerme EXCEPT ![t] = HUECO - ultimo]
      /\ UNCHANGED <<cerrojo, ultimo, intentos, backoff, enviado>>
  BY DEF Frenar
<1>2. HUECO - ultimo \in Nat /\ ultimo + (HUECO - ultimo) >= HUECO
  BY RpcAssumption
<1>3. RpcTypeOK'
  BY <1>1, <1>2 DEF Tramos
<1>4. \A s \in Tareas : Turno(s)' <=> Turno(s)
  BY <1>1 DEF Turno
<1> QED
  BY <1>1, <1>2, <1>3, <1>4

LEMMA Publicar_Inv ==
    ASSUME RpcInv, NEW t \in Tareas, Publicar(t)
    PROVE  /\ RpcInv'
           /\ enviado >= HUECO
           /\ \A s \in Tareas : tramo[s] # "pide"
<1> USE DEF RpcInv, RpcTypeOK
<1>1. /\ tramo[t] = "frena" /\ duerme[t] = 0
      /\ tramo' = [tramo EXCEPT ![t] = "pide"]
      /\ ultimo' = 0 /\ enviado' = 0
      /\ UNCHANGED <<cerrojo, duerme, intentos, backoff>>
  BY DEF Publicar
<1>2. \A s \in Tareas : s # t => tramo[s] \notin {"frena", "pide"}
  BY <1>1 DEF Turno
<1>3. RpcTypeOK'
  BY <1>1, RpcAssumption DEF Tramos
<1>4. \A s \in Tareas : Turno(s)' <=> Turno(s)
  BY <1>1 DEF Turno
<1>5. ultimo >= HUECO
  BY <1>1, RpcAssumption
<1> QED
  BY <1>1, <1>2, <1>3, <1>4, <1>5

\* The two ways out of the lock.
LEMMA Soltar_Inv ==
    ASSUME RpcInv, NEW t \in Tareas, Responder(t) \/ Fracasar(t) PROVE RpcInv'
<1> USE DEF RpcInv, RpcTypeOK
<1>1. tramo[t] = "pide" /\ cerrojo' = Tail(cerrojo) /\ UNCHANGED <<ultimo, enviado>>
  BY DEF Responder, Fracasar, Suelta
<1>2. cerrojo # << >> /\ cerrojo' \in Seq(Tareas)
  BY <1>1 DEF Turno
<1>3. \A s \in Tareas : s # t => tramo[s] \notin {"frena", "pide"}
  BY <1>1 DEF Turno
<1>4. PICK r \in Resultados \cup {"pausa"} : tramo' = [tramo EXCEPT ![t] = r]
  BY DEF Responder, Fracasar, Resultados
<1>5. /\ intentos' \in [Tareas -> 0 .. MAX_ATTEMPTS]
      /\ duerme' \in [Tareas -> Nat] /\ backoff' \in [Tareas -> 1 .. TOPE]
      /\ r = "pausa" => intentos'[t] < MAX_ATTEMPTS
      /\ \A s \in Tareas : s # t => intentos'[s] = intentos[s]
  <2>1. CASE Responder(t)
    BY <2>1, <1>4 DEF Responder
  <2>2. CASE Fracasar(t)
    <3>1. intentos[t] + 1 \in 0 .. MAX_ATTEMPTS /\ backoff[t] \in 1 .. TOPE
      BY <1>1, RpcAssumption
    <3>2. intentos' = [intentos EXCEPT ![t] = intentos[t] + 1]
      BY <2>2 DEF Fracasar
    <3>3. CASE intentos[t] + 1 = MAX_ATTEMPTS
      BY <1>4, <2>2, <3>1, <3>2, <3>3 DEF Fracasar
    <3>4. CASE intentos[t] + 1 # MAX_ATTEMPTS
      <4>1. PICK d \in 0 .. backoff[t] : duerme' = [duerme EXCEPT ![t] = d]
        BY <2>2, <3>4 DEF Fracasar
      <4>2. backoff' = [backoff EXCEPT ![t] = IF 2 * backoff[t] < TOPE THEN 2 * backoff[t] ELSE TOPE]
        BY <2>2, <3>4 DEF Fracasar
      <4>3. (IF 2 * backoff[t] < TOPE THEN 2 * backoff[t] ELSE TOPE) \in 1 .. TOPE
        BY <3>1, RpcAssumption
      <4>4. intentos[t] + 1 < MAX_ATTEMPTS
        BY <3>1, <3>4, RpcAssumption
      <4>5. d \in Nat
        BY <3>1
      <4> QED
        BY <3>1, <3>2, <4>1, <4>2, <4>3, <4>4, <4>5
    <3> QED
      BY <3>3, <3>4
  <2> QED
    BY <2>1, <2>2
<1>6. RpcTypeOK'
  BY <1>1, <1>2, <1>4, <1>5 DEF Tramos, Resultados
<1> QED
  BY <1>1, <1>3, <1>4, <1>5, <1>6 DEF Resultados

\* A tick takes as much from what is left to sleep as it adds to the age.
LEMMA TicLema ==
    ASSUME NEW hueco \in Nat, NEW edad1 \in Int, NEW resta1 \in Nat, NEW edad2 \in Int, NEW resta2 \in Int,
           edad1 + resta1 >= hueco,
           edad2 = edad1 + 1 \/ edad2 = hueco,
           resta2 = IF resta1 > 0 THEN resta1 - 1 ELSE 0
    PROVE  edad2 + resta2 >= hueco
<1>1. CASE resta1 > 0
  BY <1>1
<1>2. CASE resta1 = 0
  BY <1>2
<1> QED
  BY <1>1, <1>2

LEMMA RelojRpc_Inv == ASSUME RpcInv, RelojRpc PROVE RpcInv'
<1> USE DEF RpcInv, RpcTypeOK
<1>1. /\ ultimo' = Envejece(ultimo) /\ enviado' = Envejece(enviado)
      /\ duerme' = [t \in Tareas |-> IF duerme[t] > 0 THEN duerme[t] - 1 ELSE 0]
      /\ UNCHANGED <<cerrojo, tramo, intentos, backoff>>
  BY DEF RelojRpc
<1>2. /\ ultimo' \in 0 .. HUECO /\ (ultimo' = ultimo + 1 \/ ultimo' = HUECO)
      /\ enviado' = ultimo'
  BY <1>1, RpcAssumption DEF Envejece
<1>3. duerme' \in [Tareas -> Nat]
  BY <1>1
<1>4. RpcTypeOK'
  BY <1>1, <1>2, <1>3
<1>5. ASSUME NEW t \in Tareas, tramo[t] = "frena" PROVE ultimo' + duerme'[t] >= HUECO
  <2>1. ultimo + duerme[t] >= HUECO /\ duerme[t] \in Nat /\ ultimo \in 0 .. HUECO /\ HUECO \in Nat
    BY <1>5, RpcAssumption
  <2>2. duerme'[t] = IF duerme[t] > 0 THEN duerme[t] - 1 ELSE 0
    BY <1>1
  <2>3. ultimo \in Int /\ ultimo' \in Int /\ duerme'[t] \in Int
    BY <1>2, <1>3, <2>1
  <2> QED
    BY <1>2, <1>3, <2>1, <2>2, <2>3, TicLema
<1>6. \A s \in Tareas : Turno(s)' <=> Turno(s)
  BY <1>1 DEF Turno
<1> QED
  BY <1>1, <1>2, <1>4, <1>5, <1>6

LEMMA Rpc_Step == RpcInv /\ [NextRpc]_varsRpc => RpcInv'
<1> SUFFICES ASSUME RpcInv, [NextRpc]_varsRpc PROVE RpcInv'
  OBVIOUS
<1>1. CASE UNCHANGED varsRpc
  BY <1>1 DEF varsRpc, RpcInv, RpcTypeOK, Turno
<1> QED
  BY <1>1, Entrar_Inv, Frenar_Inv, Publicar_Inv, Soltar_Inv, RelojRpc_Inv DEF NextRpc

\* Every variable of the client keeps its type.
THEOREM Rpc_TypeOK == SpecRpc => []RpcTypeOK
<1>1. RpcInv => RpcTypeOK
  BY DEF RpcInv
<1> QED
  BY <1>1, Rpc_Init, Rpc_Step, PTL DEF SpecRpc

\* One request on the wire at a time, each a gap after the one before,
\* whichever tasks send them and whatever retries lie in between
\* (rpc.py:48-128).
THEOREM Rpc_Espaciadas == SpecRpc => Espaciadas
<1> DEFINE Paso == \A t \in Tareas :
                      tramo[t] = "frena" /\ tramo'[t] = "pide" =>
                          /\ enviado >= HUECO
                          /\ \A s \in Tareas : tramo[s] # "pide"
<1>1. RpcInv /\ [NextRpc]_varsRpc => [Paso]_varsRpc
  <2> SUFFICES ASSUME RpcInv, NextRpc, NEW t \in Tareas,
                      tramo[t] = "frena", tramo'[t] = "pide"
               PROVE  /\ enviado >= HUECO
                      /\ \A s \in Tareas : tramo[s] # "pide"
    OBVIOUS
  <2>1. tramo \in [Tareas -> Tramos]
    BY DEF RpcInv, RpcTypeOK
  <2>2. \E s \in Tareas : Publicar(s)
    BY <2>1 DEF NextRpc, RelojRpc, Llamar, Frenar, Responder, Fracasar, Reanudar, Resultados
  <2> QED
    BY <2>2, Publicar_Inv
<1> QED
  BY <1>1, Rpc_Init, Rpc_Step, PTL DEF SpecRpc, Espaciadas

-----------------------------------------------------------------------------
(* The sources of the analyser                                             *)

\* Only a stream ticks; a history is asked of somebody; and a stream that goes
\* on has failed less than it may.
EtapaInv ==
    \A h \in Hilos :
        /\ trabajo[h] # "vivo" => etapa[h] \notin {"tick", "manda"}
        /\ etapa[h] = "creador" => quedan[h] # << >>
        /\ etapa[h] \notin Acabado => seguidos[h] < FALLOS

\* The moment they share is never older than the last request of a thread, so
\* whoever sleeps after reading it wakes up late enough for its own.
RitmoInv ==
    \A h \in Hilos :
        /\ ultima <= edad[h]
        /\ sub[h] = "duerme" => edad[h] + resta[h] >= GAP

\* While nobody else touches it, the list is what the thread wrote in it.
ListaInv ==
    \A h \in Hilos :
        /\ etapa[h] = "nada" => propios[h] = {}
        /\ Corre(h) /\ trabajo[h] # "vivo" /\ ~solape[h] =>
              blandos = {<<h, e>> : e \in propios[h] \cap Avisos}

TipoInv == FuentesTypeOK /\ EtapaInv

\* What the constants are.
LEMMA CifrasLema ==
    /\ GAP \in Nat \ {0} /\ RETRIES \in Nat \ {0} /\ PAGINAS \in Nat \ {0}
    /\ MEDIO \in Nat \ {0} /\ LENTO \in Nat \ {0} /\ FALLOS \in Nat \ {0}
    /\ \A como \in DOMAIN ESPERAS : ESPERAS[como] \in Nat
BY FuentesAssumption

LEMMA TrabajoLema ==
    ASSUME FuentesTypeOK, NEW h \in Hilos
    PROVE  trabajo[h] \in {"analisis", "buscar", "radar", "vivo"}
BY FuentesAssumption DEF FuentesTypeOK

\* The numbers of a thread.
LEMMA HiloLema ==
    ASSUME FuentesTypeOK, NEW h \in Hilos
    PROVE  /\ intento[h] \in 1 .. RETRIES /\ vuelta[h] \in Nat /\ seguidos[h] \in 0 .. FALLOS
           /\ resta[h] \in Nat /\ edad[h] \in 0 .. GAP /\ ultima \in Int /\ ultima <= GAP
BY DEF FuentesTypeOK

\* How long the throttle sleeps.
LEMMA HuecoLema ==
    ASSUME ultima \in Int, NEW h
    PROVE  Hueco(h) \in Nat /\ ultima + Hueco(h) >= GAP
<1>1. GAP \in Int
  BY CifrasLema
<1> QED
  BY <1>1 DEF Hueco

\* What is asked next is a source, and only a stream ticks.
LEMMA SigueLema ==
    ASSUME TipoInv, NEW h \in Hilos, NEW bien \in BOOLEAN, Pide(h), etapa[h] # "creador",
           NEW e \in Sigue(h, bien)
    PROVE  /\ e \in Etapas \ {"nada", "creador"}
           /\ trabajo[h] # "vivo" => e \notin {"tick", "manda", "fin"}
           /\ etapa[h] = "tick" /\ ~bien => e = "fin" \/ seguidos[h] + 1 < FALLOS
<1>1. trabajo[h] \in {"analisis", "buscar", "radar", "vivo"}
  BY TrabajoLema DEF TipoInv
<1>2. etapa[h] = "tick" => trabajo[h] = "vivo"
  BY DEF TipoInv, EtapaInv
<1>3. seguidos[h] \in Nat /\ FALLOS \in Nat
  BY CifrasLema DEF TipoInv, FuentesTypeOK
<1>4. CASE trabajo[h] = "analisis"
  <2>1. e \in Analisis1(etapa[h], bien)
    BY <1>4 DEF Sigue
  <2> QED
    BY <1>2, <1>4, <2>1 DEF Analisis1, Etapas, Blandas, Gecko, Otras, Acabado
<1>5. CASE trabajo[h] = "buscar"
  <2>1. e \in Buscar1(etapa[h])
    BY <1>5 DEF Sigue
  <2> QED
    BY <1>2, <1>5, <2>1 DEF Buscar1, Etapas, Blandas, Gecko, Otras, Acabado
<1>6. CASE trabajo[h] = "radar"
  <2>1. e \in Radar1(etapa[h])
    BY <1>6 DEF Sigue
  <2> QED
    BY <1>2, <1>6, <2>1 DEF Radar1, Etapas, Blandas, Gecko, Otras, Acabado
<1>7. CASE trabajo[h] = "vivo"
  <2>1. e \in Vivo1(h, etapa[h], bien)
    BY <1>7 DEF Sigue
  <2>2. e \in {"trades", "manda", "dex", "fin"}
    BY <2>1 DEF Vivo1
  <2>3. etapa[h] = "tick" /\ ~bien => e = "fin" \/ seguidos[h] + 1 < FALLOS
    BY <1>3, <2>1 DEF Vivo1
  <2> QED
    BY <1>7, <2>2, <2>3 DEF Etapas, Blandas, Gecko, Otras, Acabado
<1> QED
  BY <1>1, <1>4, <1>5, <1>6, <1>7

\* A thread goes on to another source; the rest stay where they are.
LEMMA PasaLema ==
    ASSUME FuentesTypeOK, NEW h \in Hilos, NEW e \in Etapas, Pasa(h, e)
    PROVE  /\ etapa' \in [Hilos -> Etapas] /\ etapa'[h] = e
           /\ sub' \in [Hilos -> {"mide", "duerme", "pide", "pausa"}] /\ sub'[h] # "duerme"
           /\ intento' \in [Hilos -> 1 .. RETRIES]
           /\ resta' \in [Hilos -> Nat]
           /\ \A g \in Hilos : g # h =>
                 etapa'[g] = etapa[g] /\ sub'[g] = sub[g] /\ resta'[g] = resta[g]
<1>1. 1 \in 1 .. RETRIES
  BY CifrasLema
<1>2. Primer(e) \in {"mide", "pide"}
  BY DEF Primer
<1> QED
  BY <1>1, <1>2 DEF Pasa, FuentesTypeOK

\* Whoever touches the list is seen by the others that are running.
LEMMA TocaLema ==
    ASSUME NEW h \in Hilos, Toca(h), solape \in [Hilos -> BOOLEAN]
    PROVE  /\ solape' \in [Hilos -> BOOLEAN]
           /\ solape'[h] = solape[h]
           /\ \A g \in Hilos : solape[g] => solape'[g]
           /\ \A g \in Hilos : g # h /\ Corre(g) => solape'[g]
BY DEF Toca

LEMMA Tipo_Init == InitFuentes => TipoInv
<1> SUFFICES ASSUME InitFuentes PROVE TipoInv
  OBVIOUS
<1>1. Cardinality(Creadores) \in Nat
  BY FuentesAssumption, FS_CardinalityType
<1>2. quedan \in [Hilos -> Seq(Creadores)]
  <2>1. \A n \in 0 .. Cardinality(Creadores) : [1 .. n -> Creadores] \subseteq Seq(Creadores)
    BY ONLY <1>1
  <2>2. quedan \in [Hilos -> UNION {[1 .. n -> Creadores] : n \in 0 .. Cardinality(Creadores)}]
    BY DEF InitFuentes
  <2> QED
    BY ONLY <2>1, <2>2
<1>3. 1 \in 1 .. RETRIES /\ GAP \in 0 .. GAP /\ 0 \in 0 .. FALLOS /\ GAP \in Int /\ 0 < FALLOS
  BY CifrasLema
<1>4. intento \in [Hilos -> 1 .. RETRIES] /\ edad \in [Hilos -> 0 .. GAP]
      /\ seguidos \in [Hilos -> 0 .. FALLOS] /\ ultima \in Int /\ ultima <= GAP
  BY <1>3 DEF InitFuentes
<1>5. etapa \in [Hilos -> Etapas] /\ historial \in [Creadores -> {"sin", "nada", "parte", "todo"}]
      /\ avisos \in [Hilos -> SUBSET (Hilos \X Avisos)] /\ propios \in [Hilos -> SUBSET (Avisos \cup Otras)]
  BY DEF InitFuentes, Etapas
<1>6. FuentesTypeOK
  BY <1>2, <1>4, <1>5 DEF InitFuentes, FuentesTypeOK
<1>7. EtapaInv
  BY <1>3 DEF InitFuentes, EtapaInv
<1> QED
  BY <1>6, <1>7 DEF TipoInv

LEMMA Tipo_Empieza ==
    ASSUME TipoInv, NEW h \in Hilos, Empieza(h) PROVE TipoInv'
<1> USE DEF TipoInv, FuentesTypeOK
<1>1. Primera(h) \in {"coin", "busca 1", "lista", "tick"} /\ (Primera(h) = "tick" => trabajo[h] = "vivo")
  BY TrabajoLema DEF Primera
<1>2. /\ etapa' = [etapa EXCEPT ![h] = Primera(h)]
      /\ sub' = [sub EXCEPT ![h] = Primer(Primera(h))]
      /\ UNCHANGED <<trabajo, ultima, historial, resta, intento, vuelta, seguidos, quedan,
                     avisos, propios, edad>>
      /\ etapa[h] = "nada"
  BY DEF Empieza
<1>3. Primera(h) \in Etapas /\ Primer(Primera(h)) \in {"mide", "pide"}
  BY <1>1 DEF Etapas, Blandas, Gecko, Otras, Primer
<1>4. etapa' \in [Hilos -> Etapas] /\ sub' \in [Hilos -> {"mide", "duerme", "pide", "pausa"}]
  BY <1>2, <1>3
<1>5. blandos' \subseteq Hilos \X Avisos
  BY DEF Empieza, Limpia
<1>6. solape' \in [Hilos -> BOOLEAN]
  BY TocaLema DEF Empieza
<1>7. FuentesTypeOK'
  BY <1>2, <1>4, <1>5, <1>6
<1>8. EtapaInv'
  BY <1>1, <1>2 DEF EtapaInv, Acabado
<1> QED
  BY <1>7, <1>8

\* The throttle, the back-off and the end of each.
LEMMA Tipo_Espera ==
    ASSUME TipoInv, NEW h \in Hilos, Medir(h) \/ Enviar1(h) \/ Despierta(h) PROVE TipoInv'
<1> USE DEF TipoInv, FuentesTypeOK
<1>1. /\ UNCHANGED <<trabajo, etapa, intento, vuelta, seguidos, quedan, blandos, historial,
                     avisos, propios, solape>>
      /\ \E x \in {"mide", "duerme", "pide"} : sub' = [sub EXCEPT ![h] = x]
  BY DEF Medir, Enviar1, Despierta, Primer, compartido, testigos
<1>2. resta' \in [Hilos -> Nat]
  <2>1. Hueco(h) \in Nat
    BY HuecoLema
  <2>2. resta' = [resta EXCEPT ![h] = Hueco(h)] \/ resta' = resta
    BY DEF Medir, Enviar1, Despierta
  <2> QED
    BY <2>1, <2>2
<1>3. ultima' \in Int /\ ultima' <= GAP /\ edad' \in [Hilos -> 0 .. GAP]
  <2>1. 0 \in 0 .. GAP /\ 0 <= GAP
    BY CifrasLema
  <2>2. CASE Enviar1(h)
    BY <2>1, <2>2 DEF Enviar1
  <2>3. CASE Medir(h) \/ Despierta(h)
    BY <2>3 DEF Medir, Despierta, compartido, testigos
  <2> QED
    BY <2>2, <2>3
<1>4. FuentesTypeOK'
  BY <1>1, <1>2, <1>3
<1>5. EtapaInv'
  BY <1>1 DEF EtapaInv
<1> QED
  BY <1>4, <1>5

LEMMA Tipo_Reintentar ==
    ASSUME TipoInv, NEW h \in Hilos, NEW como \in DOMAIN ESPERAS, Reintentar(h, como)
    PROVE  /\ TipoInv'
           /\ ultima' <= ultima \/ ultima' <= 0
<1> USE DEF TipoInv, FuentesTypeOK
<1> DEFINE espera == ESPERAS[como] * intento[h]
<1>1. intento[h] \in 1 .. RETRIES /\ intento[h] \in Nat /\ ESPERAS[como] \in Nat
      /\ RETRIES \in Nat /\ GAP \in Nat /\ ultima \in Int /\ ultima <= GAP
  BY ONLY FuentesTypeOK, CifrasLema, HiloLema
<1>2. espera \in Nat
  BY <1>1
<1> HIDE DEF espera
<1>3. /\ sub' = [sub EXCEPT ![h] = "pausa"]
      /\ resta' = [resta EXCEPT ![h] = espera]
      /\ intento' = [intento EXCEPT ![h] = intento[h] + 1]
      /\ ultima' = ultima \/ ultima' = -espera
      /\ intento[h] < RETRIES
      /\ UNCHANGED <<trabajo, etapa, vuelta, seguidos, quedan, blandos, historial, testigos>>
  BY DEF Reintentar, OtroIntento, Reintenta, espera
<1>4. intento[h] + 1 \in 1 .. RETRIES
  BY ONLY <1>1, <1>3
<1>5. ultima' \in Int /\ ultima' <= GAP /\ (ultima' <= ultima \/ ultima' <= 0)
  BY ONLY <1>1, <1>2, <1>3
<1>6. FuentesTypeOK'
  BY <1>2, <1>3, <1>4, <1>5 DEF testigos
<1>7. EtapaInv'
  BY <1>3 DEF EtapaInv
<1> QED
  BY <1>5, <1>6, <1>7

LEMMA Tipo_Contesta ==
    ASSUME TipoInv, NEW h \in Hilos, Contesta(h) PROVE TipoInv'
<1> USE DEF TipoInv, FuentesTypeOK
<1>1. PICK e \in Sigue(h, TRUE) : Pasa(h, e)
  BY DEF Contesta
<1>2. e \in Etapas \ {"nada", "creador"} /\ (trabajo[h] # "vivo" => e \notin {"tick", "manda", "fin"})
  BY SigueLema DEF Contesta
<1>3. UNCHANGED <<trabajo, vuelta, quedan, ultima, blandos, historial, testigos>>
  BY DEF Contesta, compartido
<1>4. 0 \in 0 .. FALLOS /\ 0 < FALLOS
  BY CifrasLema
<1>5. seguidos' \in [Hilos -> 0 .. FALLOS]
      /\ \A g \in Hilos : seguidos[g] < FALLOS => seguidos'[g] < FALLOS
  BY <1>4 DEF Contesta
<1>6. etapa[h] \notin Acabado
  BY DEF Contesta, Pide, Blandas, Gecko, Otras, Acabado
<1>7. FuentesTypeOK'
  BY <1>1, <1>2, <1>3, <1>5, PasaLema DEF testigos
<1>8. etapa'[h] = e /\ \A g \in Hilos : g # h => etapa'[g] = etapa[g]
  BY <1>1, <1>2, PasaLema
<1>9. EtapaInv'
  BY <1>2, <1>3, <1>5, <1>6, <1>8 DEF EtapaInv
<1> QED
  BY <1>7, <1>9

\* A source whose failure nobody writes down is not one that a report names.
LEMMA TragadaLema ==
    /\ Avisos \cap Otras = {}
    /\ \A e \in Otras : Fuente(e) = e /\ e \notin Blandas
<1>1. /\ \A e \in Otras : Fuente(e) = e /\ e \notin Blandas
      /\ \A e \in Blandas : Fuente(e) \in {"gecko", "dex", "lista"}
  BY DEF Otras, Fuente, Blandas, Gecko
<1> QED
  BY <1>1 DEF Avisos, Otras

\* Whatever source failed the thread is one.
LEMMA PropiosLema ==
    ASSUME NEW h \in Hilos, NEW e \in Avisos \cup Otras,
           propios \in [Hilos -> SUBSET (Avisos \cup Otras)],
           propios' = [propios EXCEPT ![h] = @ \cup {e}]
    PROVE  propios' \in [Hilos -> SUBSET (Avisos \cup Otras)]
<1> DEFINE A == Avisos \cup Otras
<1>1. propios \in [Hilos -> SUBSET A] /\ e \in A
  OBVIOUS
<1> HIDE DEF A
<1>2. propios[h] \cup {e} \in SUBSET A
  BY <1>1
<1>3. propios' \in [Hilos -> SUBSET A]
  BY <1>1, <1>2
<1> QED
  BY <1>3 DEF A

\* A failure is written down under a name the report knows.
LEMMA FallaLema ==
    ASSUME TipoInv, NEW h \in Hilos, Falla1(h)
    PROVE  /\ blandos' \subseteq Hilos \X Avisos /\ solape' \in [Hilos -> BOOLEAN]
           /\ propios' \in [Hilos -> SUBSET (Avisos \cup Otras)]
<1> USE DEF TipoInv, FuentesTypeOK
<1>1. propios' = [propios EXCEPT ![h] = @ \cup {Fuente(etapa[h])}]
  BY DEF Falla1
<1>2. CASE etapa[h] \in Blandas
  <2>1. Fuente(etapa[h]) \in Avisos
    BY <1>2 DEF Avisos
  <2>2. solape' \in [Hilos -> BOOLEAN]
    BY <1>2, TocaLema DEF Falla1
  <2>3. blandos' = blandos \cup {<<h, Fuente(etapa[h])>>}
    BY <1>2 DEF Falla1
  <2>4. propios' \in [Hilos -> SUBSET (Avisos \cup Otras)]
    BY <1>1, <2>1, PropiosLema
  <2> QED
    BY <2>1, <2>2, <2>3, <2>4
<1>3. CASE etapa[h] \notin Blandas
  <2>1. Fuente(etapa[h]) \in Otras /\ UNCHANGED <<blandos, solape>>
    BY <1>3, TragadaLema DEF Falla1, Pide
  <2>2. propios' \in [Hilos -> SUBSET (Avisos \cup Otras)]
    BY <1>1, <2>1, PropiosLema
  <2> QED
    BY <2>1, <2>2
<1> QED
  BY <1>2, <1>3

LEMMA Tipo_Falla ==
    ASSUME TipoInv, NEW h \in Hilos, Falla1(h) PROVE TipoInv'
<1> USE DEF TipoInv, FuentesTypeOK
<1>1. PICK e \in Sigue(h, FALSE) : Pasa(h, e)
  BY DEF Falla1
<1>2. /\ e \in Etapas \ {"nada", "creador"} /\ (trabajo[h] # "vivo" => e \notin {"tick", "manda", "fin"})
      /\ etapa[h] = "tick" => e = "fin" \/ seguidos[h] + 1 < FALLOS
  BY SigueLema DEF Falla1
<1>3. UNCHANGED <<trabajo, vuelta, quedan, ultima, historial, avisos, edad>>
  BY DEF Falla1
<1>4. etapa[h] \notin Acabado
  BY DEF Falla1, Pide, Blandas, Gecko, Otras, Acabado
<1>5. seguidos[h] \in 0 .. FALLOS /\ seguidos[h] < FALLOS
  BY <1>4 DEF EtapaInv
<1>6. seguidos[h] + 1 \in 0 .. FALLOS
  <2>1. FALLOS \in Nat
    BY CifrasLema
  <2> QED
    BY ONLY <1>5, <2>1
<1>7. /\ seguidos' \in [Hilos -> 0 .. FALLOS]
      /\ \A g \in Hilos : g # h => seguidos'[g] = seguidos[g]
      /\ e \notin Acabado => seguidos'[h] < FALLOS
  BY <1>2, <1>5, <1>6 DEF Falla1, Acabado
<1>8. /\ etapa' \in [Hilos -> Etapas] /\ sub' \in [Hilos -> {"mide", "duerme", "pide", "pausa"}]
      /\ intento' \in [Hilos -> 1 .. RETRIES] /\ resta' \in [Hilos -> Nat]
      /\ etapa'[h] = e /\ \A g \in Hilos : g # h => etapa'[g] = etapa[g]
  BY <1>1, <1>2, PasaLema
<1>10. FuentesTypeOK'
  BY <1>3, <1>7, <1>8, FallaLema
<1>9. EtapaInv'
  BY <1>2, <1>3, <1>7, <1>8 DEF EtapaInv
<1> QED
  BY <1>9, <1>10

\* The creators still to be looked at, the first taken away.
LEMMA RestoLema ==
    ASSUME NEW q \in Seq(Creadores), q # << >>
    PROVE  Head(q) \in Creadores /\ Tail(q) \in Seq(Creadores)
OBVIOUS

LEMMA Tipo_Elige ==
    ASSUME TipoInv, NEW h \in Hilos, Elige(h) PROVE TipoInv'
<1> USE DEF TipoInv, FuentesTypeOK
<1>1. /\ etapa[h] = "elige" /\ vuelta' = [vuelta EXCEPT ![h] = 0]
      /\ UNCHANGED <<trabajo, seguidos, ultima, blandos, historial, testigos>>
  BY DEF Elige, compartido
<1>2. {"elige", "creador", "recoge"} \subseteq Etapas
  BY DEF Etapas, Otras
<1>3. CASE quedan[h] # << >> /\ Pasa(h, "creador") /\ UNCHANGED quedan
  <2>1. /\ etapa' \in [Hilos -> Etapas] /\ sub' \in [Hilos -> {"mide", "duerme", "pide", "pausa"}]
        /\ intento' \in [Hilos -> 1 .. RETRIES] /\ resta' \in [Hilos -> Nat]
        /\ etapa'[h] = "creador" /\ \A g \in Hilos : g # h => etapa'[g] = etapa[g]
    BY <1>2, <1>3, PasaLema
  <2>2. FuentesTypeOK'
    BY <1>1, <1>3, <2>1 DEF testigos
  <2>3. EtapaInv'
    BY <1>1, <1>3, <2>1 DEF EtapaInv, Acabado
  <2> QED
    BY <2>2, <2>3
<1>4. CASE quedan[h] # << >> /\ quedan' = [quedan EXCEPT ![h] = Tail(quedan[h])]
           /\ UNCHANGED <<etapa, sub, intento, resta>>
  <2>1. quedan' \in [Hilos -> Seq(Creadores)]
    BY <1>4, RestoLema
  <2>2. FuentesTypeOK'
    BY <1>1, <1>4, <2>1 DEF testigos
  <2>3. EtapaInv'
    BY <1>1, <1>4 DEF EtapaInv
  <2> QED
    BY <2>2, <2>3
<1>5. CASE Pasa(h, "recoge") /\ UNCHANGED quedan
  <2>1. /\ etapa' \in [Hilos -> Etapas] /\ sub' \in [Hilos -> {"mide", "duerme", "pide", "pausa"}]
        /\ intento' \in [Hilos -> 1 .. RETRIES] /\ resta' \in [Hilos -> Nat]
        /\ etapa'[h] = "recoge" /\ \A g \in Hilos : g # h => etapa'[g] = etapa[g]
    BY <1>2, <1>5, PasaLema
  <2>2. FuentesTypeOK'
    BY <1>1, <1>5, <2>1 DEF testigos
  <2>3. EtapaInv'
    BY <1>1, <1>5, <2>1 DEF EtapaInv, Acabado
  <2> QED
    BY <2>2, <2>3
<1> QED
  BY <1>3, <1>4, <1>5 DEF Elige

LEMMA Tipo_Pagina ==
    ASSUME TipoInv, NEW h \in Hilos, Pagina(h) PROVE TipoInv'
<1> USE DEF TipoInv, FuentesTypeOK
<1>1. etapa[h] = "creador" /\ UNCHANGED <<trabajo, seguidos, ultima, blandos, avisos, solape, edad>>
  BY DEF Pagina
<1>11. propios' \in [Hilos -> SUBSET (Avisos \cup Otras)]
  <2>1. "creador" \in Otras
    BY DEF Otras
  <2>2. propios' = propios \/ propios' = [propios EXCEPT ![h] = @ \cup {"creador"}]
    BY DEF Pagina
  <2> QED
    BY <2>1, <2>2, PropiosLema
<1>2. quedan[h] \in Seq(Creadores) /\ quedan[h] # << >>
  BY <1>1 DEF EtapaInv
<1>3. Head(quedan[h]) \in Creadores /\ Tail(quedan[h]) \in Seq(Creadores)
  BY <1>2, RestoLema
<1>4. PICK e \in {"creador", "elige"} : Pasa(h, e) /\ (e = "creador" => UNCHANGED quedan)
  BY DEF Pagina, Guarda
<1>5. e \in Etapas
  BY DEF Etapas, Otras
<1>6. /\ etapa' \in [Hilos -> Etapas] /\ sub' \in [Hilos -> {"mide", "duerme", "pide", "pausa"}]
      /\ intento' \in [Hilos -> 1 .. RETRIES] /\ resta' \in [Hilos -> Nat]
      /\ etapa'[h] = e /\ \A g \in Hilos : g # h => etapa'[g] = etapa[g]
  BY <1>4, <1>5, PasaLema
<1>7. /\ historial' \in [Creadores -> {"sin", "nada", "parte", "todo"}]
      /\ quedan' \in [Hilos -> Seq(Creadores)]
      /\ \A g \in Hilos : g # h => quedan'[g] = quedan[g]
  <2>1. CASE UNCHANGED <<quedan, historial>>
    BY <2>1
  <2>2. CASE /\ \E sabe \in {"todo", "parte", "nada"} :
                   historial' = [historial EXCEPT ![Head(quedan[h])] = sabe]
             /\ quedan' = [quedan EXCEPT ![h] = Tail(quedan[h])]
    BY <1>3, <2>2
  <2> QED
    BY <2>1, <2>2 DEF Pagina, Guarda
<1>8. vuelta' \in [Hilos -> Nat]
  <2>1. vuelta' = [vuelta EXCEPT ![h] = vuelta[h] + 1] \/ vuelta' = vuelta
    BY DEF Pagina, Guarda
  <2>2. vuelta[h] + 1 \in Nat
    OBVIOUS
  <2> QED
    BY <2>1, <2>2
<1>9. FuentesTypeOK'
  BY <1>1, <1>6, <1>7, <1>8, <1>11
<1>10. EtapaInv'
  BY <1>1, <1>2, <1>4, <1>6, <1>7 DEF EtapaInv, Acabado
<1> QED
  BY <1>9, <1>10

LEMMA Tipo_Recoge ==
    ASSUME TipoInv, NEW h \in Hilos, Recoge(h) PROVE TipoInv'
<1> USE DEF TipoInv, FuentesTypeOK
<1>1. /\ etapa[h] = "recoge" /\ etapa' = [etapa EXCEPT ![h] = "fin"]
      /\ avisos' = [avisos EXCEPT ![h] = blandos] /\ blandos' = {}
      /\ UNCHANGED <<trabajo, ultima, historial, sub, resta, intento, vuelta, seguidos, quedan,
                     propios, edad>>
  BY DEF Recoge
<1>2. solape' \in [Hilos -> BOOLEAN]
  BY TocaLema DEF Recoge
<1>3. "fin" \in Etapas
  BY DEF Etapas, Acabado
<1>4. FuentesTypeOK'
  BY <1>1, <1>2, <1>3
<1>5. EtapaInv'
  BY <1>1 DEF EtapaInv, Acabado
<1> QED
  BY <1>4, <1>5

LEMMA Tipo_Manda ==
    ASSUME TipoInv, NEW h \in Hilos, Manda(h) PROVE TipoInv'
<1> USE DEF TipoInv, FuentesTypeOK
<1>1. etapa[h] = "manda" /\ UNCHANGED <<trabajo, seguidos, quedan, ultima, blandos, historial, testigos>>
  BY DEF Manda, compartido
<1>2. PICK e \in {"tick", "fin"} : Pasa(h, e)
  BY DEF Manda
<1>3. e \in Etapas
  BY DEF Etapas, Otras, Acabado
<1>4. /\ etapa' \in [Hilos -> Etapas] /\ sub' \in [Hilos -> {"mide", "duerme", "pide", "pausa"}]
      /\ intento' \in [Hilos -> 1 .. RETRIES] /\ resta' \in [Hilos -> Nat]
      /\ etapa'[h] = e /\ \A g \in Hilos : g # h => etapa'[g] = etapa[g]
  BY <1>2, <1>3, PasaLema
<1>5. vuelta' \in [Hilos -> Nat]
  <2>1. Ciclo \in Nat \ {0}
    BY CifrasLema DEF Ciclo
  <2>2. (vuelta[h] + 1) % Ciclo \in Nat
    BY <2>1
  <2> QED
    BY <2>2 DEF Manda
<1>6. FuentesTypeOK'
  BY <1>1, <1>4, <1>5 DEF testigos
<1>7. trabajo[h] = "vivo"
  BY <1>1 DEF EtapaInv
<1>8. EtapaInv'
  BY <1>1, <1>2, <1>4, <1>7 DEF EtapaInv, Acabado
<1> QED
  BY <1>6, <1>8

LEMMA Tipo_Reloj == ASSUME TipoInv, Reloj PROVE TipoInv'
<1> USE DEF TipoInv, FuentesTypeOK
<1>1. /\ ultima' = IF ultima < GAP THEN ultima + 1 ELSE ultima
      /\ edad' = [h \in Hilos |-> IF edad[h] < GAP THEN edad[h] + 1 ELSE edad[h]]
      /\ resta' = [h \in Hilos |-> Pasa1(resta[h])]
      /\ UNCHANGED <<trabajo, blandos, historial, etapa, sub, intento, vuelta, seguidos, quedan,
                     avisos, propios, solape>>
  BY DEF Reloj
<1>2. ultima' \in Int /\ ultima' <= GAP /\ edad' \in [Hilos -> 0 .. GAP]
  BY <1>1, CifrasLema
<1>3. resta' \in [Hilos -> Nat]
  BY <1>1 DEF Pasa1
<1>4. FuentesTypeOK'
  BY <1>1, <1>2, <1>3
<1>5. EtapaInv'
  BY <1>1 DEF EtapaInv
<1> QED
  BY <1>4, <1>5

LEMMA Tipo_Step == TipoInv /\ [NextFuentes]_varsFuentes => TipoInv'
<1> SUFFICES ASSUME TipoInv, [NextFuentes]_varsFuentes PROVE TipoInv'
  OBVIOUS
<1>1. CASE UNCHANGED varsFuentes
  BY <1>1 DEF TipoInv, FuentesTypeOK, EtapaInv, varsFuentes, hilo, compartido, testigos
<1> QED
  BY <1>1, Tipo_Reloj, Tipo_Empieza, Tipo_Espera, Tipo_Contesta, Tipo_Falla, Tipo_Elige,
     Tipo_Pagina, Tipo_Recoge, Tipo_Manda, Tipo_Reintentar DEF NextFuentes, Hilo

\* Every variable of the analyser keeps its type.
THEOREM Fuentes_TypeOK == SpecFuentes => []FuentesTypeOK
<1>1. TipoInv => FuentesTypeOK
  BY DEF TipoInv
<1> QED
  BY <1>1, Tipo_Init, Tipo_Step, PTL DEF SpecFuentes

-----------------------------------------------------------------------------
(* The gap of each thread                                                  *)

\* Most steps neither ask GeckoTerminal nor put a thread to sleep for it.
LEMMA RitmoLema ==
    ASSUME TipoInv, RitmoInv, NEW h \in Hilos,
           UNCHANGED <<ultima, edad>>, sub'[h] # "duerme",
           \A g \in Hilos : g # h => sub'[g] = sub[g] /\ resta'[g] = resta[g]
    PROVE  RitmoInv'
BY DEF RitmoInv

LEMMA Ritmo_Hilo ==
    ASSUME TipoInv, RitmoInv, NEW h \in Hilos, Hilo(h) \/ Empieza(h) PROVE RitmoInv'
<1> USE DEF TipoInv, FuentesTypeOK
<1>1. CASE Empieza(h)
  <2>1. Primer(Primera(h)) # "duerme"
    BY DEF Primer
  <2> QED
    BY <1>1, <2>1, RitmoLema DEF Empieza
<1>2. CASE Medir(h)
  <2>1. Hueco(h) \in Nat /\ ultima + Hueco(h) >= GAP
    BY HuecoLema
  <2>2. resta' = [resta EXCEPT ![h] = Hueco(h)] /\ UNCHANGED <<ultima, edad>>
        /\ sub' = [sub EXCEPT ![h] = "duerme"]
    BY <1>2 DEF Medir, compartido, testigos
  <2>3. edad[h] \in Int /\ ultima <= edad[h] /\ GAP \in Int /\ ultima \in Int
    BY CifrasLema DEF RitmoInv
  <2>4. edad[h] + Hueco(h) >= GAP
    BY <2>1, <2>3
  <2> QED
    BY <2>2, <2>4 DEF RitmoInv
<1>3. CASE Enviar1(h)
  <2>1. /\ ultima' = 0 /\ edad' = [edad EXCEPT ![h] = 0] /\ UNCHANGED resta
        /\ sub' = [sub EXCEPT ![h] = "pide"]
    BY <1>3 DEF Enviar1
  <2>2. \A g \in Hilos : 0 <= edad[g]
    BY CifrasLema
  <2> QED
    BY <2>1, <2>2 DEF RitmoInv
<1>4. CASE Despierta(h)
  <2>1. Primer(etapa[h]) # "duerme"
    BY DEF Primer
  <2> QED
    BY <1>4, <2>1, RitmoLema DEF Despierta, compartido, testigos
<1>5. ASSUME NEW como \in DOMAIN ESPERAS, Reintentar(h, como) PROVE RitmoInv'
  <2>1. ultima' <= ultima \/ ultima' <= 0
    BY <1>5, Tipo_Reintentar
  <2>2. TipoInv'
    BY <1>5, Tipo_Reintentar
  <2>3. UNCHANGED edad /\ sub' = [sub EXCEPT ![h] = "pausa"]
        /\ \A g \in Hilos : g # h => resta'[g] = resta[g]
    BY <1>5 DEF Reintentar, testigos
  <2>4. \A g \in Hilos : edad[g] \in Nat /\ ultima <= edad[g]
    BY CifrasLema DEF RitmoInv
  <2>5. ASSUME NEW g \in Hilos PROVE ultima' <= edad[g]
    <3>1. ultima \in Int /\ ultima' \in Int /\ edad[g] \in Nat /\ ultima <= edad[g]
      BY <2>2, <2>4
    <3> QED
      BY <2>1, <3>1
  <2> QED
    BY <2>3, <2>5 DEF RitmoInv
<1>6. ASSUME NEW e \in Etapas, Pasa(h, e), UNCHANGED <<ultima, edad>> PROVE RitmoInv'
  BY <1>6, PasaLema, RitmoLema
<1>7. CASE Contesta(h)
  BY <1>6, <1>7, SigueLema DEF Contesta, compartido, testigos
<1>8. CASE Falla1(h)
  BY <1>6, <1>8, SigueLema DEF Falla1
<1>9. CASE Elige(h)
  <2>1. {"creador", "recoge"} \subseteq Etapas /\ UNCHANGED <<ultima, edad>>
    BY <1>9 DEF Etapas, Otras, Elige, compartido, testigos
  <2>2. CASE UNCHANGED <<sub, resta>>
    BY <2>1, <2>2 DEF RitmoInv
  <2> QED
    BY <1>6, <1>9, <2>1, <2>2 DEF Elige
<1>10. CASE Pagina(h)
  <2>1. {"creador", "elige"} \subseteq Etapas /\ UNCHANGED <<ultima, edad>>
    BY <1>10 DEF Etapas, Otras, Pagina, testigos
  <2> QED
    BY <1>6, <1>10, <2>1 DEF Pagina, Guarda
<1>11. CASE Recoge(h)
  BY <1>11 DEF Recoge, RitmoInv
<1>12. CASE Manda(h)
  <2>1. {"tick", "fin"} \subseteq Etapas /\ UNCHANGED <<ultima, edad>>
    BY <1>12 DEF Etapas, Otras, Acabado, Manda, compartido, testigos
  <2> QED
    BY <1>6, <1>12, <2>1 DEF Manda
<1> QED
  BY <1>1, <1>2, <1>3, <1>4, <1>5, <1>7, <1>8, <1>9, <1>10, <1>11, <1>12 DEF Hilo

LEMMA Ritmo_Reloj == ASSUME TipoInv, RitmoInv, Reloj PROVE RitmoInv'
<1> SUFFICES ASSUME NEW h \in Hilos
             PROVE  /\ ultima' <= edad'[h]
                    /\ sub'[h] = "duerme" => edad'[h] + resta'[h] >= GAP
  BY DEF RitmoInv
<1>1. edad[h] \in 0 .. GAP /\ resta[h] \in Nat /\ ultima \in Int /\ GAP \in Nat
      /\ ultima <= edad[h] /\ (sub[h] = "duerme" => edad[h] + resta[h] >= GAP)
  BY CifrasLema DEF TipoInv, FuentesTypeOK, RitmoInv
<1>2. /\ ultima' = IF ultima < GAP THEN ultima + 1 ELSE ultima
      /\ edad'[h] = IF edad[h] < GAP THEN edad[h] + 1 ELSE edad[h]
      /\ resta'[h] = IF resta[h] > 0 THEN resta[h] - 1 ELSE 0
      /\ sub' = sub
  BY DEF Reloj, Pasa1
<1>3. ultima' <= edad'[h]
  BY <1>1, <1>2
<1>4. edad'[h] = edad[h] + 1 \/ edad'[h] = GAP
  BY <1>1, <1>2
<1>5. edad[h] \in Int /\ edad'[h] \in Int /\ resta'[h] \in Int
  BY <1>1, <1>2
<1>6. sub'[h] = "duerme" => edad'[h] + resta'[h] >= GAP
  BY <1>1, <1>2, <1>4, <1>5, TicLema
<1> QED
  BY <1>3, <1>6

LEMMA Ritmo_Step == TipoInv /\ RitmoInv /\ [NextFuentes]_varsFuentes => RitmoInv'
<1> SUFFICES ASSUME TipoInv, RitmoInv, [NextFuentes]_varsFuentes PROVE RitmoInv'
  OBVIOUS
<1>1. CASE UNCHANGED varsFuentes
  BY <1>1 DEF RitmoInv, varsFuentes, hilo, compartido, testigos
<1> QED
  BY <1>1, Ritmo_Reloj, Ritmo_Hilo DEF NextFuentes

\* Only for GeckoTerminal does a thread wait for its turn.
GeckoInv == \A h \in Hilos : sub[h] \in {"mide", "duerme"} => etapa[h] \in Gecko

\* A step of a thread leaves where the others are.
LEMMA SubLema ==
    ASSUME TipoInv, NEW h \in Hilos, NEW g \in Hilos, Empieza(g) \/ Hilo(g),
           sub'[h] # sub[h] \/ etapa'[h] # etapa[h]
    PROVE  g = h
<1> USE DEF TipoInv, FuentesTypeOK
<1>1. (\E e : Pasa(g, e)) => g = h
  BY DEF Pasa
<1>2. Contesta(g) \/ Falla1(g) \/ Manda(g) => \E e : Pasa(g, e)
  BY DEF Contesta, Falla1, Manda
<1>3. Elige(g) \/ Pagina(g) => (\E e : Pasa(g, e)) \/ UNCHANGED <<sub, etapa>>
  BY DEF Elige, Pagina, Guarda
<1>4. Empieza(g) \/ Medir(g) \/ Enviar1(g) \/ Despierta(g) \/ Recoge(g) => g = h
  BY DEF Empieza, Medir, Enviar1, Despierta, Recoge
<1>5. \A como \in DOMAIN ESPERAS : Reintentar(g, como) => g = h
  BY DEF Reintentar
<1> QED
  BY <1>1, <1>2, <1>3, <1>4, <1>5 DEF Hilo

LEMMA Gecko_Hilo ==
    ASSUME TipoInv, GeckoInv, NEW h \in Hilos, Hilo(h) \/ Empieza(h)
    PROVE  sub'[h] \in {"mide", "duerme"} => etapa'[h] \in Gecko
<1> USE DEF TipoInv, FuentesTypeOK
<1>1. \A e : Pasa(h, e) => etapa'[h] = e /\ sub'[h] = Primer(e)
  BY DEF Pasa
<1>2. \A e : Primer(e) \in {"mide", "duerme"} => e \in Gecko
  BY DEF Primer
<1>3. Contesta(h) \/ Falla1(h) \/ Manda(h) => \E e : Pasa(h, e)
  BY DEF Contesta, Falla1, Manda
<1>4. Elige(h) \/ Pagina(h) => (\E e : Pasa(h, e)) \/ UNCHANGED <<sub, etapa>>
  BY DEF Elige, Pagina, Guarda
<1>5. CASE Empieza(h)
  BY <1>2, <1>5 DEF Empieza
<1>6. CASE Medir(h) \/ Enviar1(h)
  BY <1>6 DEF Medir, Enviar1, GeckoInv
<1>7. CASE Despierta(h)
  BY <1>2, <1>7 DEF Despierta
<1>8. CASE \E como \in DOMAIN ESPERAS : Reintentar(h, como)
  BY <1>8 DEF Reintentar
<1>9. CASE Recoge(h)
  <2>1. etapa[h] \notin Gecko /\ UNCHANGED sub
    BY <1>9 DEF Recoge, Gecko
  <2> QED
    BY <2>1 DEF GeckoInv
<1> QED
  BY <1>1, <1>2, <1>3, <1>4, <1>5, <1>6, <1>7, <1>8, <1>9 DEF Hilo, GeckoInv

LEMMA Gecko_Step == TipoInv /\ GeckoInv /\ [NextFuentes]_varsFuentes => GeckoInv'
<1> SUFFICES ASSUME TipoInv, GeckoInv, [NextFuentes]_varsFuentes, NEW h \in Hilos,
                    sub'[h] \in {"mide", "duerme"}
             PROVE  etapa'[h] \in Gecko
  BY DEF GeckoInv
<1>1. CASE UNCHANGED <<sub, etapa>>
  BY <1>1 DEF GeckoInv
<1>2. CASE \E g \in Hilos : Hilo(g) \/ Empieza(g)
  BY <1>2, SubLema, Gecko_Hilo DEF GeckoInv
<1>3. Reloj \/ UNCHANGED varsFuentes => UNCHANGED <<sub, etapa>>
  BY DEF Reloj, varsFuentes, hilo
<1> QED
  BY <1>1, <1>2, <1>3 DEF NextFuentes

\* Each thread leaves a gap between its requests to GeckoTerminal, although
\* the moment they share is written over by the others and by their back-offs
\* (sources.py:27-91).
THEOREM Fuentes_RitmoPorHilo == SpecFuentes => RitmoPorHilo
<1> DEFINE Paso == \A h \in Hilos :
                      sub[h] = "duerme" /\ sub'[h] = "pide" => edad[h] >= GAP
<1>1. InitFuentes => RitmoInv /\ GeckoInv
  <2> SUFFICES ASSUME InitFuentes PROVE RitmoInv /\ GeckoInv
    OBVIOUS
  <2>1. \A h \in Hilos : edad[h] = GAP /\ sub[h] = "pide"
    BY DEF InitFuentes
  <2>2. ultima = GAP /\ GAP <= GAP
    BY CifrasLema DEF InitFuentes
  <2> QED
    BY <2>1, <2>2 DEF RitmoInv, GeckoInv
<1>2. TipoInv /\ RitmoInv /\ GeckoInv /\ [NextFuentes]_varsFuentes => [Paso]_varsFuentes
  <2> SUFFICES ASSUME TipoInv, RitmoInv, GeckoInv, NextFuentes, NEW h \in Hilos,
                      sub[h] = "duerme", sub'[h] = "pide"
               PROVE  edad[h] >= GAP
    OBVIOUS
  <2>1. CASE Enviar1(h)
    <3>1. resta[h] = 0 /\ edad[h] \in Int /\ edad[h] + resta[h] >= GAP /\ GAP \in Int
      BY <2>1, CifrasLema DEF Enviar1, TipoInv, FuentesTypeOK, RitmoInv
    <3> QED
      BY <3>1
  <2>2. \A g \in Hilos : Empieza(g) \/ Hilo(g) => g = h
    BY SubLema
  <2>3. ~Reloj
    BY DEF Reloj
  <2>4. Empieza(h) \/ Hilo(h)
    BY <2>2, <2>3 DEF NextFuentes
  <2>5. etapa[h] \in Gecko
    BY DEF GeckoInv
  <2>6. etapa[h] \notin {"nada", "elige", "recoge", "manda"}
    BY <2>5 DEF Gecko
  <2> QED
    BY <2>1, <2>4, <2>6 DEF Empieza, Hilo, Medir, Despierta, Contesta, Falla1, Elige, Pagina,
       Recoge, Manda, Reintentar, Pide
<1> QED
  BY <1>1, <1>2, Tipo_Init, Tipo_Step, Ritmo_Step, Gecko_Step, PTL DEF SpecFuentes, RitmoPorHilo

-----------------------------------------------------------------------------
(* What a report says                                                      *)

InformeInv == ListaInv /\ InformeFiel

\* Steps that neither touch the list nor begin or end a request, though a
\* failure may be swallowed in them.
LEMMA ListaLema ==
    ASSUME TipoInv, InformeInv, NEW h \in Hilos,
           UNCHANGED <<trabajo, blandos, avisos, solape>>, Corre(h),
           \A g \in Hilos : g # h => etapa'[g] = etapa[g] /\ propios'[g] = propios[g],
           propios'[h] \cap Avisos = propios[h] \cap Avisos,
           etapa'[h] # "nada", etapa'[h] = "fin" => trabajo[h] = "vivo"
    PROVE  InformeInv'
<1>1. ListaInv'
  BY DEF InformeInv, ListaInv, Corre, Acabado
<1>2. InformeFiel'
  BY DEF InformeInv, InformeFiel, Intacto, Corre, Acabado
<1> QED
  BY <1>1, <1>2 DEF InformeInv

LEMMA Lista_Empieza ==
    ASSUME TipoInv, InformeInv, NEW h \in Hilos, Empieza(h) PROVE InformeInv'
<1> USE DEF TipoInv, FuentesTypeOK
<1>1. Primera(h) \in {"coin", "busca 1", "lista", "tick"}
  BY TrabajoLema DEF Primera
<1>2. /\ etapa[h] = "nada" /\ etapa' = [etapa EXCEPT ![h] = Primera(h)]
      /\ UNCHANGED <<trabajo, avisos, propios>>
  BY DEF Empieza
<1>3. CASE trabajo[h] = "vivo"
  <2>1. UNCHANGED <<blandos, solape>>
    BY <1>3 DEF Empieza, Limpia
  <2> QED
    BY <1>1, <1>2, <1>3, <2>1 DEF InformeInv, ListaInv, InformeFiel, Intacto, Corre, Acabado
<1>4. CASE trabajo[h] # "vivo"
  <2>1. blandos' = {} /\ Toca(h)
    BY <1>4 DEF Empieza, Limpia
  <2>2. /\ \A g \in Hilos : solape[g] => solape'[g]
        /\ \A g \in Hilos : g # h /\ Corre(g) => solape'[g]
    BY <2>1, TocaLema
  <2>3. propios'[h] = {}
    BY <1>2 DEF InformeInv, ListaInv
  <2>4. ListaInv'
    BY <1>1, <1>2, <2>1, <2>2, <2>3 DEF InformeInv, ListaInv, Corre, Acabado
  <2>5. InformeFiel'
    BY <1>1, <1>2, <2>2 DEF InformeInv, InformeFiel, Intacto
  <2> QED
    BY <2>4, <2>5 DEF InformeInv
<1> QED
  BY <1>3, <1>4

LEMMA Lista_Falla ==
    ASSUME TipoInv, InformeInv, NEW h \in Hilos, Falla1(h) PROVE InformeInv'
<1> USE DEF TipoInv, FuentesTypeOK
<1>1. PICK e \in Sigue(h, FALSE) : Pasa(h, e)
  BY DEF Falla1
<1>2. /\ e \in Etapas \ {"nada", "creador"} /\ (trabajo[h] # "vivo" => e # "fin")
      /\ etapa'[h] = e /\ \A g \in Hilos : g # h => etapa'[g] = etapa[g]
  BY <1>1, SigueLema, PasaLema DEF Falla1
<1>3. Corre(h) /\ UNCHANGED <<trabajo, avisos>>
      /\ propios' = [propios EXCEPT ![h] = @ \cup {Fuente(etapa[h])}]
  BY DEF Falla1, Pide, Corre, Blandas, Gecko, Otras, Acabado
<1>4. CASE etapa[h] \in Blandas
  <2>1. blandos' = blandos \cup {<<h, Fuente(etapa[h])>>} /\ Toca(h)
        /\ Fuente(etapa[h]) \in Avisos
    BY <1>4 DEF Falla1, Avisos
  <2>2. /\ solape'[h] = solape[h]
        /\ \A g \in Hilos : solape[g] => solape'[g]
        /\ \A g \in Hilos : g # h /\ Corre(g) => solape'[g]
    BY <2>1, TocaLema
  <2>3. propios'[h] = propios[h] \cup {Fuente(etapa[h])}
        /\ \A g \in Hilos : g # h => propios'[g] = propios[g]
    BY <1>3
  <2>4. blandos = {<<h, x>> : x \in propios[h] \cap Avisos}
        => blandos' = {<<h, x>> : x \in propios'[h] \cap Avisos}
    BY <2>1, <2>3
  <2>5. ASSUME NEW g \in Hilos, g # h
        PROVE  /\ etapa'[g] = "nada" => propios'[g] = {}
               /\ ~(Corre(g)' /\ ~solape'[g])
    BY <1>2, <2>2, <2>3, <2>5 DEF InformeInv, ListaInv, Corre
  <2>6. ListaInv'
    <3>1. etapa'[h] # "nada"
      BY <1>2
    <3>2. trabajo[h] # "vivo" /\ ~solape'[h]
          => blandos' = {<<h, x>> : x \in propios'[h] \cap Avisos}
      BY <1>3, <2>2, <2>4 DEF InformeInv, ListaInv
    <3> QED
      BY <1>3, <2>5, <3>1, <3>2 DEF ListaInv
  <2>7. InformeFiel'
    BY <1>2, <1>3, <2>2, <2>3 DEF InformeInv, InformeFiel, Intacto
  <2> QED
    BY <2>6, <2>7 DEF InformeInv
<1>5. CASE etapa[h] \notin Blandas
  <2>1. UNCHANGED <<blandos, solape>>
        /\ propios'[h] = propios[h] \cup {Fuente(etapa[h])}
        /\ \A g \in Hilos : g # h => propios'[g] = propios[g]
    BY <1>3, <1>5 DEF Falla1
  <2>2. Fuente(etapa[h]) \notin Avisos
    BY <1>5, TragadaLema DEF Falla1, Pide
  <2>3. propios'[h] \cap Avisos = propios[h] \cap Avisos
    BY <2>1, <2>2
  <2> QED
    BY <1>2, <1>3, <2>1, <2>3, ListaLema
<1> QED
  BY <1>4, <1>5

LEMMA Lista_Recoge ==
    ASSUME TipoInv, InformeInv, NEW h \in Hilos, Recoge(h) PROVE InformeInv'
<1> USE DEF TipoInv, FuentesTypeOK
<1>1. /\ etapa[h] = "recoge" /\ etapa' = [etapa EXCEPT ![h] = "fin"]
      /\ avisos' = [avisos EXCEPT ![h] = blandos] /\ blandos' = {} /\ Toca(h)
      /\ UNCHANGED <<trabajo, propios>>
  BY DEF Recoge
<1>2. Corre(h)
  BY <1>1 DEF Corre, Acabado
<1>3. /\ solape'[h] = solape[h]
      /\ \A g \in Hilos : solape[g] => solape'[g]
      /\ \A g \in Hilos : g # h /\ Corre(g) => solape'[g]
  BY <1>1, TocaLema
<1>4. ListaInv'
  BY <1>1, <1>3 DEF InformeInv, ListaInv, Corre, Acabado
<1>5. InformeFiel'
  <2> SUFFICES ASSUME NEW g \in Hilos, etapa'[g] = "fin", trabajo[g] # "vivo", ~solape'[g]
               PROVE  avisos'[g] = {<<g, x>> : x \in propios[g] \cap Avisos}
    BY <1>1 DEF InformeFiel, Intacto
  <2>1. CASE g = h
    BY <1>1, <1>2, <1>3, <2>1 DEF InformeInv, ListaInv
  <2>2. CASE g # h
    BY <1>1, <1>3, <2>2 DEF InformeInv, InformeFiel, Intacto
  <2> QED
    BY <2>1, <2>2
<1> QED
  BY <1>4, <1>5 DEF InformeInv

LEMMA Lista_Hilo ==
    ASSUME TipoInv, InformeInv, NEW h \in Hilos, Hilo(h) PROVE InformeInv'
<1> USE DEF TipoInv, FuentesTypeOK
<1>1. CASE Contesta(h)
  <2>1. PICK e \in Sigue(h, TRUE) : Pasa(h, e)
    BY <1>1 DEF Contesta
  <2>2. /\ e \in Etapas \ {"nada", "creador"} /\ (trabajo[h] # "vivo" => e # "fin")
        /\ etapa'[h] = e /\ \A g \in Hilos : g # h => etapa'[g] = etapa[g]
    BY <1>1, <2>1, SigueLema, PasaLema DEF Contesta
  <2>3. Corre(h) /\ UNCHANGED <<trabajo, blandos, avisos, propios, solape>>
    BY <1>1 DEF Contesta, Pide, Corre, Blandas, Gecko, Otras, Acabado, compartido, testigos
  <2> QED
    BY <2>2, <2>3, ListaLema
<1>2. CASE Elige(h) \/ Pagina(h)
  <2>1. Corre(h) /\ UNCHANGED <<trabajo, blandos, avisos, solape>>
    BY <1>2 DEF Elige, Pagina, Corre, Acabado, compartido, testigos
  <2>2. /\ etapa'[h] \in {"elige", "creador", "recoge"}
        /\ \A g \in Hilos : g # h => etapa'[g] = etapa[g]
    BY <1>2 DEF Elige, Pagina, Guarda, Pasa
  <2>3. propios' = propios \/ propios' = [propios EXCEPT ![h] = @ \cup {"creador"}]
    BY <1>2 DEF Elige, Pagina, testigos
  <2>4. "creador" \notin Avisos
    BY TragadaLema DEF Otras
  <2>5. /\ \A g \in Hilos : g # h => propios'[g] = propios[g]
        /\ propios'[h] \cap Avisos = propios[h] \cap Avisos
    BY <2>3, <2>4
  <2> QED
    BY <2>1, <2>2, <2>5, ListaLema
<1>3. CASE Manda(h)
  <2>1. Corre(h) /\ UNCHANGED <<trabajo, blandos, avisos, propios, solape>> /\ trabajo[h] = "vivo"
    BY <1>3 DEF Manda, Corre, Acabado, compartido, testigos, EtapaInv
  <2>2. /\ etapa'[h] \in {"tick", "fin"}
        /\ \A g \in Hilos : g # h => etapa'[g] = etapa[g]
    BY <1>3 DEF Manda, Pasa
  <2> QED
    BY <2>1, <2>2, ListaLema
<1>4. CASE UNCHANGED <<trabajo, etapa, blandos, avisos, propios, solape>>
  BY <1>4 DEF InformeInv, ListaInv, InformeFiel, Intacto, Corre
<1>5. ASSUME Medir(h) \/ Enviar1(h) \/ Despierta(h) \/ \E como \in DOMAIN ESPERAS : Reintentar(h, como)
      PROVE  UNCHANGED <<trabajo, etapa, blandos, avisos, propios, solape>>
  BY <1>5 DEF Medir, Enviar1, Despierta, Reintentar, compartido, testigos
<1> QED
  BY <1>1, <1>2, <1>3, <1>4, <1>5, Lista_Falla, Lista_Recoge DEF Hilo

LEMMA Lista_Step == TipoInv /\ InformeInv /\ [NextFuentes]_varsFuentes => InformeInv'
<1> SUFFICES ASSUME TipoInv, InformeInv, [NextFuentes]_varsFuentes PROVE InformeInv'
  OBVIOUS
<1>1. CASE UNCHANGED <<trabajo, etapa, blandos, avisos, propios, solape>>
  BY <1>1 DEF InformeInv, ListaInv, InformeFiel, Intacto, Corre
<1>2. Reloj \/ UNCHANGED varsFuentes => UNCHANGED <<trabajo, etapa, blandos, avisos, propios, solape>>
  BY DEF Reloj, varsFuentes, hilo, compartido, testigos
<1> QED
  BY <1>1, <1>2, Lista_Empieza, Lista_Hilo DEF NextFuentes

\* A report that no other request disturbs names no failure of another and
\* loses none of its own that the code writes down, whatever was left in the
\* list before and whatever failure was swallowed (sources.py:35-42).
THEOREM Fuentes_InformeFiel == SpecFuentes => []InformeFiel
<1>1. InitFuentes => InformeInv
  BY DEF InitFuentes, InformeInv, ListaInv, InformeFiel, Intacto, Corre
<1>2. InformeInv => InformeFiel
  BY DEF InformeInv
<1> QED
  BY <1>1, <1>2, Tipo_Init, Tipo_Step, Lista_Step, PTL DEF SpecFuentes

-----------------------------------------------------------------------------
(* The caches of curves and graduations                                    *)

\* What a dictionary says is complete is complete.
Fieles(d, C) == \A n \in DOMAIN d : d[n].completa = "si" => d[n].mint \in C

CachesFieles == Fieles(curvaCache, completas) /\ Fieles(gradCache, completas)

\* So is what a suspended request carries: what it was told, what it keeps in
\* case the read fails, what the node saw.
TareasFieles ==
    \A p \in Peticiones :
        /\ tarea[p].paso # "libre"
        /\ tarea[p].graduado = "si" \/ tarea[p].guardado = "si" \/ tarea[p].visto = "si"
        => tarea[p].mint \in completas

IInv == TypeOK /\ CachesFieles /\ TareasFieles /\ GraduadoCierto

-----------------------------------------------------------------------------
(* The dictionaries                                                        *)

\* What is read from a dictionary, for each case of the key.
LEMMA GuardadoLema ==
    ASSUME NEW d \in Seq(Entradas), NEW m \in Mints
    PROVE  /\ Guardado(d, m) \in Saber
           /\ Tiene(d, m) => Guardado(d, m) \in Dato
           /\ \A C : Fieles(d, C) /\ Guardado(d, m) = "si" => m \in C
<1>1. CASE ~ Tiene(d, m)
  BY <1>1 DEF Guardado, Saber
<1>2. CASE Tiene(d, m)
  <2> DEFINE n == CHOOSE k \in DOMAIN d : d[k].mint = m
  <2>1. n \in DOMAIN d /\ d[n].mint = m
    BY <1>2 DEF Tiene
  <2>2. Guardado(d, m) = d[n].completa
    BY <1>2 DEF Guardado
  <2> HIDE DEF n
  <2>3. d[n] \in Entradas
    BY <2>1
  <2>4. Guardado(d, m) \in Dato
    BY <2>2, <2>3 DEF Entradas
  <2>5. \A C : Fieles(d, C) /\ Guardado(d, m) = "si" => m \in C
    BY <2>1, <2>2 DEF Fieles
  <2> QED BY <2>4, <2>5 DEF Saber, Dato
<1> QED BY <1>1, <1>2

\* Making room leaves a place and brings nothing new.
LEMMA ConSitioLema ==
    ASSUME NEW d \in Seq(Entradas), Len(d) <= TOKEN_CACHE_MAX
    PROVE  /\ ConSitio(d) \in Seq(Entradas)
           /\ Len(ConSitio(d)) + 1 <= TOKEN_CACHE_MAX
           /\ \A C : Fieles(d, C) => Fieles(ConSitio(d), C)
<1>0. TOKEN_CACHE_MAX \in Nat \ {0} /\ Len(d) \in Nat
  BY PlazosAssumption
<1>1. CASE Len(d) < TOKEN_CACHE_MAX
  BY <1>0, <1>1 DEF ConSitio
<1>2. CASE Len(d) = TOKEN_CACHE_MAX
  <2>1. ConSitio(d) = Tail(d) /\ d # <<>>
    BY <1>0, <1>2 DEF ConSitio
  <2>2. /\ Tail(d) \in Seq(Entradas) /\ Len(Tail(d)) = Len(d) - 1
        /\ \A n \in DOMAIN Tail(d) : n + 1 \in DOMAIN d /\ Tail(d)[n] = d[n + 1]
    BY <2>1
  <2>3. \A C : Fieles(d, C) => Fieles(Tail(d), C)
    BY <2>2 DEF Fieles
  <2> QED BY <1>0, <1>2, <2>1, <2>2, <2>3
<1> QED BY <1>0, <1>1, <1>2

\* An assignment takes at most one more place and brings the entry alone.
LEMMA AsignarLema ==
    ASSUME NEW d \in Seq(Entradas), NEW e \in Entradas
    PROVE  /\ Asignar(d, e) \in Seq(Entradas)
           /\ Len(Asignar(d, e)) <= Len(d) + 1
           /\ \A C : Fieles(d, C) /\ (e.completa = "si" => e.mint \in C) => Fieles(Asignar(d, e), C)
<1>1. CASE Tiene(d, e.mint)
  <2> DEFINE f == [n \in DOMAIN d |-> IF d[n].mint = e.mint THEN e ELSE d[n]]
  <2>1. Asignar(d, e) = f
    BY <1>1 DEF Asignar
  <2>2. Len(d) \in Nat /\ DOMAIN d = 1 .. Len(d) /\ \A n \in 1 .. Len(d) : d[n] \in Entradas
    OBVIOUS
  <2>3. f \in [1 .. Len(d) -> Entradas]
    BY <2>2
  <2>4. f \in Seq(Entradas) /\ Len(f) = Len(d)
    BY <2>2, <2>3
  <2>5. \A C : Fieles(d, C) /\ (e.completa = "si" => e.mint \in C) => Fieles(f, C)
    BY DEF Fieles
  <2> HIDE DEF f
  <2> QED BY <2>1, <2>2, <2>4, <2>5
<1>2. CASE ~ Tiene(d, e.mint)
  <2>1. Asignar(d, e) = Append(d, e)
    BY <1>2 DEF Asignar
  <2>2. /\ Append(d, e) \in Seq(Entradas) /\ Len(Append(d, e)) = Len(d) + 1
        /\ \A n \in DOMAIN Append(d, e) : Append(d, e)[n] = e \/ (n \in DOMAIN d /\ Append(d, e)[n] = d[n])
    OBVIOUS
  <2>3. \A C : Fieles(d, C) /\ (e.completa = "si" => e.mint \in C) => Fieles(Append(d, e), C)
    BY <2>2 DEF Fieles
  <2> QED BY <2>1, <2>2, <2>3
<1> QED BY <1>1, <1>2

\* A cache takes an entry within its bound and brings the entry alone.
LEMMA PonerLema ==
    ASSUME NEW d \in Seq(Entradas), NEW e \in Entradas, Len(d) <= TOKEN_CACHE_MAX
    PROVE  /\ Poner(d, e) \in Seq(Entradas)
           /\ Len(Poner(d, e)) <= TOKEN_CACHE_MAX
           /\ \A C : Fieles(d, C) /\ (e.completa = "si" => e.mint \in C) => Fieles(Poner(d, e), C)
<1> DEFINE s == ConSitio(d)
<1>1. /\ s \in Seq(Entradas) /\ Len(s) + 1 <= TOKEN_CACHE_MAX
      /\ \A C : Fieles(d, C) => Fieles(s, C)
  BY ConSitioLema
<1>2. Poner(d, e) = Asignar(s, e)
  BY DEF Poner
<1> HIDE DEF s
<1>3. /\ Asignar(s, e) \in Seq(Entradas) /\ Len(Asignar(s, e)) <= Len(s) + 1
      /\ \A C : Fieles(s, C) /\ (e.completa = "si" => e.mint \in C) => Fieles(Asignar(s, e), C)
  BY <1>1, AsignarLema
<1>4. Len(s) \in Nat /\ Len(Asignar(s, e)) \in Nat /\ TOKEN_CACHE_MAX \in Nat
  BY <1>1, <1>3, PlazosAssumption
<1> QED BY <1>1, <1>2, <1>3, <1>4

\* Forgetting a key brings nothing new.
LEMMA QuitarLema ==
    ASSUME NEW d \in Seq(Entradas), NEW m \in Mints
    PROVE  /\ Quitar(d, m) \in Seq(Entradas)
           /\ Len(Quitar(d, m)) <= Len(d)
           /\ \A C : Fieles(d, C) => Fieles(Quitar(d, m), C)
<1>1. CASE ~ Tiene(d, m)
  BY <1>1 DEF Quitar
<1>2. CASE Tiene(d, m)
  <2> DEFINE k == CHOOSE i \in DOMAIN d : d[i].mint = m
             a == SubSeq(d, 1, k - 1)
             b == SubSeq(d, k + 1, Len(d))
  <2>0. k \in 1 .. Len(d) /\ Len(d) \in Nat
    BY <1>2 DEF Tiene
  <2>1. Quitar(d, m) = a \o b
    BY <1>2 DEF Quitar
  <2> HIDE DEF k
  <2>2. a \in Seq(Entradas) /\ Len(a) = k - 1 /\ \A n \in 1 .. k - 1 : a[n] = d[n]
    BY <2>0
  <2>3. b \in Seq(Entradas) /\ Len(b) = Len(d) - k /\ \A n \in 1 .. Len(d) - k : b[n] = d[n + k]
    BY <2>0
  <2> HIDE DEF a, b
  <2>8. /\ a \o b \in Seq(Entradas) /\ Len(a \o b) = Len(a) + Len(b)
        /\ \A n \in 1 .. Len(a) + Len(b) :
              (a \o b)[n] = IF n <= Len(a) THEN a[n] ELSE b[n - Len(a)]
    BY <2>2, <2>3, ConcatProperties
  <2>4. a \o b \in Seq(Entradas) /\ Len(a \o b) = Len(d) - 1
    BY <2>0, <2>2, <2>3, <2>8
  <2>5. \A n \in 1 .. Len(d) - 1 : (a \o b)[n] = IF n < k THEN a[n] ELSE b[n - (k - 1)]
    <3>1. Len(a) + Len(b) = Len(d) - 1 /\ \A n \in Int : (n <= Len(a)) <=> (n < k)
      BY <2>0, <2>2, <2>3
    <3> QED BY <2>0, <2>2, <2>8, <3>1
  <2>6. ASSUME NEW n \in 1 .. Len(d) - 1
        PROVE  \E i \in DOMAIN d : (a \o b)[n] = d[i]
    <3>1. CASE n < k
      <4>1. n \in 1 .. k - 1 /\ n \in DOMAIN d
        BY <2>0, <3>1
      <4>2. (a \o b)[n] = a[n]
        BY <2>5, <3>1
      <4> QED BY <2>2, <4>1, <4>2
    <3>2. CASE ~ n < k
      <4>1. n - (k - 1) \in 1 .. Len(d) - k
        BY <2>0, <3>2
      <4>2. (a \o b)[n] = b[n - (k - 1)]
        BY <2>5, <3>2
      <4>4. b[n - (k - 1)] = d[n - (k - 1) + k]
        BY <2>3, <4>1
      <4>5. n - (k - 1) + k = n + 1
        BY <2>0
      <4>3. n + 1 \in DOMAIN d
        BY <2>0
      <4> QED BY <4>2, <4>3, <4>4, <4>5
    <3> QED BY <3>1, <3>2
  <2>7. \A C : Fieles(d, C) => Fieles(a \o b, C)
    <3>1. DOMAIN (a \o b) = 1 .. Len(d) - 1
      BY <2>0, <2>4
    <3> SUFFICES ASSUME NEW C, Fieles(d, C), NEW n \in DOMAIN (a \o b),
                        (a \o b)[n].completa = "si"
                 PROVE  (a \o b)[n].mint \in C
      BY DEF Fieles
    <3>2. PICK i \in DOMAIN d : (a \o b)[n] = d[i]
      BY <2>6, <3>1
    <3> QED BY <3>2 DEF Fieles
  <2> QED BY <2>0, <2>1, <2>4, <2>7
<1> QED BY <1>1, <1>2

\* Time changes no key and no datum.
LEMMA EnvejecerLema ==
    ASSUME NEW d \in Seq(Entradas)
    PROVE  LET f == [n \in DOMAIN d |-> Envejecida(d[n])] IN
           /\ f \in Seq(Entradas)
           /\ Len(f) = Len(d)
           /\ \A C : Fieles(d, C) => Fieles(f, C)
<1> DEFINE f == [n \in DOMAIN d |-> Envejecida(d[n])]
<1>1. Len(d) \in Nat /\ DOMAIN d = 1 .. Len(d) /\ \A n \in 1 .. Len(d) : d[n] \in Entradas
  OBVIOUS
<1>2. ASSUME NEW e \in Entradas
      PROVE  /\ Envejecida(e) \in Entradas
             /\ Envejecida(e).mint = e.mint /\ Envejecida(e).completa = e.completa
  BY PlazosAssumption DEF Envejecida, Entradas, Edades
<1>3. f \in [1 .. Len(d) -> Entradas]
  BY <1>1, <1>2
<1>4. f \in Seq(Entradas) /\ Len(f) = Len(d)
  BY <1>1, <1>3
<1>5. \A C : Fieles(d, C) => Fieles(f, C)
  BY <1>1, <1>2 DEF Fieles
<1> QED BY <1>4, <1>5

-----------------------------------------------------------------------------
(* The invariant                                                           *)

Esperas ==
    [paso : {"graduacion", "curva"}, mint : Mints, graduado : Saber, guardado : Saber,
     edad : Edades, visto : Saber]

\* What a request may carry.
Fiel(t, C) ==
    t.graduado = "si" \/ t.guardado = "si" \/ t.visto = "si" => t.mint \in C

\* A read that is sent carries what it was given.
LEMMA LecturaLema ==
    ASSUME NEW paso \in {"graduacion", "curva"}, NEW m \in Mints, NEW g \in Saber, NEW h \in Saber
    PROVE  /\ Lectura(paso, m, g, h) \in Esperas
           /\ \A C : (g = "si" \/ h = "si" => m \in C) => Fiel(Lectura(paso, m, g, h), C)
BY PlazosAssumption DEF Lectura, Esperas, Saber, Edades, Fiel

\* What a suspended request carries, from the invariant.
LEMMA EsperaLema ==
    ASSUME IInv, NEW p \in Peticiones, tarea[p].paso # "libre"
    PROVE  tarea[p] \in Esperas /\ Fiel(tarea[p], completas)
<1>1. tarea[p] \in Esperas
  BY DEF IInv, TypeOK, Suspendidas, Libre, Esperas
<1> QED BY <1>1 DEF IInv, TareasFieles, Fiel

\* A request suspends on a faithful read and changes nothing else.
LEMMA EsperarLema ==
    ASSUME TypeOK, TareasFieles, GraduadoCierto, completas' = completas,
           NEW p \in Peticiones, NEW t \in Esperas, Fiel(t, completas), Esperar(p, t)
    PROVE  /\ tarea' \in [Peticiones -> Suspendidas] /\ TareasFieles'
           /\ respuesta' = respuesta /\ GraduadoCierto'
<1>1. tarea' = [tarea EXCEPT ![p] = t] /\ respuesta' = respuesta
  BY DEF Esperar
<1>2. tarea' \in [Peticiones -> Suspendidas]
  BY <1>1 DEF TypeOK, Suspendidas, Esperas
<1>3. TareasFieles'
  BY <1>1 DEF TypeOK, TareasFieles, Fiel
<1> QED BY <1>1, <1>2, <1>3 DEF GraduadoCierto, Responde

\* A request that answers the truth frees its place and changes nothing else.
LEMMA ContestarLema ==
    ASSUME TypeOK, TareasFieles, completas' = completas,
           NEW p \in Peticiones, NEW m \in Mints, NEW g \in Saber, g = "si" => m \in completas,
           Contestar(p, m, g)
    PROVE  /\ tarea' \in [Peticiones -> Suspendidas] /\ TareasFieles'
           /\ respuesta' \in [paso : {"vista"}, mint : Mints, graduado : Saber] /\ GraduadoCierto'
<1>1. /\ tarea' = [tarea EXCEPT ![p] = Libre]
      /\ respuesta' = [paso |-> "vista", mint |-> m, graduado |-> g]
  BY DEF Contestar
<1>2. tarea' \in [Peticiones -> Suspendidas]
  BY <1>1 DEF TypeOK, Suspendidas
<1>3. TareasFieles'
  BY <1>1 DEF TypeOK, TareasFieles, Libre
<1>4. GraduadoCierto'
  BY <1>1 DEF GraduadoCierto, Responde
<1> QED BY <1>1, <1>2, <1>3, <1>4

\* The part of the invariant that the requests and the answer carry.
TareasInv ==
    /\ tarea \in [Peticiones -> Suspendidas]
    /\ TareasFieles
    /\ \/ respuesta = Libre
       \/ respuesta \in [paso : {"vista"}, mint : Mints, graduado : Saber]
    /\ GraduadoCierto

\* The second question of token_live, with a true answer to the first.
LEMMA PedirCurvaLema ==
    ASSUME IInv, completas' = completas, NEW p \in Peticiones, NEW m \in Mints, NEW g \in Saber,
           g = "si" => m \in completas, PedirCurva(p, m, g)
    PROVE  TareasInv'
<1>1. CASE CurvaVigente(m)
  <2>1. Contestar(p, m, g)
    BY <1>1 DEF PedirCurva
  <2> QED BY <2>1, ContestarLema DEF IInv, TareasInv
<1>2. CASE ~ CurvaVigente(m)
  <2>1. Esperar(p, Lectura("curva", m, g, "nada"))
    BY <1>2 DEF PedirCurva
  <2>2. /\ Lectura("curva", m, g, "nada") \in Esperas
        /\ Fiel(Lectura("curva", m, g, "nada"), completas)
    BY LecturaLema DEF Saber
  <2>3. tarea' \in [Peticiones -> Suspendidas] /\ TareasFieles' /\ respuesta' = respuesta /\ GraduadoCierto'
    BY <2>1, <2>2, EsperarLema DEF IInv
  <2> QED BY <2>3 DEF IInv, TypeOK, TareasInv
<1> QED BY <1>1, <1>2

\* The part of the invariant about one cache.
CacheInv(d) == d \in Seq(Entradas) /\ Len(d) <= TOKEN_CACHE_MAX /\ Fieles(d, completas)

\* The invariant, by its parts.
LEMMA PartesLema ==
    IInv <=> completas \subseteq Mints /\ CacheInv(curvaCache) /\ CacheInv(gradCache) /\ TareasInv
BY DEF IInv, TypeOK, CachesFieles, CacheInv, TareasInv

\* A true entry keeps its cache true.
LEMMA PonerCacheLema ==
    ASSUME NEW d, CacheInv(d), NEW m \in Mints, NEW x \in Dato, NEW e \in Edades,
           x = "si" => m \in completas
    PROVE  /\ Poner(d, Entrada(m, x, e)) \in Seq(Entradas)
           /\ Len(Poner(d, Entrada(m, x, e))) <= TOKEN_CACHE_MAX
           /\ Fieles(Poner(d, Entrada(m, x, e)), completas)
<1>1. /\ Entrada(m, x, e) \in Entradas
      /\ Entrada(m, x, e).completa = x /\ Entrada(m, x, e).mint = m
  BY DEF Entrada, Entradas
<1>2. d \in Seq(Entradas) /\ Len(d) <= TOKEN_CACHE_MAX /\ Fieles(d, completas)
  BY DEF CacheInv
<1> HIDE DEF CacheInv
<1> QED BY <1>1, <1>2, PonerLema

-----------------------------------------------------------------------------
(* The steps                                                               *)

\* A cache that does not change stays true while what completes only grows.
LEMMA CacheIgualLema ==
    ASSUME NEW d, CacheInv(d), completas \subseteq completas'
    PROVE  /\ d \in Seq(Entradas) /\ Len(d) <= TOKEN_CACHE_MAX
           /\ Fieles(d, completas')
BY DEF CacheInv, Fieles

\* token_live keeps the invariant, whichever cache answers.
LEMMA PedirLema == ASSUME IInv, NEW p \in Peticiones, NEW m \in Mints, Pedir(p, m) PROVE IInv'
<1>0. /\ completas \subseteq Mints /\ CacheInv(curvaCache) /\ CacheInv(gradCache) /\ TareasInv
      /\ curvaCache \in Seq(Entradas) /\ Fieles(curvaCache, completas)
      /\ gradCache \in Seq(Entradas) /\ Fieles(gradCache, completas)
  BY PartesLema DEF CacheInv
<1>1. CASE PedirConGraduacion(p, m)
  <2>1. completas' = completas /\ curvaCache' = curvaCache /\ gradCache' = gradCache
    BY <1>1 DEF PedirConGraduacion, caches
  <2>2. /\ Guardado(gradCache, m) \in Saber
        /\ Guardado(gradCache, m) = "si" => m \in completas
    BY <1>0, GuardadoLema
  <2>3. TareasInv'
    BY <1>1, <2>1, <2>2, PedirCurvaLema DEF PedirConGraduacion
  <2> QED BY <1>0, <2>1, <2>3, PartesLema DEF IInv, TypeOK, CachesFieles, TareasInv
<1>2. CASE PedirConCurva(p, m)
  <2> DEFINE x == Guardado(curvaCache, m)
  <2>1. /\ completas' = completas /\ curvaCache' = curvaCache
        /\ gradCache' = Poner(gradCache, Entrada(m, x, 0))
        /\ Contestar(p, m, x)
    BY <1>2 DEF PedirConCurva
  <2>2. Tiene(curvaCache, m)
    BY <1>2 DEF PedirConCurva, CurvaVigente, Tiene
  <2>3. x \in Dato /\ x \in Saber /\ (x = "si" => m \in completas)
    BY <1>0, <2>2, GuardadoLema
  <2> HIDE DEF x
  <2>4. 0 \in Edades
    BY PlazosAssumption DEF Edades
  <2>5. /\ gradCache' \in Seq(Entradas) /\ Len(gradCache') <= TOKEN_CACHE_MAX
        /\ Fieles(gradCache', completas)
    BY <1>0, <2>1, <2>3, <2>4, PonerCacheLema
  <2>6. TareasInv'
    BY <2>1, <2>3, ContestarLema DEF IInv, TareasInv
  <2> QED BY <1>0, <2>1, <2>5, <2>6 DEF IInv, TypeOK, CachesFieles, TareasInv
<1>3. CASE PedirSinNada(p, m)
  <2> DEFINE t == Lectura("graduacion", m, "nada", Guardado(curvaCache, m))
  <2>1. /\ completas' = completas /\ curvaCache' = curvaCache /\ gradCache' = gradCache
        /\ Esperar(p, t)
    BY <1>3 DEF PedirSinNada, caches
  <2>2. /\ Guardado(curvaCache, m) \in Saber
        /\ Guardado(curvaCache, m) = "si" => m \in completas
    BY <1>0, GuardadoLema
  <2>3. t \in Esperas /\ Fiel(t, completas)
    BY <2>2, LecturaLema DEF Saber
  <2> HIDE DEF t
  <2>4. tarea' \in [Peticiones -> Suspendidas] /\ TareasFieles' /\ respuesta' = respuesta /\ GraduadoCierto'
    BY <2>1, <2>3, EsperarLema DEF IInv
  <2> QED BY <1>0, <2>1, <2>4 DEF IInv, TypeOK, CachesFieles
<1> QED BY <1>1, <1>2, <1>3 DEF Pedir

\* An answer that arrives is as true as what the node saw.
LEMMA LlegarLema ==
    ASSUME IInv, NEW p \in Peticiones, LlegarGraduacion(p) \/ LlegarCurva(p)
    PROVE  IInv'
<1> DEFINE t == tarea[p]
<1>0. /\ completas \subseteq Mints /\ CacheInv(curvaCache) /\ CacheInv(gradCache) /\ TareasInv
      /\ gradCache \in Seq(Entradas) /\ Fieles(gradCache, completas)
      /\ Len(gradCache) <= TOKEN_CACHE_MAX
  BY PartesLema DEF CacheInv
<1>1. t \in Esperas /\ Fiel(t, completas) /\ t.visto # "nada"
  BY EsperaLema DEF LlegarGraduacion, LlegarCurva
<1>2. /\ t.mint \in Mints /\ t.visto \in Dato /\ t.visto \in Saber /\ t.graduado \in Saber
      /\ t.edad \in Edades /\ 0 \in Edades
      /\ t.visto = "si" => t.mint \in completas
      /\ t.graduado = "si" => t.mint \in completas
  BY <1>1, PlazosAssumption DEF Esperas, Fiel, Saber, Dato, Edades
<1>3. completas' = completas /\ curvaCache' = Poner(curvaCache, Entrada(t.mint, t.visto, 0))
  BY DEF LlegarGraduacion, LlegarCurva
<1>4. \/ /\ gradCache' = Poner(gradCache, Entrada(t.mint, t.visto, t.edad))
         /\ Contestar(p, t.mint, t.visto)
      \/ gradCache' = gradCache /\ Contestar(p, t.mint, t.graduado)
  BY DEF LlegarGraduacion, LlegarCurva
<1> HIDE DEF t
<1>5. /\ curvaCache' \in Seq(Entradas) /\ Len(curvaCache') <= TOKEN_CACHE_MAX
      /\ Fieles(curvaCache', completas)
  BY <1>0, <1>2, <1>3, PonerCacheLema
<1>6. /\ gradCache' \in Seq(Entradas) /\ Len(gradCache') <= TOKEN_CACHE_MAX
      /\ Fieles(gradCache', completas)
  BY <1>0, <1>2, <1>4, PonerCacheLema
<1>7. TareasInv'
  BY <1>2, <1>3, <1>4, ContestarLema DEF IInv, TareasInv
<1> QED BY <1>0, <1>3, <1>5, <1>6, <1>7 DEF IInv, TypeOK, CachesFieles, TareasInv

\* A read that fails answers with what it kept.
LEMMA FallarLema ==
    ASSUME IInv, NEW p \in Peticiones, FallarGraduacion(p) \/ FallarCurva(p) \/ NoHayCurva(p)
    PROVE  IInv'
<1> DEFINE t == tarea[p]
<1>0. /\ completas \subseteq Mints /\ CacheInv(curvaCache) /\ CacheInv(gradCache) /\ TareasInv
      /\ curvaCache \in Seq(Entradas) /\ Fieles(curvaCache, completas)
      /\ Len(curvaCache) <= TOKEN_CACHE_MAX
      /\ gradCache \in Seq(Entradas) /\ Fieles(gradCache, completas)
      /\ Len(gradCache) <= TOKEN_CACHE_MAX
  BY PartesLema DEF CacheInv
<1>1. t \in Esperas /\ Fiel(t, completas)
  BY EsperaLema DEF FallarGraduacion, FallarCurva, NoHayCurva
<1>2. /\ t.mint \in Mints /\ t.guardado \in Saber /\ t.graduado \in Saber /\ t.edad \in Edades
      /\ t.guardado = "si" => t.mint \in completas
      /\ t.graduado = "si" => t.mint \in completas
      /\ "nada" \in Saber
  BY <1>1 DEF Esperas, Fiel, Saber
<1>3. completas' = completas /\ curvaCache' = curvaCache
  BY DEF FallarGraduacion, FallarCurva, NoHayCurva, caches
<1>4. /\ \/ gradCache' = gradCache
         \/ t.guardado # "nada" /\ gradCache' = Poner(gradCache, Entrada(t.mint, t.guardado, t.edad))
      /\ \/ PedirCurva(p, t.mint, t.guardado)
         \/ PedirCurva(p, t.mint, "nada")
         \/ Contestar(p, t.mint, t.graduado)
  BY DEF FallarGraduacion, FallarCurva, NoHayCurva, caches
<1> HIDE DEF t
<1>5. t.guardado # "nada" => t.guardado \in Dato
  BY <1>2 DEF Saber, Dato
<1>6. /\ gradCache' \in Seq(Entradas) /\ Len(gradCache') <= TOKEN_CACHE_MAX
      /\ Fieles(gradCache', completas)
  BY <1>0, <1>2, <1>4, <1>5, PonerCacheLema
<1>7. CASE PedirCurva(p, t.mint, t.guardado) \/ PedirCurva(p, t.mint, "nada")
  <2>1. TareasInv'
    BY <1>2, <1>3, <1>7, PedirCurvaLema
  <2> QED BY <1>0, <1>3, <1>6, <2>1 DEF IInv, TypeOK, CachesFieles, TareasInv
<1>8. CASE Contestar(p, t.mint, t.graduado)
  <2>1. TareasInv'
    BY <1>2, <1>3, <1>8, ContestarLema DEF IInv, TareasInv
  <2> QED BY <1>0, <1>3, <1>6, <2>1 DEF IInv, TypeOK, CachesFieles, TareasInv
<1> QED BY <1>4, <1>7, <1>8

\* The environment: what completes stays complete, and the node sees the chain.
LEMMA EntornoLema ==
    ASSUME IInv,
           \/ \E m \in Mints : Olvidar(m) \/ Completar(m)
           \/ \E p \in Peticiones : Mirar(p)
           \/ PasarTiempo
    PROVE  IInv'
<1>0. /\ completas \subseteq Mints /\ CacheInv(curvaCache) /\ CacheInv(gradCache) /\ TareasInv
      /\ curvaCache \in Seq(Entradas) /\ Fieles(curvaCache, completas)
      /\ Len(curvaCache) <= TOKEN_CACHE_MAX
      /\ gradCache \in Seq(Entradas) /\ Fieles(gradCache, completas)
      /\ Len(gradCache) <= TOKEN_CACHE_MAX
  BY PartesLema DEF CacheInv
<1>1. ASSUME NEW m \in Mints, Olvidar(m) PROVE IInv'
  <2>1. /\ completas' = completas /\ curvaCache' = curvaCache /\ tarea' = tarea
        /\ respuesta' = respuesta /\ gradCache' = Quitar(gradCache, m)
    BY <1>1 DEF Olvidar
  <2>2. /\ gradCache' \in Seq(Entradas) /\ Len(gradCache') <= Len(gradCache)
        /\ Fieles(gradCache', completas)
    BY <1>0, <2>1, QuitarLema
  <2>3. Len(gradCache') <= TOKEN_CACHE_MAX
    BY <1>0, <2>2, PlazosAssumption
  <2> QED BY <1>0, <2>1, <2>2, <2>3 DEF IInv, TypeOK, CachesFieles, TareasFieles, GraduadoCierto, Responde
<1>2. ASSUME NEW m \in Mints, Completar(m) PROVE IInv'
  <2>1. /\ completas' = completas \cup {m} /\ curvaCache' = curvaCache /\ gradCache' = gradCache
        /\ tarea' = tarea /\ respuesta' = respuesta
    BY <1>2 DEF Completar, caches
  <2>2. Fieles(curvaCache, completas') /\ Fieles(gradCache, completas')
    BY <1>0, <2>1 DEF Fieles
  <2> QED BY <1>0, <2>1, <2>2 DEF IInv, TypeOK, CachesFieles, TareasFieles, GraduadoCierto, Responde
<1>3. ASSUME NEW p \in Peticiones, Mirar(p) PROVE IInv'
  <2> DEFINE v == IF tarea[p].mint \in completas THEN "si" ELSE "no"
             t == [tarea[p] EXCEPT !.visto = v]
  <2>1. /\ completas' = completas /\ curvaCache' = curvaCache /\ gradCache' = gradCache
        /\ respuesta' = respuesta /\ tarea' = [tarea EXCEPT ![p] = t]
    BY <1>3 DEF Mirar, caches
  <2>2. tarea[p] \in Esperas /\ Fiel(tarea[p], completas)
    BY <1>3, EsperaLema DEF Mirar
  <2>3. t \in Esperas /\ Fiel(t, completas)
    BY <2>2 DEF Esperas, Fiel, Saber
  <2> HIDE DEF t
  <2>4. tarea' \in [Peticiones -> Suspendidas]
    BY <1>0, <2>1, <2>3 DEF TareasInv, Suspendidas, Esperas
  <2>5. TareasFieles'
    BY <1>0, <2>1, <2>3 DEF TareasInv, TareasFieles, Fiel
  <2> QED BY <1>0, <2>1, <2>4, <2>5 DEF IInv, TypeOK, CachesFieles, GraduadoCierto, Responde
<1>4. ASSUME PasarTiempo PROVE IInv'
  <2>1. /\ completas' = completas /\ respuesta' = respuesta
        /\ curvaCache' = [n \in DOMAIN curvaCache |-> Envejecida(curvaCache[n])]
        /\ gradCache' = [n \in DOMAIN gradCache |-> Envejecida(gradCache[n])]
        /\ tarea' = [p \in Peticiones |->
                       IF tarea[p].paso = "graduacion" THEN Envejecida(tarea[p]) ELSE tarea[p]]
    BY <1>4 DEF PasarTiempo
  <2>2. /\ curvaCache' \in Seq(Entradas) /\ Len(curvaCache') <= TOKEN_CACHE_MAX
        /\ Fieles(curvaCache', completas)
    BY <1>0, <2>1, EnvejecerLema
  <2>3. /\ gradCache' \in Seq(Entradas) /\ Len(gradCache') <= TOKEN_CACHE_MAX
        /\ Fieles(gradCache', completas)
    BY <1>0, <2>1, EnvejecerLema
  <2>4. ASSUME NEW t \in Esperas
        PROVE  /\ Envejecida(t) \in Esperas /\ Envejecida(t).paso = t.paso
               /\ Envejecida(t).mint = t.mint /\ Envejecida(t).graduado = t.graduado
               /\ Envejecida(t).guardado = t.guardado /\ Envejecida(t).visto = t.visto
    BY PlazosAssumption DEF Envejecida, Esperas, Edades
  <2>5. ASSUME NEW p \in Peticiones
        PROVE  /\ tarea'[p] \in Suspendidas
               /\ tarea'[p].paso # "libre" => Fiel(tarea'[p], completas)
    <3>1. tarea[p] \in Suspendidas /\ tarea'[p] = IF tarea[p].paso = "graduacion" THEN Envejecida(tarea[p]) ELSE tarea[p]
      BY <1>0, <2>1 DEF TareasInv
    <3>2. CASE tarea[p].paso = "libre"
      BY <3>1, <3>2
    <3>3. CASE tarea[p].paso # "libre"
      <4>1. tarea[p] \in Esperas /\ Fiel(tarea[p], completas)
        BY <3>3, EsperaLema
      <4>2. tarea'[p] \in Esperas /\ Fiel(tarea'[p], completas)
        BY <2>4, <3>1, <4>1 DEF Fiel
      <4> QED BY <4>2 DEF Suspendidas, Esperas
    <3> QED BY <3>2, <3>3
  <2>6. tarea' \in [Peticiones -> Suspendidas]
    BY <2>1, <2>5
  <2>7. TareasFieles'
    BY <2>1, <2>5 DEF TareasFieles, Fiel
  <2> QED BY <1>0, <2>1, <2>2, <2>3, <2>6, <2>7 DEF IInv, TypeOK, CachesFieles, GraduadoCierto, Responde
<1> QED BY <1>1, <1>2, <1>3, <1>4

-----------------------------------------------------------------------------
(* The theorems                                                            *)

\* Nothing is known at first.
LEMMA InitLema == Init => IInv
<1> SUFFICES ASSUME Init PROVE IInv
  OBVIOUS
<1>1. <<>> \in Seq(Entradas) /\ Len(<<>>) = 0 /\ \A C : Fieles(<<>>, C)
  BY DEF Fieles
<1>2. curvaCache = <<>> /\ gradCache = <<>> /\ completas = {} /\ respuesta = Libre
      /\ tarea = [p \in Peticiones |-> Libre]
  BY DEF Init
<1>3. 0 <= TOKEN_CACHE_MAX
  BY PlazosAssumption
<1>4. TypeOK /\ CachesFieles
  BY <1>1, <1>2, <1>3 DEF TypeOK, CachesFieles, Suspendidas
<1>5. TareasFieles /\ GraduadoCierto
  BY <1>2 DEF TareasFieles, GraduadoCierto, Responde, Libre
<1> QED BY <1>4, <1>5 DEF IInv

\* The strengthened invariant is inductive.
LEMMA PasoLema == IInv /\ [Next]_vars => IInv'
<1> SUFFICES ASSUME IInv, [Next]_vars PROVE IInv'
  OBVIOUS
<1>1. CASE UNCHANGED vars
  BY <1>1 DEF vars, caches, IInv, TypeOK, CachesFieles, TareasFieles, GraduadoCierto, Responde
<1>2. CASE Next
  BY <1>2, PedirLema, LlegarLema, FallarLema, EntornoLema DEF Next
<1> QED BY <1>1, <1>2

\* The invariant holds of every behaviour.
LEMMA InvLema == Spec => []IInv
BY InitLema, PasoLema, PTL DEF Spec

\* Both caches stay within TOKEN_CACHE_MAX and every request carries what
\* trade.py puts in it.
THEOREM Curvas_TypeOK == Spec => []TypeOK
<1>1. IInv => TypeOK
  BY DEF IInv
<1> QED BY <1>1, InvLema, PTL

\* However reads cross, fail or come late, no token is shown as graduated
\* while its curve is open.
THEOREM Curvas_GraduadoCierto == Spec => []GraduadoCierto
<1>1. IInv => GraduadoCierto
  BY DEF IInv
<1> QED BY <1>1, InvLema, PTL

-----------------------------------------------------------------------------
(* The forecast: the order of finite sets                                  *)

\* A finite set of integers has one in each place of their order.
LEMMA PuestoLema ==
    ASSUME NEW S \in SUBSET Int, IsFiniteSet(S), NEW n \in 1 .. Cardinality(S)
    PROVE  \E b \in S : Cardinality({c \in S : c <= b}) = n
<1> DEFINE Vale(s) == \A k \in 1 .. Cardinality(s) : \E b \in s : Cardinality({c \in s : c <= b}) = k
           F == {s \in SUBSET S : Vale(s)}
<1>1. {} \in F
  <2>1. Cardinality({}) = 0
    BY FS_EmptySet
  <2> QED
    BY <2>1
<1>2. ASSUME NEW s \in SUBSET S, s # {}, \A x \in s : s \ {x} \in F PROVE s \in F
  <2> DEFINE m == Max(s)
             r == s \ {m}
  <2>1. IsFiniteSet(s)
    BY FS_Subset
  <2>2. m \in s /\ \A y \in s : y <= m
    BY <1>2, <2>1, MaxLema
  <2>3. Vale(r)
    BY <1>2, <2>2
  <2>4. Cardinality(s) \in Nat /\ Cardinality(r) = Cardinality(s) - 1
    <3> HIDE DEF m
    <3> QED BY <2>1, <2>2, FS_CardinalityType, FS_RemoveElement
  <2> SUFFICES ASSUME NEW k \in 1 .. Cardinality(s)
               PROVE  \E b \in s : Cardinality({c \in s : c <= b}) = k
    BY DEF F
  <2>5. CASE k = Cardinality(s)
    <3>1. {c \in s : c <= m} = s
      BY <2>2
    <3> QED
      BY <2>2, <2>5, <3>1
  <2>6. CASE k # Cardinality(s)
    <3>1. k \in 1 .. Cardinality(r)
      BY <2>4, <2>6
    <3>2. PICK b \in r : Cardinality({c \in r : c <= b}) = k
      BY <2>3, <3>1
    <3>3. b \in Int /\ m \in Int /\ b <= m /\ b # m /\ b \in s
      BY <2>2, <3>2
    <3>4. {c \in r : c <= b} = {c \in s : c <= b}
      BY <3>3
    <3> QED
      BY <3>2, <3>3, <3>4
  <2> QED
    BY <2>5, <2>6
<1>3. S \in F
  <2> HIDE DEF F
  <2>1. \A s \in SUBSET S : s \in F
    BY <1>1, <1>2, InducirPartes
  <2> QED
    BY <2>1
<1> QED
  BY <1>3

\* The next entry of the table, and its inverse.
LEMMA CrecerLema ==
    ASSUME NEW x \in Nat
    PROVE  /\ (x * 11052) \div 10000 \in Nat /\ x <= (x * 11052) \div 10000
           /\ 10000 * ((x * 11052) \div 10000) <= 11052 * x
OBVIOUS

\* The inverse of an entry.
LEMMA DivLema ==
    ASSUME NEW x \in Nat, 1000 <= x, x <= 1000 * 1000
    PROVE  (1000 * 1000) \div x \in Nat /\ (1000 * 1000) \div x >= 1
OBVIOUS

\* int(a / b) is within one of the quotient.
LEMMA TruncadoLema ==
    ASSUME NEW a \in Int, NEW b \in Nat \ {0}
    PROVE  /\ Truncado(a, b) \in Int /\ a - b < b * Truncado(a, b) /\ b * Truncado(a, b) < a + b
           /\ a >= 0 => Truncado(a, b) >= 0 /\ b * Truncado(a, b) <= a
           /\ a <= 0 => Truncado(a, b) <= 0 /\ b * Truncado(a, b) >= a
           /\ Truncado(0, b) = 0
<1>0. Truncado(0, b) = 0
  BY DEF Truncado
<1>1. \A n \in Nat : n \div b \in Nat /\ b * (n \div b) <= n /\ n < b * (n \div b) + b
  <2> TAKE n \in Nat
  <2> DEFINE q == n \div b
  <2>1. q \in Int /\ n = b * q + (n % b) /\ n % b \in 0 .. b - 1
    OBVIOUS
  <2>2. q >= 0
    <3> SUFFICES ASSUME q < 0 PROVE FALSE
      BY <2>1
    <3>1. q <= -1
      BY <2>1
    <3>2. b * q <= -b
      <4> HIDE DEF q
      <4> QED BY <2>1, <3>1
    <3> HIDE DEF q
    <3> QED
      BY <2>1, <3>2
  <2> QED
    BY <2>1, <2>2
<1>2. CASE a >= 0
  <2>1. a \in Nat /\ Truncado(a, b) = a \div b
    BY <1>2 DEF Truncado
  <2> DEFINE q == a \div b
  <2>2. q \in Nat /\ b * q <= a /\ a < b * q + b
    BY <1>1, <2>1
  <2>3. a - b < b * q /\ b * q < a + b /\ q >= 0 /\ (a <= 0 => b * q >= a /\ q <= 0)
    <3>1. b * q \in Nat
      BY <2>2
    <3>2. a <= 0 => b * q = 0 /\ a = 0
      BY <1>2, <2>2, <3>1
    <3>3. b * q = 0 => q = 0
      <4> HIDE DEF q
      <4> QED BY <2>2
    <3> HIDE DEF q
    <3> QED
      BY <2>2, <3>1, <3>2, <3>3
  <2> HIDE DEF q
  <2>4. Truncado(a, b) = q
    BY <2>1 DEF q
  <2> QED
    BY <1>0, <1>2, <2>2, <2>3, <2>4
<1>3. CASE a < 0
  <2> DEFINE n == 0 - a
             q == n \div b
  <2>1. n \in Nat /\ -a = n
    BY <1>3
  <2>2. Truncado(a, b) = -q
    BY <1>3, <2>1 DEF Truncado
  <2>3. q \in Nat /\ b * q <= n /\ n < b * q + b
    <3> HIDE DEF n
    <3> QED BY <1>1, <2>1
  <2> HIDE DEF q
  <2>4. -q \in Int /\ -q = 0 - q /\ b * (0 - q) = 0 - b * q
    BY <2>3
  <2>5. /\ -q <= 0 /\ b * (-q) >= a /\ a - b < b * (-q) /\ b * (-q) < a + b
    BY <1>3, <2>3, <2>4
  <2> DEFINE r == -q
             p == b * r
  <2>6. Truncado(a, b) = r /\ b * Truncado(a, b) = p /\ r \in Int /\ r <= 0 /\ p >= a /\ a - b < p /\ p < a + b
    BY <2>2, <2>4, <2>5
  <2> HIDE DEF r, p
  <2> QED
    BY <1>0, <1>3, <2>6
<1> QED
  BY <1>2, <1>3

-----------------------------------------------------------------------------
(* The table of exponentials                                               *)

\* What the recursion of the table says of each entry.
EntradaE(e, n) ==
    IF n = 0 THEN 1000
    ELSE IF n > 0 THEN (e[n - 1] * 11052) \div 10000
    ELSE (1000 * 1000) \div e[-n]

\* The table of exponentials is positive, and grows.
LEMMA ELema ==
    /\ E \in [-40 .. 40 -> Nat \ {0}] /\ E[0] = 1000
    /\ \A n \in 1 .. 40 : E[n] = (E[n - 1] * 11052) \div 10000 /\ E[n - 1] <= E[n]
<1> DEFINE Dom == -40 .. 40
           Es(e) == e = [n \in Dom |-> EntradaE(e, n)]
<1>1. \E p \in [0 .. 40 -> Nat] : /\ p[0] = 1000
                                  /\ \A n \in 1 .. 40 : p[n] = (p[n - 1] * 11052) \div 10000
  <2> DEFINE Vale(k) == \E p \in [0 .. 40 -> Nat] :
                           /\ p[0] = 1000
                           /\ \A n \in 1 .. 40 : n <= k => p[n] = (p[n - 1] * 11052) \div 10000
             S == {k \in Nat : Vale(k)}
  <2>1. 0 \in S
    <3> DEFINE p == [n \in 0 .. 40 |-> 1000]
    <3>1. p \in [0 .. 40 -> Nat] /\ p[0] = 1000 /\ \A n \in 1 .. 40 : ~ (n <= 0)
      OBVIOUS
    <3> HIDE DEF p
    <3> QED
      BY <3>1
  <2>2. ASSUME NEW k \in Nat, Vale(k) PROVE Vale(k + 1)
    <3>1. PICK p \in [0 .. 40 -> Nat] :
             /\ p[0] = 1000
             /\ \A n \in 1 .. 40 : n <= k => p[n] = (p[n - 1] * 11052) \div 10000
      BY <2>2
    <3> DEFINE q == [p EXCEPT ![k + 1] = (p[k] * 11052) \div 10000]
    <3>2. CASE k < 40
      <4>1. p[k] \in Nat
        BY <3>2
      <4>2. (p[k] * 11052) \div 10000 \in Nat
        BY <4>1, CrecerLema
      <4>3. q \in [0 .. 40 -> Nat] /\ q[0] = 1000 /\ q[k + 1] = (p[k] * 11052) \div 10000
        BY <3>1, <3>2, <4>2
      <4>4. \A n \in 0 .. 40 : n # k + 1 => q[n] = p[n]
        OBVIOUS
      <4>5. ASSUME NEW n \in 1 .. 40, n <= k + 1 PROVE q[n] = (q[n - 1] * 11052) \div 10000
        <5>1. n - 1 \in 0 .. 40 /\ n - 1 # k + 1 /\ n \in 0 .. 40
          BY <4>5
        <5>2. q[n - 1] = p[n - 1]
          <6> HIDE DEF q
          <6> QED BY <4>4, <5>1
        <5>3. CASE n = k + 1
          <6>1. n - 1 = k
            BY <5>3
          <6> QED
            BY <4>3, <5>2, <5>3, <6>1
        <5>4. CASE n # k + 1
          <6>1. n <= k
            BY <4>5, <5>4
          <6> HIDE DEF q
          <6> QED
            BY <3>1, <4>4, <5>1, <5>2, <5>4, <6>1
        <5> QED
          BY <5>3, <5>4
      <4>6. \A n \in 1 .. 40 : n <= k + 1 => q[n] = (q[n - 1] * 11052) \div 10000
        <5> HIDE DEF q
        <5> QED BY <4>5
      <4>7. q \in [0 .. 40 -> Nat] /\ q[0] = 1000
        BY <4>3
      <4> HIDE DEF q
      <4> QED
        BY <4>6, <4>7
    <3>3. CASE k >= 40
      BY <3>1, <3>3
    <3> QED
      BY <3>2, <3>3
  <2>3. \A n \in Nat : n \in S
    <3>1. \A k \in Nat : k \in S => k + 1 \in S
      <4> HIDE DEF Vale
      <4> QED BY <2>2
    <3> HIDE DEF S
    <3> QED BY <2>1, <3>1, Inducir
  <2>4. Vale(40)
    <3>1. 40 \in S
      <4> HIDE DEF S
      <4> QED BY <2>3
    <3> HIDE DEF Vale
    <3> QED BY <3>1
  <2> QED
    BY <2>4
<1>2. \E e : Es(e)
  <2>1. PICK p \in [0 .. 40 -> Nat] : /\ p[0] = 1000
                                      /\ \A n \in 1 .. 40 : p[n] = (p[n - 1] * 11052) \div 10000
    BY <1>1
  <2> DEFINE e == [n \in Dom |-> IF n >= 0 THEN p[n] ELSE (1000 * 1000) \div p[-n]]
  <2>2. ASSUME NEW n \in Dom
        PROVE  e[n] = EntradaE(e, n)
    <3>1. CASE n = 0
      BY <2>1, <3>1 DEF EntradaE
    <3>2. CASE n > 0
      <4>1. n - 1 \in Dom /\ n - 1 >= 0 /\ n \in 1 .. 40
        BY <3>2
      <4>2. e[n - 1] = p[n - 1] /\ e[n] = p[n]
        BY <3>2, <4>1
      <4> HIDE DEF e
      <4> QED
        BY <2>1, <3>2, <4>1, <4>2 DEF EntradaE
    <3>3. CASE n < 0
      <4>1. -n \in Dom /\ -n >= 0
        BY <3>3
      <4>2. e[-n] = p[-n] /\ e[n] = (1000 * 1000) \div p[-n]
        BY <3>3, <4>1
      <4> HIDE DEF e
      <4> QED
        BY <3>3, <4>2 DEF EntradaE
    <3> QED
      BY <3>1, <3>2, <3>3
  <2>3. e = [n \in Dom |-> e[n]]
    OBVIOUS
  <2>4. Es(e)
    <3> HIDE DEF e, Dom
    <3> QED BY <2>2, <2>3
  <2> HIDE DEF e, Es
  <2> QED
    BY <2>4
<1>3. E = CHOOSE e : Es(e)
  BY DEF E, EntradaE
<1>4. Es(E)
  <2> HIDE DEF Es
  <2> QED BY <1>2, <1>3
<1> HIDE DEF Dom
<1>5. E = [n \in Dom |-> EntradaE(E, n)]
  BY <1>4, Zenon
<1>17. \A n \in Dom : E[n] = EntradaE(E, n)
  BY <1>5, Zenon
<1>18. E = [n \in Dom |-> E[n]]
  BY <1>5, <1>17, Zenon
<1> USE DEF Dom
<1>0. E[0] = 1000
  BY <1>17 DEF EntradaE
<1>15. \A n \in 1 .. 40 : E[n] = (E[n - 1] * 11052) \div 10000
  BY <1>17 DEF EntradaE
<1>16. \A n \in -40 .. -1 : E[n] = (1000 * 1000) \div E[-n]
  BY <1>17 DEF EntradaE
<1>6. \A n \in 0 .. 40 : E[n] \in Nat /\ E[n] >= 1000
  <2> DEFINE S == {k \in Nat : k <= 40 => E[k] \in Nat /\ E[k] >= 1000}
  <2>1. 0 \in S
    BY <1>0
  <2>2. ASSUME NEW k \in Nat, k \in S PROVE k + 1 \in S
    <3> SUFFICES ASSUME k + 1 <= 40 PROVE E[k + 1] \in Nat /\ E[k + 1] >= 1000
      OBVIOUS
    <3>1. E[k] \in Nat /\ E[k] >= 1000
      BY <2>2
    <3>2. E[k + 1] = (E[k] * 11052) \div 10000
      <4>1. k + 1 \in 1 .. 40 /\ (k + 1) - 1 = k
        OBVIOUS
      <4> QED
        BY <1>15, <4>1
    <3> QED
      BY <3>1, <3>2, CrecerLema
  <2>3. \A k \in Nat : k \in S
    <3> HIDE DEF S
    <3> QED BY <2>1, <2>2, Inducir
  <2> QED
    BY <2>3
<1>7. \A n \in 1 .. 40 : E[n - 1] \in Nat /\ E[n - 1] <= E[n] /\ 10000 * E[n] <= 11052 * E[n - 1]
  <2> TAKE n \in 1 .. 40
  <2>1. n - 1 \in 0 .. 40
    OBVIOUS
  <2> QED
    BY <1>15, <1>6, <2>1, CrecerLema
\* Four steps are less than one and a half times.
<1>8. ASSUME NEW n \in 0 .. 36 PROVE 2 * E[n + 4] <= 3 * E[n]
  <2>1. /\ 10000 * E[n + 1] <= 11052 * E[n] /\ 10000 * E[n + 2] <= 11052 * E[n + 1]
        /\ 10000 * E[n + 3] <= 11052 * E[n + 2] /\ 10000 * E[n + 4] <= 11052 * E[n + 3]
    <3>1. \A i \in 1 .. 4 : n + i \in 1 .. 40 /\ (n + i) - 1 = n + (i - 1)
      OBVIOUS
    <3>2. \A i \in 1 .. 4 : 10000 * E[n + i] <= 11052 * E[n + (i - 1)]
      BY <1>7, <3>1
    <3> QED
      BY <3>2
  <2>2. \A i \in 0 .. 4 : E[n + i] \in Nat
    BY <1>6
  <2> DEFINE a == E[n]
             b == E[n + 1]
             c == E[n + 2]
             d == E[n + 3]
             g == E[n + 4]
  <2>3. a \in Nat /\ b \in Nat /\ c \in Nat /\ d \in Nat /\ g \in Nat
    BY <2>2
  <2> HIDE DEF a, b, c, d, g
  <2> SUFFICES 2 * g <= 3 * a
    BY DEF a, g
  <2>4. 10000 * b <= 11052 * a /\ 10000 * c <= 11052 * b /\ 10000 * d <= 11052 * c /\ 10000 * g <= 11052 * d
    BY <2>1 DEF a, b, c, d, g
  <2> QED
    BY <2>3, <2>4
<1>9. E[40] <= 1000 * 1000
  <2>1. /\ 2 * E[4] <= 3 * E[0] /\ 2 * E[8] <= 3 * E[4] /\ 2 * E[12] <= 3 * E[8]
        /\ 2 * E[16] <= 3 * E[12] /\ 2 * E[20] <= 3 * E[16] /\ 2 * E[24] <= 3 * E[20]
        /\ 2 * E[28] <= 3 * E[24] /\ 2 * E[32] <= 3 * E[28] /\ 2 * E[36] <= 3 * E[32]
        /\ 2 * E[40] <= 3 * E[36]
    <3>1. \A n \in {0, 4, 8, 12, 16, 20, 24, 28, 32, 36} : 2 * E[n + 4] <= 3 * E[n]
      BY <1>8
    <3> QED
      BY <3>1
  <2>2. \A n \in {4, 8, 12, 16, 20, 24, 28, 32, 36, 40} : E[n] \in Nat
    BY <1>6
  <2> QED
    BY <1>0, <2>1, <2>2
<1>10. \A n \in 0 .. 40 : E[n] <= 1000 * 1000
  <2> DEFINE S == {k \in Nat : k <= 40 => E[40 - k] <= 1000 * 1000}
  <2>1. 0 \in S
    BY <1>9
  <2>2. ASSUME NEW k \in Nat, k \in S PROVE k + 1 \in S
    <3> SUFFICES ASSUME k + 1 <= 40 PROVE E[40 - (k + 1)] <= 1000 * 1000
      OBVIOUS
    <3>1. E[40 - k] <= 1000 * 1000 /\ 40 - k \in 1 .. 40 /\ 40 - (k + 1) = (40 - k) - 1
      BY <2>2
    <3>2. E[(40 - k) - 1] \in Nat /\ E[40 - k] \in Nat /\ E[(40 - k) - 1] <= E[40 - k]
      BY <1>6, <1>7, <3>1
    <3> QED
      BY <3>1, <3>2
  <2>3. \A k \in Nat : k \in S
    <3> HIDE DEF S
    <3> QED BY <2>1, <2>2, Inducir
  <2> TAKE n \in 0 .. 40
  <2>4. 40 - n \in Nat /\ 40 - n <= 40 /\ 40 - (40 - n) = n
    OBVIOUS
  <2>5. 40 - n \in S
    BY <2>3, <2>4
  <2> QED
    BY <2>4, <2>5
<1>11. \A n \in Dom : E[n] \in Nat \ {0}
  <2> TAKE n \in Dom
  <2>1. CASE n >= 0
    BY <1>6, <2>1
  <2>2. CASE n < 0
    <3>1. -n \in 0 .. 40 /\ n \in -40 .. -1
      BY <2>2
    <3> QED
      BY <1>16, <1>6, <1>10, <3>1, DivLema
  <2> QED
    BY <2>1, <2>2
<1>12. E \in [Dom -> Nat \ {0}]
  <2> HIDE DEF Dom
  <2> QED
    BY <1>18, <1>11
<1>13. \A n \in 1 .. 40 : E[n - 1] <= E[n]
  BY <1>7
<1> QED
  BY <1>0, <1>12, <1>13, <1>15

-----------------------------------------------------------------------------
(* What is measured is a number                                            *)

\* What is cut lies in the range.
LEMMA EntreLema ==
    ASSUME NEW x \in Int, NEW lo \in Int, NEW hi \in Int, lo <= hi
    PROVE  Entre(x, lo, hi) \in lo .. hi
BY DEF Entre, Mayor, Menor

\* A logarithm is an integer, whatever it is of.
LEMMA LLema == ASSUME NEW x PROVE L(x) \in Int
<1> DEFINE S == {k \in 0 .. 69 : Decada[(k % 10) + 1] * 10 ^ (k \div 10) <= 100 * x}
<1>1. IsFiniteSet(0 .. 69)
  <2> DEFINE hasta == 69
  <2>1. 0 \in Int /\ hasta \in Int
    OBVIOUS
  <2> HIDE DEF hasta
  <2>2. IsFiniteSet(0 .. hasta)
    BY <2>1, FS_Interval
  <2> QED
    BY <2>2 DEF hasta
<1>2. S \in SUBSET (0 .. 69)
  OBVIOUS
<1> HIDE DEF S
<1>3. Cardinality(S) \in Nat
  BY <1>1, <1>2, FS_Subset, FS_CardinalityType
<1>4. L(x) = Cardinality(S) - 1
  BY DEF L, S
<1> QED
  BY <1>3, <1>4

\* So is a change of price,
LEMMA CambioLema == ASSUME NEW r \in Int PROVE Cambio(r) \in Int
<1> DEFINE t == Truncado(r, 100)
           k == Entre(t, -40, 40)
           x == E[k] - 1000
<1>1. t \in Int
  <2>1. 100 \in Nat \ {0}
    OBVIOUS
  <2> QED
    BY <2>1, TruncadoLema
<1>2. k \in -40 .. 40
  <2>1. -40 \in Int /\ 40 \in Int /\ -40 <= 40
    OBVIOUS
  <2> HIDE DEF t
  <2> QED
    BY <1>1, <2>1, EntreLema
<1>3. x \in Int
  <2>1. E[k] \in Nat
    <3> HIDE DEF k
    <3>1. E \in [-40 .. 40 -> Nat \ {0}]
      BY ELema
    <3> QED
      BY <1>2, <3>1
  <2> HIDE DEF k
  <2> QED
    BY <2>1
<1>4. Truncado(x, 10) \in Int
  <2>1. 10 \in Nat \ {0}
    OBVIOUS
  <2> HIDE DEF x
  <2> QED
    BY <1>3, <2>1, TruncadoLema
<1> QED
  BY <1>4 DEF Cambio

\* and what is sold of the curve.
LEMMA CurvaLema ==
    ASSUME NEW c \in Curvas
    PROVE  curve_state(c).complete \in BOOLEAN /\ curve_state(c).progress \in Int
<1> DEFINE fin == c.vtok - c.rtok
           rtok0 == (c.vsol * c.vtok) \div VSOL0 - fin
           x == (rtok0 - c.rtok) * 100
<1>1. c.complete \in BOOLEAN /\ c.vsol \in Nat /\ c.vtok \in Nat /\ c.rtok \in Nat
  BY DEF Curvas
<1>2. fin \in Int /\ c.vsol * c.vtok \in Nat
  BY <1>1
<1>3. rtok0 \in Int /\ x \in Int
  <2> DEFINE k == c.vsol * c.vtok
  <2>1. k \in Nat
    BY <1>2
  <2> HIDE DEF k, fin
  <2> QED
    BY <1>1, <1>2, <2>1 DEF VSOL0
<1>4. rtok0 > 0 => Entre(Truncado(x, rtok0), 0, 100) \in Int
  <2> SUFFICES ASSUME rtok0 > 0 PROVE Entre(Truncado(x, rtok0), 0, 100) \in Int
    OBVIOUS
  <2> HIDE DEF x, rtok0
  <2>1. Truncado(x, rtok0) \in Int
    BY <1>3, TruncadoLema
  <2> QED
    BY <2>1, EntreLema
<1>5. /\ curve_state(c).complete = c.complete
      /\ \/ curve_state(c).progress = NADA \/ curve_state(c).progress = 100
         \/ rtok0 > 0 /\ curve_state(c).progress = Entre(Truncado(x, rtok0), 0, 100)
  <2>1. rtok0 <= 0 \/ rtok0 > 0
    <3> HIDE DEF rtok0
    <3> QED BY <1>3
  <2> QED
    BY <2>1 DEF curve_state
<1> QED
  BY <1>1, <1>4, <1>5 DEF NADA

\* What is used of candles: their number, their highs and their closes.
EsVelas(vs) ==
    /\ Len(vs) \in Nat /\ DOMAIN vs = 1 .. Len(vs) /\ (Len(vs) = 0 => vs = << >>)
    /\ \A i \in 1 .. Len(vs) : vs[i].h \in Int /\ vs[i].c \in Int

\* The candles made of trades are candles: each has trades of its own, and so a
\* maximum, a minimum and a last price.
LEMMA VelasDeTrades ==
    ASSUME NEW trades \in Seq(Trades), NEW bucket \in Nat \ {0}
    PROVE  EsVelas(candles_from_trades(trades, bucket))
<1> DEFINE pts == {i \in DOMAIN trades : trades[i].price # NADA}
           Cubo(i) == trades[i].ts \div bucket
           cubos == {Cubo(i) : i \in pts}
           En(b) == {i \in pts : Cubo(i) = b}
           Ps(b) == {trades[i].price : i \in En(b)}
           Cubo1(n) == CHOOSE b \in cubos : Cardinality({c \in cubos : c <= b}) = n
           k == Cardinality(cubos)
           vs == candles_from_trades(trades, bucket)
<1>1. /\ Len(trades) \in Nat /\ DOMAIN trades = 1 .. Len(trades)
      /\ \A i \in DOMAIN trades : trades[i].price \in Int /\ trades[i].ts \in Nat
  <2>1. Len(trades) \in Nat /\ DOMAIN trades = 1 .. Len(trades)
    OBVIOUS
  <2>2. ASSUME NEW i \in DOMAIN trades PROVE trades[i] \in Trades
    BY <2>1
  <2> QED
    BY <2>1, <2>2 DEF Trades
<1>2. IsFiniteSet(pts) /\ pts \in SUBSET Int
  <2>1. IsFiniteSet(DOMAIN trades) /\ DOMAIN trades \in SUBSET Int
    BY <1>1, FS_Interval
  <2>2. pts \in SUBSET DOMAIN trades
    OBVIOUS
  <2> HIDE DEF pts
  <2> QED
    BY <2>1, <2>2, FS_Subset
<1>3. IsFiniteSet(cubos) /\ cubos \in SUBSET Int
  <2> DEFINE f == [i \in pts |-> Cubo(i)]
  <2>1. IsFiniteSet({f[i] : i \in pts})
    <3>1. DOMAIN f = pts
      OBVIOUS
    <3> HIDE DEF f, pts
    <3> QED BY <1>2, <3>1, ImagenLema
  <2>2. cubos = {f[i] : i \in pts}
    OBVIOUS
  <2>3. \A i \in pts : Cubo(i) \in Int
    BY <1>1
  <2> HIDE DEF f, Cubo, pts
  <2> QED
    BY <2>1, <2>2, <2>3
<1>4. ASSUME NEW b \in cubos
      PROVE  Max(En(b)) \in En(b) /\ Max(Ps(b)) \in Ps(b)
  <2>1. En(b) # {} /\ En(b) \in SUBSET pts /\ Ps(b) # {}
    OBVIOUS
  <2>2. IsFiniteSet(En(b)) /\ En(b) \in SUBSET Int
    <3> HIDE DEF En, pts
    <3> QED BY <1>2, <2>1, FS_Subset
  <2>3. Max(En(b)) \in En(b)
    <3> HIDE DEF En
    <3> QED BY <2>1, <2>2, MaxLema
  <2> DEFINE f == [i \in En(b) |-> trades[i].price]
  <2>4. IsFiniteSet({f[i] : i \in En(b)})
    <3>1. DOMAIN f = En(b)
      OBVIOUS
    <3> HIDE DEF f, En
    <3> QED BY <2>2, <3>1, ImagenLema
  <2>5. Ps(b) = {f[i] : i \in En(b)}
    OBVIOUS
  <2>6. Ps(b) \in SUBSET Int
    BY <1>1
  <2>7. Max(Ps(b)) \in Ps(b)
    <3>1. IsFiniteSet(Ps(b))
      <4> HIDE DEF Ps, f
      <4> QED BY <2>4, <2>5
    <3> HIDE DEF Ps
    <3> QED BY <2>1, <2>6, <3>1, MaxLema
  <2> QED
    BY <2>3, <2>7
<1>5. ASSUME NEW n \in 1 .. k PROVE Cubo1(n) \in cubos
  <2>1. \E b \in cubos : Cardinality({c \in cubos : c <= b}) = n
    <3> HIDE DEF cubos
    <3> QED BY <1>3, PuestoLema
  <2> HIDE DEF cubos
  <2> QED BY <2>1
<1>6. CASE Cardinality(pts) < 4
  <2>1. vs = << >>
    BY <1>6 DEF candles_from_trades
  <2> QED
    BY <2>1 DEF EsVelas
<1>7. CASE ~ (Cardinality(pts) < 4)
  <2> DEFINE Vela(b) == [h |-> Max(Ps(b)), l |-> Min(Ps(b)), c |-> trades[Max(En(b))].price,
                         v |-> SumFunction([i \in En(b) |-> trades[i].usd])]
  <2>1. vs = [n \in 1 .. k |-> Vela(Cubo1(n))]
    BY <1>7 DEF candles_from_trades
  <2>2. k \in Nat /\ k # 0
    <3>1. pts # {}
      <4> HIDE DEF pts
      <4> QED BY <1>7, FS_EmptySet
    <3>2. cubos # {}
      BY <3>1
    <3> HIDE DEF cubos
    <3> QED
      BY <1>3, <3>2, FS_EmptySet, FS_CardinalityType
  <2>3. Len(vs) = k /\ DOMAIN vs = 1 .. k
    <3> HIDE DEF k, Vela, Cubo1, vs
    <3> QED BY <2>1, <2>2
  <2>4. ASSUME NEW n \in 1 .. k PROVE vs[n].h \in Int /\ vs[n].c \in Int
    <3> DEFINE b == Cubo1(n)
    <3>1. b \in cubos
      BY <1>5
    <3>2. vs[n] = Vela(b)
      <4> HIDE DEF vs, Vela, Cubo1, k
      <4> QED BY <2>1
    <3>3. vs[n].h = Max(Ps(b)) /\ vs[n].c = trades[Max(En(b))].price
      <4> HIDE DEF vs, b, Ps, En
      <4> QED BY <3>2
    <3> HIDE DEF b
    <3>4. Max(En(b)) \in DOMAIN trades /\ Max(Ps(b)) \in Int
      <4>1. Max(En(b)) \in En(b) /\ Max(Ps(b)) \in Ps(b)
        <5> HIDE DEF En, Ps, cubos
        <5> QED BY <1>4, <3>1
      <4>2. En(b) \subseteq DOMAIN trades /\ Ps(b) \subseteq Int
        BY <1>1
      <4> HIDE DEF En, Ps
      <4> QED
        BY <4>1, <4>2
    <3> HIDE DEF vs, Ps, En
    <3> QED
      BY <1>1, <3>3, <3>4
  <2>5. \A n \in 1 .. k : vs[n].h \in Int /\ vs[n].c \in Int
    <3> HIDE DEF vs, k
    <3> QED BY <2>4
  <2> HIDE DEF vs, k
  <2>6. EsVelas(vs)
    BY <2>2, <2>3, <2>5 DEF EsVelas
  <2> QED
    BY <2>6 DEF vs
<1> QED
  BY <1>6, <1>7

\* What some trades add up to, and who made them.
LEMMA UsdLema ==
    ASSUME NEW trades \in Seq(Trades), NEW I \in SUBSET DOMAIN trades
    PROVE  /\ Usd(trades, I) \in Nat /\ (I = {} => Usd(trades, I) = 0)
           /\ IsFiniteSet(I) /\ IsFiniteSet(Wallets(trades, I))
           /\ Cardinality(I) \in Nat /\ Cardinality(Wallets(trades, I)) \in Nat
<1> DEFINE f == [i \in I |-> trades[i].usd]
           w == [i \in I |-> trades[i].wallet]
<1>1. Len(trades) \in Nat /\ DOMAIN trades = 1 .. Len(trades)
  OBVIOUS
<1>2. IsFiniteSet(I)
  <2> DEFINE k == Len(trades)
             N == 1 .. k
  <2>1. k \in Int /\ I \in SUBSET N
    BY <1>1
  <2>2. IsFiniteSet(N)
    <3> HIDE DEF k
    <3> QED
      BY <2>1, FS_Interval
  <2> HIDE DEF k, N
  <2> QED
    BY <2>1, <2>2, FS_Subset
<1>3. f \in [I -> Int] /\ \A i \in I : f[i] >= 0
  <2>1. ASSUME NEW i \in I PROVE trades[i].usd \in Nat
    <3>1. trades[i] \in Trades
      BY <1>1
    <3> QED
      BY <3>1 DEF Trades
  <2> QED
    BY <2>1
<1>4. Usd(trades, I) = SumFunction(f)
  BY DEF Usd
<1>5. Usd(trades, I) \in Nat /\ (I = {} => Usd(trades, I) = 0)
  <2> HIDE DEF f
  <2> QED
    BY <1>2, <1>3, <1>4, SumaLema
<1>6. IsFiniteSet(Wallets(trades, I))
  <2>1. DOMAIN w = I
    OBVIOUS
  <2>2. Wallets(trades, I) = {w[i] : i \in I}
    BY DEF Wallets
  <2> HIDE DEF w
  <2>3. IsFiniteSet({w[i] : i \in I})
    BY <1>2, <2>1, ImagenLema
  <2> QED
    BY <2>2, <2>3
<1> QED
  BY <1>2, <1>5, <1>6, FS_CardinalityType

\* How concentrated, and
LEMMA HhiLema == ASSUME NEW trades \in Seq(Trades) PROVE hhi(trades) \in Int
<1> DEFINE D == DOMAIN trades
           total == Usd(trades, D)
           Suyo(w) == Usd(trades, DeWallet(trades, w))
           partes == [w \in Wallets(trades, D) |-> Suyo(w) * Suyo(w)]
<1>1. total \in Nat /\ IsFiniteSet(Wallets(trades, D))
  BY UsdLema
<1>2. partes \in [Wallets(trades, D) -> Int]
  <2>1. ASSUME NEW w PROVE Suyo(w) \in Nat
    <3>1. DeWallet(trades, w) \in SUBSET DOMAIN trades
      BY DEF DeWallet
    <3> QED
      BY <3>1, UsdLema
  <2>2. ASSUME NEW w PROVE Suyo(w) * Suyo(w) \in Int
    <3> DEFINE x == Suyo(w)
    <3>1. x \in Nat
      BY <2>1
    <3> HIDE DEF x
    <3>2. x * x \in Int
      BY <3>1
    <3> QED
      BY <3>2 DEF x
  <2> HIDE DEF Suyo
  <2> QED
    BY <2>2
<1>3. SumFunction(partes) \in Int
  <2> HIDE DEF partes, D
  <2> QED BY <1>1, <1>2, SumaLema
<1>4. hhi(trades) = IF total = 0 THEN 0 ELSE (100 * SumFunction(partes)) \div (total * total)
  BY DEF hhi
<1> DEFINE s == SumFunction(partes)
<1> HIDE DEF total, s, partes
<1>5. total # 0 => (100 * s) \div (total * total) \in Int
  <2> SUFFICES ASSUME total # 0 PROVE (100 * s) \div (total * total) \in Int
    OBVIOUS
  <2> DEFINE b == total * total
  <2>1. b \in Nat /\ b > 0 /\ s \in Int
    BY <1>1, <1>3 DEF s
  <2> HIDE DEF b
  <2>2. (100 * s) \div b \in Int
    BY <2>1
  <2> QED
    BY <2>2 DEF b
<1> QED
  BY <1>4, <1>5 DEF s

\* how much slower, the trades are.
LEMMA DecayLema == ASSUME NEW trades \in Seq(Trades) PROVE decay(trades) \in Int
<1> DEFINE doble == 2 * trades[1].ts + Mayor(1, Last(trades).ts - trades[1].ts)
           I == {i \in DOMAIN trades : 2 * trades[i].ts < doble}
           antes == Cardinality(I)
           x == (Len(trades) - 2 * antes) * 100
<1>1. antes \in Nat
  <2>1. I \in SUBSET DOMAIN trades
    OBVIOUS
  <2> HIDE DEF I
  <2> QED BY <2>1, UsdLema
<1>2. x \in Int
  <2>1. Len(trades) \in Nat
    OBVIOUS
  <2> HIDE DEF antes
  <2> QED BY <1>1, <2>1
<1>3. decay(trades) = IF antes = 0 THEN 0 ELSE Truncado(x, antes)
  BY DEF decay
<1>4. antes # 0 => Truncado(x, antes) \in Int
  <2> HIDE DEF antes, x
  <2> QED BY <1>1, <1>2, TruncadoLema
<1> HIDE DEF antes, x
<1> QED
  BY <1>3, <1>4

\* What is needed of what flow_stats measures: nobody sells when nobody trades.
EsFlujo(f) ==
    /\ {f.n, f.wallets, f.dev_sold, f.dev_bought} \subseteq Nat
    /\ {f.imbalance, f.hhi, f.decay} \subseteq Int
    /\ f.n = 0 => f.dev_sold = 0 /\ f.dev_bought = 0

\* flow_stats gives it.
LEMMA FlujoLema ==
    ASSUME NEW trades \in Seq(Trades), NEW creador
    PROVE  EsFlujo(flow_stats(trades, creador))
<1> DEFINE f == flow_stats(trades, creador)
           compras == De(trades, "buy")
           ventas == De(trades, "sell")
           comprado == Usd(trades, compras)
           vendido == Usd(trades, ventas)
           dc == compras \cap DeWallet(trades, creador)
           dv == ventas \cap DeWallet(trades, creador)
<1>1. /\ compras \in SUBSET DOMAIN trades /\ ventas \in SUBSET DOMAIN trades
      /\ dc \in SUBSET DOMAIN trades /\ dv \in SUBSET DOMAIN trades
  BY DEF De
<1>2. comprado \in Nat /\ vendido \in Nat
  <2> HIDE DEF compras, ventas
  <2> QED BY <1>1, UsdLema
<1>3. /\ Usd(trades, dc) \in Nat /\ (dc = {} => Usd(trades, dc) = 0)
      /\ Usd(trades, dv) \in Nat /\ (dv = {} => Usd(trades, dv) = 0)
  <2> HIDE DEF dc, dv
  <2> QED BY <1>1, UsdLema
<1>4. /\ f.n = Len(trades) /\ f.dev_sold = Usd(trades, dv) /\ f.dev_bought = Usd(trades, dc)
      /\ f.imbalance = (IF comprado + vendido = 0 THEN 0
                        ELSE Truncado((comprado - vendido) * 100, comprado + vendido))
      /\ f.wallets = Cardinality(Wallets(trades, DOMAIN trades))
      /\ f.hhi = (IF trades = << >> THEN 0 ELSE hhi(trades))
      /\ f.decay = (IF trades = << >> THEN 0 ELSE decay(trades))
  BY DEF flow_stats
<1>5. f.imbalance \in Int
  <2> HIDE DEF f, comprado, vendido
  <2>1. comprado + vendido # 0 => Truncado((comprado - vendido) * 100, comprado + vendido) \in Int
    <3> DEFINE a == (comprado - vendido) * 100
               b == comprado + vendido
    <3>1. a \in Int /\ b \in Nat
      BY <1>2
    <3>2. b # 0 => Truncado(a, b) \in Int
      <4> HIDE DEF a, b
      <4> QED BY <3>1, TruncadoLema
    <3> QED
      BY <3>2
  <2> QED
    BY <1>4, <2>1
<1>6. f.wallets \in Nat
  <2> HIDE DEF f
  <2> QED BY <1>4, UsdLema
<1>7. f.hhi \in Int /\ f.decay \in Int
  <2> HIDE DEF f
  <2> QED BY <1>4, HhiLema, DecayLema
<1>8. f.n \in Nat /\ (f.n = 0 => dc = {} /\ dv = {})
  <2>1. Len(trades) \in Nat /\ DOMAIN trades = 1 .. Len(trades)
    OBVIOUS
  <2>2. f.n = 0 => DOMAIN trades = {}
    <3> HIDE DEF f
    <3> QED BY <1>4, <2>1
  <2> HIDE DEF f, dc, dv
  <2> QED
    BY <1>1, <1>4, <2>1, <2>2
<1>9. /\ f.dev_sold \in Nat /\ f.dev_bought \in Nat
      /\ f.n = 0 => f.dev_sold = 0 /\ f.dev_bought = 0
  <2> HIDE DEF f, dc, dv
  <2> QED BY <1>3, <1>4, <1>8
<1> HIDE DEF f
<1>10. EsFlujo(f)
  BY <1>5, <1>6, <1>7, <1>8, <1>9 DEF EsFlujo
<1> QED
  BY <1>10 DEF f

\* What is needed of the windows of time,
EsMarcos(mf) == mf.have \in BOOLEAN /\ mf.align \in Int /\ mf.fading \in Int

\* that multiframe gives.
LEMMA MarcosLema == ASSUME NEW par, EsPar(par) PROVE EsMarcos(multiframe(par))
<1> DEFINE v == par.cambio
           V == DOMAIN v
           n == Cardinality(V)
           S == {k \in V : v[k] > 0}
           De0(k) == IF k \in V THEN v[k] ELSE 0
           largo == IF De0("h6") # 0 THEN De0("h6") ELSE De0("h24")
           have == par.have /\ n >= 2
           mf == multiframe(par)
<1>1. \A k : De0(k) \in Int
  BY DEF EsPar
<1>2. IsFiniteSet(V)
  <2>1. IsFiniteSet({"m5", "h1"}) /\ IsFiniteSet({"h6", "h24"})
    <3>1. IsFiniteSet({"m5"} \cup {"h1"}) /\ IsFiniteSet({"h6"} \cup {"h24"})
      BY FS_Singleton, FS_AddElement
    <3>2. {"m5"} \cup {"h1"} = {"m5", "h1"} /\ {"h6"} \cup {"h24"} = {"h6", "h24"}
      OBVIOUS
    <3> QED
      BY <3>1, <3>2
  <2>2. IsFiniteSet({"m5", "h1"} \cup {"h6", "h24"})
    BY <2>1, FS_Union
  <2>3. V \in SUBSET ({"m5", "h1"} \cup {"h6", "h24"})
    BY DEF EsPar
  <2> HIDE DEF V
  <2> QED
    BY <2>2, <2>3, FS_Subset
<1>3. n \in Nat /\ Cardinality(S) \in Nat
  <2>1. S \in SUBSET V
    OBVIOUS
  <2> HIDE DEF V, S
  <2> QED BY <1>2, <2>1, FS_Subset, FS_CardinalityType
<1>4. have => Truncado(200 * Cardinality(S), n) - 100 \in Int
  <2> DEFINE c == Cardinality(S)
  <2> SUFFICES ASSUME n >= 2 PROVE Truncado(200 * c, n) - 100 \in Int
    OBVIOUS
  <2>1. c \in Nat
    BY <1>3
  <2> HIDE DEF c, n
  <2>2. 200 * c \in Int /\ n \in Nat \ {0}
    BY <1>3, <2>1
  <2>3. Truncado(200 * c, n) \in Int
    <3> DEFINE a == 200 * c
    <3> HIDE DEF a
    <3>1. Truncado(a, n) \in Int
      BY <2>2, TruncadoLema DEF a
    <3> QED
      BY <3>1 DEF a
  <2> QED
    BY <2>3
<1>5. largo \in Int /\ Menor(200, largo - 10 * De0("m5")) \in Int
  <2> DEFINE a == De0("h6")
             b == De0("h24")
             c == De0("m5")
  <2>1. a \in Int /\ b \in Int /\ c \in Int
    BY <1>1
  <2> HIDE DEF a, b, c
  <2>2. (IF a # 0 THEN a ELSE b) \in Int
    BY <2>1
  <2> DEFINE l == IF a # 0 THEN a ELSE b
  <2>3. Menor(200, l - 10 * c) \in Int
    BY <2>1, <2>2 DEF Menor
  <2> QED
    BY <2>2, <2>3 DEF a, b, c
<1>6. /\ mf.have = have
      /\ mf.align = IF have THEN Truncado(200 * Cardinality(S), n) - 100 ELSE 0
      /\ mf.fading = IF have /\ largo > 20 /\ De0("m5") < 0 THEN Menor(200, largo - 10 * De0("m5")) ELSE 0
  BY DEF multiframe
<1>7. have \in BOOLEAN
  BY DEF EsPar
<1>8. mf.align \in Int
  <2> HIDE DEF mf, have, n, S
  <2> QED BY <1>4, <1>6
<1>9. mf.fading \in Int
  <2> HIDE DEF mf, have, largo, De0
  <2> QED BY <1>5, <1>6
<1>10. EsMarcos(mf)
  <2> HIDE DEF mf, have
  <2> QED BY <1>6, <1>7, <1>8, <1>9 DEF EsMarcos
<1> QED
  BY <1>10 DEF mf

\* What is needed of the liquidity: without any, nothing turns over.
EsLiquidez(l) == l.liq \in Nat /\ l.turnover \in Int /\ (l.liq = 0 => l.turnover = 0)

\* liquidity_stats gives it.
LEMMA LiquidezLema ==
    ASSUME NEW par, NEW pool, EsPar(par), EsPar(pool)
    PROVE  EsLiquidez(liquidity_stats(par, pool))
<1> DEFINE deUno == IF par.have /\ par.liq > 0 THEN par ELSE pool
           liq == IF deUno.have THEN deUno.liq ELSE 0
           l == liquidity_stats(par, pool)
<1>1. deUno.liq \in Nat /\ deUno.vol \in Nat
  BY DEF EsPar
<1>2. l.liq = liq /\ l.turnover = IF liq > 0 THEN (deUno.vol * 100) \div liq ELSE 0
  BY DEF liquidity_stats
<1>3. liq \in Nat
  <2> HIDE DEF deUno
  <2> QED BY <1>1
<1>4. liq > 0 => (deUno.vol * 100) \div liq \in Int
  <2> HIDE DEF deUno, liq
  <2> QED BY <1>1, <1>3
<1>5. EsLiquidez(l)
  <2> HIDE DEF l, liq, deUno
  <2> QED BY <1>2, <1>3, <1>4 DEF EsLiquidez
<1> QED
  BY <1>5 DEF l

\* What is needed of the prices,
EsEstado(s) == s.n \in Nat /\ {s.ret_z, s.overext, s.dd} \subseteq Int

\* that price_stats gives.
LEMMA PreciosLema ==
    ASSUME NEW m, EsMedida(m), NEW vs, EsVelas(vs)
    PROVE  EsEstado(price_stats(m, vs))
<1> DEFINE s == price_stats(m, vs)
           f == [i \in DOMAIN vs |-> vs[i].h]
<1>1. ASSUME vs # << >> PROVE Last(vs).c - Maximo(vs) \in Int
  <2>1. /\ Len(vs) \in Nat \ {0} /\ DOMAIN vs = 1 .. Len(vs)
        /\ \A i \in 1 .. Len(vs) : vs[i].h \in Int /\ vs[i].c \in Int
    <3>1. Len(vs) # 0
      BY <1>1 DEF EsVelas
    <3> QED
      BY <3>1 DEF EsVelas
  <2>2. Last(vs).c \in Int
    BY <2>1 DEF Last
  <2>3. IsFiniteSet(DOMAIN vs)
    BY <2>1, FS_Interval
  <2>4. IsFiniteSet({f[i] : i \in DOMAIN vs})
    <3>1. DOMAIN f = DOMAIN vs
      OBVIOUS
    <3> HIDE DEF f
    <3> QED BY <2>3, <3>1, ImagenLema
  <2> DEFINE H == {vs[i].h : i \in DOMAIN vs}
  <2>5. H = {f[i] : i \in DOMAIN vs}
    OBVIOUS
  <2>6. H \in SUBSET Int /\ H # {}
    BY <2>1
  <2>7. Max(H) \in H
    <3> HIDE DEF H, f
    <3> QED BY <2>4, <2>5, <2>6, MaxLema
  <2>8. Max(H) \in Int
    <3> HIDE DEF H
    <3> QED BY <2>6, <2>7
  <2>9. Maximo(vs) = Max(H)
    BY DEF Maximo
  <2> HIDE DEF H
  <2> QED
    BY <2>2, <2>8, <2>9
<1>2. /\ s.n = Len(vs) /\ s.ret_z = Si(vs # << >>, m.z) /\ s.overext = Si(vs # << >>, m.overext)
      /\ s.dd = IF vs = << >> THEN 0 ELSE Cambio(Last(vs).c - Maximo(vs))
  BY DEF price_stats
<1> HIDE DEF s
<1>3. s.ret_z \in Int /\ s.overext \in Int
  BY <1>2 DEF Si, EsMedida
<1>4. s.dd \in Int
  BY <1>1, <1>2, CambioLema
<1>5. s.n \in Nat
  BY <1>2 DEF EsVelas
<1>6. EsEstado(s)
  BY <1>3, <1>4, <1>5 DEF EsEstado
<1> QED
  BY <1>6 DEF s

\* The candles in use, and the seconds of each.
LEMMA UsoLema ==
    ASSUME NEW m, EsMedida(m), NEW h \in Nat \ {0}
    PROVE  EsVelas(VelasEnUso(m, h).velas) /\ VelasEnUso(m, h).tf \in Nat \ {0}
<1> DEFINE pedido == Mayor(1, h \div 6)
           finas == pedido < 60 /\ Len(m.trades) >= MIN_FINAS
           span == Mayor(1, Last(m.trades).ts - m.trades[1].ts)
           porSpan == Mayor(1, span \div 60)
           bucket == IF finas THEN Menor(pedido, porSpan) ELSE porSpan
           synth == candles_from_trades(m.trades, bucket)
           hechas == /\ Len(m.velas) < 20 \/ finas
                     /\ Len(m.trades) >= MIN_FINAS
                     /\ Len(synth) >= 12
                     /\ finas \/ Len(synth) > Len(m.velas)
           tf == timeframe_for(m.age, h)
<1>1. VelasEnUso(m, h) = IF hechas THEN [velas |-> synth, tf |-> bucket]
                         ELSE [velas |-> m.velas, tf |-> 60 * tf]
  BY DEF VelasEnUso
<1>2. m.trades \in Seq(Trades) /\ m.velas \in Seq(Velas1)
  BY DEF EsMedida
<1>3. EsVelas(m.velas)
  <2>1. Len(m.velas) \in Nat /\ DOMAIN m.velas = 1 .. Len(m.velas)
        /\ (Len(m.velas) = 0 => m.velas = << >>)
        /\ \A i \in 1 .. Len(m.velas) : m.velas[i] \in Velas1
    BY <1>2
  <2> QED
    BY <2>1 DEF EsVelas, Velas1
<1>4. tf \in Nat \ {0}
  <2> DEFINE anos == IF m.age < 3 THEN 1 ELSE IF m.age < 24 THEN 5 ELSE IF m.age < 168 THEN 15 ELSE 60
             caben == {x \in {1, 5, 15, 60} : 300 * x <= h}
             tope == Max(caben)
  <2>1. anos \in Nat \ {0}
    OBVIOUS
  <2>2. caben # {} => tope \in Nat \ {0}
    <3>1. IsFiniteSet({1, 5, 15, 60})
      <4>1. IsFiniteSet({1})
        BY FS_Singleton
      <4>2. IsFiniteSet({1} \cup {5})
        BY <4>1, FS_AddElement
      <4>3. IsFiniteSet(({1} \cup {5}) \cup {15})
        BY <4>2, FS_AddElement
      <4>4. IsFiniteSet((({1} \cup {5}) \cup {15}) \cup {60})
        BY <4>3, FS_AddElement
      <4>5. {1, 5, 15, 60} = (({1} \cup {5}) \cup {15}) \cup {60}
        OBVIOUS
      <4> QED
        BY <4>4, <4>5
    <3>2. caben \in SUBSET {1, 5, 15, 60} /\ caben \in SUBSET Int /\ caben \in SUBSET (Nat \ {0})
      OBVIOUS
    <3> HIDE DEF caben
    <3>3. IsFiniteSet(caben)
      BY <3>1, <3>2, FS_Subset
    <3> QED
      BY <3>2, <3>3, MaxLema
  <2>3. tf = IF caben = {} THEN 1 ELSE Menor(anos, tope)
    BY DEF timeframe_for
  <2> HIDE DEF tf, caben, tope, anos
  <2> QED
    BY <2>1, <2>2, <2>3 DEF Menor
<1>5. ASSUME Len(m.trades) >= MIN_FINAS
      PROVE  bucket \in Nat \ {0}
  <2>1. Len(m.trades) \in Nat \ {0} /\ \A i \in 1 .. Len(m.trades) : m.trades[i] \in Trades
    BY <1>2, <1>5, PronosticoAssumption
  <2> DEFINE d == Last(m.trades).ts - m.trades[1].ts
             q == h \div 6
             k == span \div 60
  <2>2. d \in Int
    BY <2>1 DEF Last, Trades
  <2>3. span \in Nat \ {0}
    <3>1. span = Mayor(1, d)
      OBVIOUS
    <3> HIDE DEF d, span
    <3> QED
      BY <2>2, <3>1 DEF Mayor
  <2>4. q \in Int /\ k \in Int
    <3> HIDE DEF span
    <3> QED
      BY <2>3
  <2>5. pedido \in Nat \ {0} /\ porSpan \in Nat \ {0}
    <3>1. pedido = Mayor(1, q) /\ porSpan = Mayor(1, k)
      OBVIOUS
    <3> HIDE DEF q, k, pedido, porSpan
    <3> QED
      BY <2>4, <3>1 DEF Mayor
  <2> HIDE DEF pedido, porSpan, finas
  <2> QED
    BY <2>5 DEF Menor
<1>6. ASSUME Len(m.trades) >= MIN_FINAS
      PROVE  EsVelas(synth)
  <2> HIDE DEF bucket
  <2> QED
    BY <1>2, <1>5, <1>6, VelasDeTrades
<1>7. hechas => Len(m.trades) >= MIN_FINAS
  OBVIOUS
<1>8. 60 * tf \in Nat \ {0}
  <2> HIDE DEF tf
  <2> QED BY <1>4
<1> HIDE DEF hechas, synth, bucket, tf
<1> QED
  BY <1>1, <1>3, <1>5, <1>6, <1>7, <1>8

-----------------------------------------------------------------------------

\* A signal is clipped,
LEMMA ClipLema == ASSUME NEW x \in Int PROVE clip(x) \in -250 .. 250
<1>1. clip(x) = Entre(x, -250, 250)
  BY DEF clip, CLIP
<1> QED
  BY <1>1 DEF Entre, Mayor, Menor

\* and counts for nothing when its sample does.
LEMMA ConLema ==
    ASSUME NEW x \in Int, NEW ok \in Int
    PROVE  Truncado(clip(x) * ok, 100) \in Int /\ (ok = 0 => Truncado(clip(x) * ok, 100) = 0)
<1> DEFINE c == clip(x)
           p == c * ok
<1>1. c \in Int
  BY ClipLema
<1>2. p \in Int /\ (ok = 0 => p = 0)
  <2> HIDE DEF c
  <2> QED BY <1>1
<1>3. Truncado(p, 100) \in Int /\ (p = 0 => Truncado(p, 100) = 0)
  <2> HIDE DEF p
  <2> QED BY <1>2, TruncadoLema
<1> QED
  BY <1>2, <1>3

\* An empty sample counts for nothing.
LEMMA RampaLema ==
    ASSUME NEW n \in Nat, NEW b \in Nat \ {0}
    PROVE  Rampa(n, b) \in Int /\ (n = 0 => Rampa(n, b) = 0)
<1> DEFINE q == (n * 100) \div b
<1>1. q \in Int /\ (n = 0 => q = 0)
  OBVIOUS
<1>2. Rampa(n, b) = Menor(100, q)
  BY DEF Rampa
<1> HIDE DEF q
<1> QED
  BY <1>1, <1>2 DEF Menor

\* What each signal is, and of what it is silent.
Calladas(flow, stats, liq, mf) ==
    UNION {IF flow.n = 0 THEN {"presion_compra", "concentracion", "dev_vendiendo",
                               "actividad_cae", "participacion"} ELSE {},
           IF stats.n = 0 THEN {"momentum", "sobreextension", "caida_desde_ath"} ELSE {},
           IF ~mf.have THEN {"tendencia_align", "agotamiento"} ELSE {},
           IF liq.liq = 0 THEN {"rotacion_rara"} ELSE {}}

\* Every signal is a number, and 0 when its source said nothing.
LEMMA SenalesLema ==
    ASSUME NEW curve, curve.complete \in BOOLEAN, curve.progress \in Int,
           NEW stats, EsEstado(stats), NEW flow, EsFlujo(flow), NEW liq, EsLiquidez(liq),
           NEW age \in Int, NEW mf, EsMarcos(mf)
    PROVE  LET sig == build_signals(curve, stats, flow, liq, age, mf)
           IN  /\ \A s \in Senales : sig[s] \in Int
               /\ \A s \in Calladas(flow, stats, liq, mf) : sig[s] = 0
<1> DEFINE sig == build_signals(curve, stats, flow, liq, age, mf)
           f_ok == Rampa(flow.n, 25)
           c_ok == Rampa(stats.n, 15)
           Con(x, ok) == Truncado(clip(x) * ok, 100)
           dev_out == flow.dev_sold - flow.dev_bought
           parado == /\ age > 6 /\ ~curve.complete
                     /\ curve.progress # NADA /\ curve.progress < 35
           x1 == (Mayor(0, stats.overext) * 12) \div 10
           x2 == Truncado(flow.imbalance * 22, 10)
           x3 == (-stats.dd * 25) \div 10
           x4 == Truncado((flow.hhi - 8) * 100, 12)
           x5 == (dev_out * 1200) \div Mayor(1, liq.liq)
           x6 == 418 - 10 * L(Mayor(liq.liq, 50))
           x7 == (liq.turnover - 800) \div 6
           x8 == Truncado(-flow.decay * 16, 10)
           x9 == ((10 * L(Mayor(flow.wallets, 1)) - 154) * 256) \div 100
           x10 == ((curve.progress - 55) * 100) \div 22
           x11 == ((10 * L(age) - 78) * 209) \div 100
           x12 == Truncado(mf.align * 16, 10)
<1>0. /\ sig.momentum = Con(stats.ret_z, c_ok) /\ sig.sobreextension = Con(x1, c_ok)
      /\ sig.presion_compra = Con(x2, f_ok) /\ sig.caida_desde_ath = Si(stats.dd < -25, Con(x3, c_ok))
      /\ sig.concentracion = Con(x4, f_ok) /\ sig.dev_vendiendo = Si(dev_out > 0, clip(x5))
      /\ sig.liquidez_fina = clip(x6) /\ sig.rotacion_rara = Si(liq.turnover > 800, clip(x7))
      /\ sig.actividad_cae = Con(x8, f_ok) /\ sig.participacion = Con(x9, f_ok)
      /\ sig.cerca_graduar = Si(~curve.complete /\ curve.progress > 55, clip(x10))
      /\ sig.estancado = Si(parado, clip(x11))
      /\ sig.tendencia_align = Si(mf.have, clip(x12)) /\ sig.agotamiento = Si(mf.have, clip(mf.fading))
  BY DEF build_signals, Participacion
<1>1. /\ flow.n \in Nat /\ stats.n \in Nat /\ liq.liq \in Nat /\ dev_out \in Int
      /\ flow.n = 0 => dev_out = 0
      /\ mf.have \in BOOLEAN /\ mf.fading \in Int /\ liq.turnover \in Int
      /\ liq.liq = 0 => liq.turnover = 0
      /\ stats.ret_z \in Int /\ stats.dd \in Int /\ stats.overext \in Int
      /\ flow.imbalance \in Int /\ flow.hhi \in Int /\ flow.decay \in Int /\ mf.align \in Int
  BY DEF EsFlujo, EsEstado, EsLiquidez, EsMarcos
<1>2. /\ f_ok \in Int /\ c_ok \in Int /\ (flow.n = 0 => f_ok = 0) /\ (stats.n = 0 => c_ok = 0)
  BY <1>1, RampaLema
<1>3. x1 \in Int /\ x3 \in Int /\ x7 \in Int /\ x10 \in Int
  <2> DEFINE o == Mayor(0, stats.overext)
  <2>1. o \in Int
    BY <1>1 DEF Mayor
  <2>2. x1 \in Int
    <3>1. x1 = (o * 12) \div 10
      OBVIOUS
    <3> HIDE DEF o, x1
    <3> QED BY <2>1, <3>1
  <2>3. x3 \in Int
    <3> DEFINE d == stats.dd
               e == -d * 25
    <3>1. d \in Int
      BY <1>1
    <3>2. e \in Int
      <4> HIDE DEF d
      <4> QED BY <3>1
    <3>3. x3 = e \div 10
      OBVIOUS
    <3> HIDE DEF e, x3
    <3> QED BY <3>2, <3>3
  <2> QED
    BY <1>1, <2>2, <2>3
<1>4. x2 \in Int /\ x4 \in Int /\ x8 \in Int /\ x12 \in Int
  <2>1. flow.imbalance * 22 \in Int /\ (flow.hhi - 8) * 100 \in Int /\ mf.align * 16 \in Int
    BY <1>1
  <2>2. -flow.decay * 16 \in Int
    <3> DEFINE d == flow.decay
    <3>1. d \in Int
      BY <1>1
    <3>2. -d * 16 \in Int
      <4> HIDE DEF d
      <4> QED BY <3>1
    <3> QED BY <3>2
  <2> DEFINE a == flow.imbalance * 22
             b == (flow.hhi - 8) * 100
             c == -flow.decay * 16
             d == mf.align * 16
  <2>3. x2 = Truncado(a, 10) /\ x4 = Truncado(b, 12) /\ x8 = Truncado(c, 10) /\ x12 = Truncado(d, 10)
    OBVIOUS
  <2>4. a \in Int /\ b \in Int /\ c \in Int /\ d \in Int
    BY <2>1, <2>2
  <2> HIDE DEF a, b, c, d, x2, x4, x8, x12
  <2>5. /\ Truncado(a, 10) \in Int /\ Truncado(b, 12) \in Int
        /\ Truncado(c, 10) \in Int /\ Truncado(d, 10) \in Int
    BY <2>4, TruncadoLema
  <2> QED
    BY <2>3, <2>5
<1>5. x5 \in Int
  <2> DEFINE b == Mayor(1, liq.liq)
             a == dev_out * 1200
  <2>1. b \in Nat \ {0} /\ a \in Int
    BY <1>1 DEF Mayor
  <2> HIDE DEF a, b
  <2>2. a \div b \in Int
    BY <2>1
  <2> QED
    BY <2>2 DEF a, b
<1>6. x6 \in Int /\ x9 \in Int /\ x11 \in Int
  <2> DEFINE a == L(Mayor(liq.liq, 50))
             b == L(Mayor(flow.wallets, 1))
             c == L(age)
  <2>1. a \in Int /\ b \in Int /\ c \in Int
    BY LLema
  <2> HIDE DEF a, b, c
  <2>2. 418 - 10 * a \in Int /\ ((10 * b - 154) * 256) \div 100 \in Int /\ ((10 * c - 78) * 209) \div 100 \in Int
    BY <2>1
  <2> QED
    BY <2>2 DEF a, b, c
<1>7. Senales = {"momentum", "sobreextension", "presion_compra", "caida_desde_ath", "concentracion",
                 "dev_vendiendo", "liquidez_fina", "rotacion_rara", "actividad_cae", "participacion",
                 "cerca_graduar", "estancado", "tendencia_align", "agotamiento"}
  BY DEF Senales, WEIGHTS
<1> HIDE DEF x1, x2, x3, x4, x5, x6, x7, x8, x9, x10, x11, x12, f_ok, c_ok, dev_out, parado, sig
<1>8. /\ \A x \in {x5, x6, x7, x10, x11, x12, mf.fading} : clip(x) \in Int
      /\ \A x \in {stats.ret_z, x1, x2, x3, x4, x8, x9} :
            /\ Con(x, f_ok) \in Int /\ (f_ok = 0 => Con(x, f_ok) = 0)
            /\ Con(x, c_ok) \in Int /\ (c_ok = 0 => Con(x, c_ok) = 0)
  <2>1. \A x \in Int : clip(x) \in Int
    <3>1. -250 .. 250 \subseteq Int
      OBVIOUS
    <3> QED
      BY <3>1, ClipLema
  <2>2. ASSUME NEW x \in Int, NEW ok \in {f_ok, c_ok}
        PROVE  Con(x, ok) \in Int /\ (ok = 0 => Con(x, ok) = 0)
    <3>1. ok \in Int
      BY <1>2
    <3> QED
      BY <3>1, ConLema DEF Con
  <2> HIDE DEF Con
  <2> QED
    BY <1>1, <1>3, <1>4, <1>5, <1>6, <2>1, <2>2
<1> HIDE DEF Con
<1>9. /\ sig.momentum \in Int /\ sig.sobreextension \in Int /\ sig.presion_compra \in Int
      /\ sig.caida_desde_ath \in Int /\ sig.concentracion \in Int /\ sig.dev_vendiendo \in Int
      /\ sig.liquidez_fina \in Int /\ sig.rotacion_rara \in Int /\ sig.actividad_cae \in Int
      /\ sig.participacion \in Int /\ sig.cerca_graduar \in Int /\ sig.estancado \in Int
      /\ sig.tendencia_align \in Int /\ sig.agotamiento \in Int
  BY <1>0, <1>8 DEF Si
<1>10. /\ flow.n = 0 => /\ sig.presion_compra = 0 /\ sig.concentracion = 0 /\ sig.dev_vendiendo = 0
                        /\ sig.actividad_cae = 0 /\ sig.participacion = 0
       /\ stats.n = 0 => sig.momentum = 0 /\ sig.sobreextension = 0 /\ sig.caida_desde_ath = 0
       /\ ~mf.have => sig.tendencia_align = 0 /\ sig.agotamiento = 0
       /\ liq.liq = 0 => sig.rotacion_rara = 0
  BY <1>0, <1>1, <1>2, <1>8 DEF Si
<1>11. \A s \in Calladas(flow, stats, liq, mf) : sig[s] = 0
  BY <1>10 DEF Calladas
<1>12. \A s \in Senales : sig[s] \in Int
  BY <1>7, <1>9
<1> QED
  BY <1>11, <1>12 DEF sig

\* At most y, of either sign.
ALo(x, y) == -y <= x /\ x <= y

\* There are fourteen signals.
LEMMA SenalesFinitas ==
    IsFiniteSet(Senales) /\ Cardinality(Senales) \in Nat /\ Cardinality(Senales) <= 14
<1> DEFINE T == {"momentum", "sobreextension", "presion_compra", "caida_desde_ath", "concentracion",
                 "dev_vendiendo", "liquidez_fina"}
           U == {"rotacion_rara", "actividad_cae", "participacion",
                 "cerca_graduar", "estancado", "tendencia_align", "agotamiento"}
           f == [n \in 1 .. 14 |-> <<"momentum", "sobreextension", "presion_compra", "caida_desde_ath",
                  "concentracion", "dev_vendiendo", "liquidez_fina", "rotacion_rara", "actividad_cae",
                  "participacion", "cerca_graduar", "estancado", "tendencia_align", "agotamiento">>[n]]
<1>1. Senales = T \cup U
  BY DEF Senales, WEIGHTS
<1> DEFINE k == 14
           N == 1 .. k
<1>2. IsFiniteSet(N) /\ Cardinality(N) = 14
  <2> DEFINE u == 1
  <2>1. k \in Int /\ u \in Int /\ ~(u > k) /\ k - u + 1 = 14
    OBVIOUS
  <2>2. N = u .. k
    OBVIOUS
  <2> HIDE DEF k, u, N
  <2>3. /\ IsFiniteSet(u .. k)
        /\ Cardinality(u .. k) = IF u > k THEN 0 ELSE k - u + 1
    BY <2>1, FS_Interval
  <2> QED
    BY <2>1, <2>2, <2>3
<1>3. f \in Surjection(N, Senales)
  <2>1. \A n \in N : f[n] \in Senales
    BY <1>1
  <2>2. /\ f[1] = "momentum" /\ f[2] = "sobreextension" /\ f[3] = "presion_compra"
        /\ f[4] = "caida_desde_ath" /\ f[5] = "concentracion" /\ f[6] = "dev_vendiendo"
        /\ f[7] = "liquidez_fina" /\ f[8] = "rotacion_rara" /\ f[9] = "actividad_cae"
        /\ f[10] = "participacion" /\ f[11] = "cerca_graduar" /\ f[12] = "estancado"
        /\ f[13] = "tendencia_align" /\ f[14] = "agotamiento"
    OBVIOUS
  <2>3. \A s \in Senales : \E n \in N : f[n] = s
    <3>1. /\ \A n \in {1, 2, 3, 4, 5, 6, 7, 8, 9, 10, 11, 12, 13, 14} : n \in N
      OBVIOUS
    <3> HIDE DEF N, f
    <3> QED
      BY <1>1, <2>2, <3>1
  <2>4. f \in [N -> Senales]
    <3>1. f = [n \in N |-> f[n]]
      OBVIOUS
    <3> HIDE DEF f
    <3> QED
      BY <2>1, <3>1
  <2> HIDE DEF f, N
  <2> QED
    BY <2>3, <2>4 DEF Surjection
<1> HIDE DEF N, f
<1>4. IsFiniteSet(Senales) /\ Cardinality(Senales) <= Cardinality(N)
  BY <1>2, <1>3, FS_Surjection
<1> QED
  BY <1>2, <1>4, FS_CardinalityType

\* No class goes beyond the peak.
LEMMA CumbreLema ==
    ASSUME NEW t \in [Clases -> Int]
    PROVE  Cumbre(t) \in Nat /\ \A c \in Clases : ALo(t[c], Cumbre(t))
<1> DEFINE A(c) == Mayor(t[c], -t[c])
           S == {A(c) : c \in Clases}
<1>1. \A c \in Clases : A(c) \in Nat /\ ALo(t[c], A(c))
  <2>1. ASSUME NEW c \in Clases PROVE A(c) \in Nat /\ ALo(t[c], A(c))
    <3> DEFINE x == t[c]
    <3>1. x \in Int
      OBVIOUS
    <3> HIDE DEF x
    <3>2. Mayor(x, -x) \in Nat /\ ALo(x, Mayor(x, -x))
      BY <3>1 DEF Mayor, ALo
    <3> QED
      BY <3>2 DEF x
  <2> HIDE DEF A
  <2> QED
    BY <2>1
<1>2. S = {A("SUBIDA"), A("RANGO"), A("BAJADA")}
  BY DEF Clases
<1>3. IsFiniteSet(S) /\ S # {}
  <2> HIDE DEF A, S
  <2>1. IsFiniteSet({A("SUBIDA")})
    BY FS_Singleton
  <2>2. IsFiniteSet({A("SUBIDA")} \cup {A("RANGO")})
    BY <2>1, FS_AddElement
  <2>3. IsFiniteSet(({A("SUBIDA")} \cup {A("RANGO")}) \cup {A("BAJADA")})
    BY <2>2, FS_AddElement
  <2>4. S = ({A("SUBIDA")} \cup {A("RANGO")}) \cup {A("BAJADA")}
    BY <1>2
  <2> QED
    BY <2>3, <2>4
<1>4. Cumbre(t) = Max(S)
  BY DEF Cumbre
<1>5. S \in SUBSET Int /\ S \in SUBSET Nat /\ \A c \in Clases : A(c) \in S
  <2> HIDE DEF A
  <2> QED
    BY <1>1
<1>6. Max(S) \in S /\ \A y \in S : y <= Max(S)
  <2> HIDE DEF S
  <2> QED
    BY <1>3, <1>5, MaxLema
<1>7. ASSUME NEW c \in Clases PROVE ALo(t[c], Max(S))
  <2>1. A(c) <= Max(S) /\ A(c) \in Nat /\ Max(S) \in Nat /\ t[c] \in Int
    <3> HIDE DEF A, S
    <3> QED BY <1>1, <1>5, <1>6
  <2>2. ALo(t[c], A(c))
    BY <1>1
  <2> HIDE DEF A, S
  <2> DEFINE a == A(c)
             b == Max(S)
             x == t[c]
  <2>3. ALo(x, a) /\ a <= b /\ a \in Nat /\ b \in Nat /\ x \in Int
    BY <2>1, <2>2
  <2> HIDE DEF a, b, x
  <2>4. ALo(x, b)
    BY <2>3 DEF ALo
  <2> QED
    BY <2>4 DEF x, b
<1> HIDE DEF S
<1> QED
  BY <1>4, <1>5, <1>6, <1>7

\* What some signals add is a number for each class.
LEMMA TotalLema ==
    ASSUME NEW ds, \A s \in Senales : ds[s] \in [Clases -> Int], NEW de \in SUBSET Senales
    PROVE  Total(ds, de) \in [Clases -> Int]
<1>1. ASSUME NEW c \in Clases PROVE SumFunction([s \in de |-> ds[s][c]]) \in Int
  <2> DEFINE f == [s \in de |-> ds[s][c]]
  <2>1. f \in [de -> Int] /\ IsFiniteSet(de)
    BY SenalesFinitas, FS_Subset
  <2> HIDE DEF f
  <2>2. SumFunction(f) \in Int
    BY <2>1, SumaLema
  <2> QED
    BY <2>2 DEF f
<1> QED
  BY <1>1 DEF Total

\* Nothing, for any class.
Nada3 == Clase3(0, 0, 0)

\* It is a number for each class.
LEMMA NadaLema == Nada3 = [c \in Clases |-> 0] /\ Nada3 \in [Clases -> Int]
<1>1. Nada3 = [c \in Clases |-> 0]
  BY DEF Nada3, Clase3, Clases
<1> QED
  BY <1>1

\* Scaled down or not, what is nothing stays nothing.
LEMMA AcotaLema ==
    ASSUME NEW d \in [Clases -> Int], NEW t \in [Clases -> Int], NEW lim \in Nat
    PROVE  /\ Acota(d, t, lim) \in [Clases -> Int]
           /\ d = Nada3 => Acota(d, t, lim) = Nada3
           /\ Cumbre(t) <= lim => Acota(d, t, lim) = d
           /\ Cumbre(t) > lim => \A c \in Clases :
                 LET y == Acota(d, t, lim)[c] IN
                 /\ lim * d[c] - Cumbre(t) <= Cumbre(t) * y
                 /\ Cumbre(t) * y <= lim * d[c] + Cumbre(t)
<1> DEFINE M == Cumbre(t)
           y == [c \in Clases |-> Truncado(d[c] * lim, M)]
<1>1. M \in Nat
  BY CumbreLema
<1>2. Acota(d, t, lim) = IF M <= lim THEN d ELSE y
  BY DEF Acota
<1>3. ASSUME M > lim, NEW c \in Clases
      PROVE  /\ Truncado(d[c] * lim, M) \in Int /\ (d[c] = 0 => Truncado(d[c] * lim, M) = 0)
             /\ lim * d[c] - M <= M * Truncado(d[c] * lim, M)
             /\ M * Truncado(d[c] * lim, M) <= lim * d[c] + M
  <2> DEFINE x == d[c]
             a == x * lim
             z == Truncado(a, M)
             p == M * z
  <2>1. x \in Int
    OBVIOUS
  <2>2. a \in Int /\ (x = 0 => a = 0) /\ a = lim * x
    <3> HIDE DEF x
    <3> QED BY <2>1
  <2>3. M \in Nat \ {0}
    <3> HIDE DEF M
    <3> QED BY <1>1, <1>3
  <2>4. z \in Int /\ (a = 0 => z = 0) /\ a - M < M * z /\ M * z < a + M
    <3> HIDE DEF M, a
    <3> QED BY <2>2, <2>3, TruncadoLema
  <2>5. a - M <= p /\ p <= a + M
    <3>1. p \in Int
      <4> HIDE DEF z, M
      <4> QED BY <2>3, <2>4
    <3>2. a - M < p /\ p < a + M
      BY <2>4
    <3> HIDE DEF p, M, a
    <3> QED BY <2>2, <2>3, <3>1, <3>2
  <2>6. lim * x - M <= p /\ p <= lim * x + M
    <3> HIDE DEF p, M, a, x
    <3> QED BY <2>2, <2>5
  <2> HIDE DEF M
  <2> QED
    BY <2>2, <2>4, <2>6
<1>4. M > lim => y \in [Clases -> Int]
  <2> HIDE DEF M
  <2> QED BY <1>3
<1>5. M > lim /\ d = Nada3 => y = Nada3
  <2> HIDE DEF M
  <2> QED BY <1>3, NadaLema
<1>6. M <= lim \/ M > lim
  <2> HIDE DEF M
  <2> QED BY <1>1
<1>7. ~(M <= lim /\ M > lim)
  <2> HIDE DEF M
  <2> QED BY <1>1
<1>8. ASSUME M > lim, NEW c \in Clases
      PROVE  LET z == Acota(d, t, lim)[c] IN
             lim * d[c] - M <= M * z /\ M * z <= lim * d[c] + M
  <2>1. Acota(d, t, lim)[c] = Truncado(d[c] * lim, M)
    <3> HIDE DEF M
    <3> QED BY <1>2, <1>7, <1>8
  <2> HIDE DEF M, y
  <2> QED
    BY <1>3, <1>8, <2>1
<1> HIDE DEF M, y
<1>9. Acota(d, t, lim) \in [Clases -> Int] /\ (d = Nada3 => Acota(d, t, lim) = Nada3)
      /\ (M <= lim => Acota(d, t, lim) = d)
  BY <1>2, <1>4, <1>5, <1>6
<1> QED
  BY <1>8, <1>9 DEF M

\* All scaled down by what they add up to.
Acotados(ds, lim) == [s \in Senales |-> Acota(ds[s], Total(ds, Senales), lim)]

\* A sum of what is scaled down to a cap goes beyond it by a thousandth at most.
LEMMA TopeLema ==
    ASSUME NEW ds, \A s \in Senales : ds[s] \in [Clases -> Int], NEW lim \in Nat
    PROVE  \A c \in Clases : ALo(Total(Acotados(ds, lim), Senales)[c], lim + 14)
<1> DEFINE t == Total(ds, Senales)
           M == Cumbre(t)
           ys == [s \in Senales |-> Acota(ds[s], t, lim)]
<1>0. Acotados(ds, lim) = ys
  BY DEF Acotados
<1>1. t \in [Clases -> Int]
  BY TotalLema
<1>2. M \in Nat /\ \A c \in Clases : ALo(t[c], M)
  BY <1>1, CumbreLema
<1>3. SUFFICES ASSUME NEW c \in Clases
               PROVE  ALo(Total(ys, Senales)[c], lim + 14)
  <2> HIDE DEF ys
  <2> QED BY <1>0
<1> DEFINE f == [s \in Senales |-> ds[s][c]]
           h == [s \in Senales |-> ys[s][c]]
           F == SumFunction(f)
           H == SumFunction(h)
           n == Cardinality(Senales)
<1>4. t[c] = F /\ Total(ys, Senales)[c] = H
  BY DEF Total
<1>5. \A s \in Senales : Acota(ds[s], t, lim) \in [Clases -> Int]
  <2> HIDE DEF t
  <2> QED BY <1>1, AcotaLema
<1>6. f \in [Senales -> Int] /\ h \in [Senales -> Int]
  <2> HIDE DEF t
  <2> QED BY <1>5
<1>7. F \in Int /\ H \in Int /\ n \in Nat /\ n <= 14
  <2> HIDE DEF f, h
  <2> QED BY <1>6, SenalesFinitas, SumaLema
<1>8. ALo(F, M)
  <2> HIDE DEF t, F, M
  <2> QED BY <1>2, <1>4
<1>9. CASE M <= lim
  <2>1. \A s \in Senales : Acota(ds[s], t, lim) = ds[s]
    <3> HIDE DEF t
    <3> QED BY <1>1, <1>9, AcotaLema DEF M
  <2>2. f = h
    <3> HIDE DEF t
    <3> QED BY <2>1
  <2>3. H = F
    <3> HIDE DEF f, h
    <3> QED BY <2>2
  <2>4. ALo(H, lim + 14)
    <3> HIDE DEF H, F, M
    <3> QED BY <1>2, <1>7, <1>8, <1>9, <2>3 DEF ALo
  <2> QED
    BY <1>4, <2>4
<1>10. CASE M > lim
  <2>1. \A s \in Senales : lim * f[s] - M <= M * h[s] /\ M * h[s] <= lim * f[s] + M
    <3> HIDE DEF t
    <3>1. \A s \in Senales : f[s] = ds[s][c] /\ h[s] = Acota(ds[s], t, lim)[c]
      OBVIOUS
    <3>2. \A s \in Senales : LET y == Acota(ds[s], t, lim)[c] IN
             /\ lim * ds[s][c] - Cumbre(t) <= Cumbre(t) * y
             /\ Cumbre(t) * y <= lim * ds[s][c] + Cumbre(t)
      BY <1>1, <1>10, AcotaLema DEF M
    <3> QED
      BY <3>1, <3>2 DEF M
  <2>2. lim * F - M * n <= M * H /\ M * H <= lim * F + M * n
    <3>1. M \in Nat \ {0}
      <4> HIDE DEF M
      <4> QED BY <1>2, <1>10
    <3> HIDE DEF f, h, M
    <3> QED
      BY <1>6, <2>1, <3>1, SenalesFinitas, EscalaLema
  <2>3. ALo(H, lim + 14)
    <3> HIDE DEF F, H, M, n
    <3>1. M \in Nat \ {0}
      BY <1>2, <1>10
    <3>2. -M <= F /\ F <= M
      BY <1>8 DEF ALo
    <3>3. lim * F <= lim * M /\ M * n <= M * 14 /\ -(lim * M) <= lim * F
      BY <1>7, <3>1, <3>2, SMTT(30)
    <3>4. M * H <= lim * M + M * 14 /\ -(lim * M) - M * 14 <= M * H
      <4> DEFINE a == lim * F
                 b == lim * M
                 d == M * n
                 e == M * 14
                 g == M * H
      <4>1. a \in Int /\ b \in Int /\ d \in Int /\ e \in Int /\ g \in Int
        BY <1>7, <3>1
      <4>2. a - d <= g /\ g <= a + d /\ a <= b /\ d <= e /\ -b <= a
        BY <2>2, <3>3
      <4> HIDE DEF a, b, d, e, g
      <4>3. g <= b + e /\ -b - e <= g
        BY <4>1, <4>2
      <4> QED
        BY <4>3 DEF a, b, d, e, g
    <3>5. H <= lim + 14
      <4>1. SUFFICES ASSUME H >= lim + 15 PROVE FALSE
        BY <1>7
      <4> DEFINE r == lim + 15
      <4>2. M * r <= M * H
        BY <1>7, <3>1, <4>1, SMTT(30)
      <4>3. M * r = lim * M + M * 14 + M
        BY <3>1
      <4> QED
        BY <1>7, <3>1, <3>4, <4>2, <4>3
    <3>6. -(lim + 14) <= H
      <4>1. SUFFICES ASSUME H <= -(lim + 15) PROVE FALSE
        BY <1>7
      <4> DEFINE r == -(lim + 15)
      <4>2. M * H <= M * r
        BY <1>7, <3>1, <4>1, SMTT(30)
      <4>3. M * r = -(lim * M) - M * 14 - M
        BY <3>1
      <4> QED
        BY <1>7, <3>1, <3>4, <4>2, <4>3
    <3> QED
      BY <3>5, <3>6 DEF ALo
  <2> QED
    BY <1>4, <2>3
<1>11. M <= lim \/ M > lim
  <2> HIDE DEF M
  <2> QED BY <1>2
<1> QED
  BY <1>9, <1>10, <1>11

\* The weights, the groups and the caps.
LEMMA PesosLema ==
    /\ \A s \in Senales : WEIGHTS[s] \in [Clases -> Int]
    /\ \A s \in Senales : \E g \in GROUPS : s \in g
    /\ \A g \in GROUPS : g \in SUBSET Senales
    /\ GROUP_CAP \in Nat /\ TOTAL_CAP \in Nat /\ TOTAL_CAP = 16000
<1>1. \A x, y, z \in Int : Clase3(x, y, z) \in [Clases -> Int]
  BY DEF Clase3, Clases
<1>2. Senales = {"momentum", "sobreextension", "presion_compra", "caida_desde_ath", "concentracion",
                 "dev_vendiendo", "liquidez_fina", "rotacion_rara", "actividad_cae", "participacion",
                 "cerca_graduar", "estancado", "tendencia_align", "agotamiento"}
  BY DEF Senales, WEIGHTS
<1>4. \A s \in Senales : WEIGHTS[s] \in [Clases -> Int]
  <2> DEFINE X == [Clases -> Int]
  <2>1. \A x, y, z \in Int : Clase3(x, y, z) \in X
    BY <1>1
  <2> HIDE DEF X
  <2>2. /\ WEIGHTS["momentum"] \in X /\ WEIGHTS["sobreextension"] \in X
        /\ WEIGHTS["presion_compra"] \in X /\ WEIGHTS["caida_desde_ath"] \in X
        /\ WEIGHTS["concentracion"] \in X /\ WEIGHTS["dev_vendiendo"] \in X
        /\ WEIGHTS["liquidez_fina"] \in X /\ WEIGHTS["rotacion_rara"] \in X
        /\ WEIGHTS["actividad_cae"] \in X /\ WEIGHTS["participacion"] \in X
        /\ WEIGHTS["cerca_graduar"] \in X /\ WEIGHTS["estancado"] \in X
        /\ WEIGHTS["tendencia_align"] \in X /\ WEIGHTS["agotamiento"] \in X
    BY <2>1 DEF WEIGHTS
  <2>3. \A s \in Senales : WEIGHTS[s] \in X
    BY <1>2, <2>2
  <2> QED
    BY <2>3 DEF X
<1>5. \A s \in Senales : \E g \in GROUPS : s \in g
  BY <1>2 DEF GROUPS
<1>6. \A g \in GROUPS : g \in SUBSET Senales
  BY <1>2 DEF GROUPS
<1> QED
  BY <1>4, <1>5, <1>6 DEF GROUP_CAP, TOTAL_CAP

\* What each signal adds is a number for each class, nothing when the signal
\* is 0, and no more than the cap in all.
LEMMA AportesLema ==
    ASSUME NEW sig, \A s \in Senales : sig[s] \in Int, NEW conf \in Int
    PROVE  LET contrib == Aportes(sig, conf)
           IN  /\ \A s \in Senales : contrib[s] \in [Clases -> Int]
               /\ \A s \in Senales : sig[s] = 0 => contrib[s] = Nada3
               /\ \A c \in Clases : ALo(Total(contrib, Senales)[c], 16014)
<1> DEFINE raw == [s \in Senales |-> [c \in Clases |-> Truncado(WEIGHTS[s][c] * sig[s] * conf, 100)]]
           Grupo(s) == CHOOSE g \in GROUPS : s \in g
           TG(s) == Total(raw, Grupo(s))
           scaled == [s \in Senales |-> Acota(raw[s], TG(s), GROUP_CAP)]
           T == Total(scaled, Senales)
           final == [s \in Senales |-> Acota(scaled[s], T, TOTAL_CAP)]
<1>1. Aportes(sig, conf) = final
  BY DEF Aportes
<1>2. ASSUME NEW s \in Senales, NEW c \in Clases
      PROVE  LET x == Truncado(WEIGHTS[s][c] * sig[s] * conf, 100)
             IN  x \in Int /\ (sig[s] = 0 => x = 0)
  <2> DEFINE w == WEIGHTS[s][c]
             g == sig[s]
             p == w * g * conf
  <2>1. w \in Int /\ g \in Int
    BY PesosLema
  <2>2. p \in Int /\ (g = 0 => p = 0)
    <3> HIDE DEF w, g
    <3> QED BY <2>1
  <2>3. Truncado(p, 100) \in Int /\ (p = 0 => Truncado(p, 100) = 0)
    <3> HIDE DEF p
    <3> QED BY <2>2, TruncadoLema
  <2> QED
    BY <2>2, <2>3
<1>3. \A s \in Senales : raw[s] \in [Clases -> Int] /\ (sig[s] = 0 => raw[s] = Nada3)
  BY <1>2, NadaLema
<1>4. \A s \in Senales : TG(s) \in [Clases -> Int]
  <2>1. \A s \in Senales : Grupo(s) \in SUBSET Senales
    BY PesosLema
  <2> HIDE DEF raw, Grupo
  <2> QED
    BY <1>3, <2>1, TotalLema
<1>5. \A s \in Senales : scaled[s] \in [Clases -> Int] /\ (sig[s] = 0 => scaled[s] = Nada3)
  <2> HIDE DEF raw, TG
  <2> QED
    BY <1>3, <1>4, AcotaLema, PesosLema
<1> HIDE DEF scaled
<1>6. T \in [Clases -> Int]
  BY <1>5, TotalLema
<1>7. \A s \in Senales : final[s] \in [Clases -> Int] /\ (sig[s] = 0 => final[s] = Nada3)
  <2> HIDE DEF T
  <2>1. ASSUME NEW s \in Senales
        PROVE  /\ Acota(scaled[s], T, TOTAL_CAP) \in [Clases -> Int]
               /\ sig[s] = 0 => Acota(scaled[s], T, TOTAL_CAP) = Nada3
    <3>1. scaled[s] \in [Clases -> Int] /\ TOTAL_CAP \in Nat
      BY <1>5, PesosLema
    <3> QED
      BY <1>5, <1>6, <3>1, AcotaLema
  <2> QED
    BY <2>1
<1>8. \A c \in Clases : ALo(Total(final, Senales)[c], 16014)
  <2>0. final = Acotados(scaled, TOTAL_CAP)
    BY DEF Acotados
  <2> HIDE DEF final
  <2>1. \A c \in Clases : ALo(Total(final, Senales)[c], TOTAL_CAP + 14)
    BY <1>5, <2>0, PesosLema, TopeLema
  <2>2. TOTAL_CAP + 14 = 16014
    BY DEF TOTAL_CAP
  <2> HIDE DEF final
  <2> QED
    BY <2>1, <2>2
<1> HIDE DEF final
<1> QED
  BY <1>1, <1>7, <1>8

\* The confidence is a number.
LEMMA ConfianzaLema ==
    ASSUME NEW stats, EsEstado(stats), NEW flow, EsFlujo(flow), NEW liq, EsLiquidez(liq), NEW age \in Int
    PROVE  confidence(stats, flow, liq, age) \in Int
<1> DEFINE a == Rampa(stats.n, 60)
           b == Rampa(flow.n, 120)
           l == L(Mayor(liq.liq, 10))
           u == ((10 * l - 100) * 10) \div 27
           c == Menor(100, u)
           g == Mayor(age, 0)
           v == (g * 200) \div 3
           d == Menor(100, v)
           x == (a + b + c + d) \div 4
<1>1. a \in Int /\ b \in Int
  <2>1. stats.n \in Nat /\ flow.n \in Nat
    BY DEF EsEstado, EsFlujo
  <2> QED
    BY <2>1, RampaLema
<1>2. c \in Int
  <2>1. l \in Int
    BY LLema
  <2>2. u \in Int
    <3> HIDE DEF l
    <3> QED BY <2>1
  <2> HIDE DEF u
  <2> QED
    BY <2>2 DEF Menor
<1>3. d \in Int
  <2>1. g \in Int
    BY DEF Mayor
  <2>2. v \in Int
    <3> HIDE DEF g
    <3> QED BY <2>1
  <2> HIDE DEF v
  <2> QED
    BY <2>2 DEF Menor
<1>4. x \in Int
  <2> HIDE DEF a, b, c, d
  <2> QED BY <1>1, <1>2, <1>3
<1>5. confidence(stats, flow, liq, age) = Entre(x, 12, 95)
  BY DEF confidence
<1> HIDE DEF x
<1> QED
  BY <1>4, <1>5, EntreLema

\* What the model gives.
EsPrediccion(p) ==
    /\ DOMAIN p = {"prior", "signals", "contrib", "probs"}
    /\ p.probs["BAJADA"] \in Int /\ p.probs["SUBIDA"] \in Int

\* predict gives it, and no signal whose source said nothing adds anything.
LEMMA PredecirLema ==
    ASSUME NEW curve, curve.complete \in BOOLEAN, curve.progress \in Int,
           NEW stats, EsEstado(stats), NEW flow, EsFlujo(flow), NEW liq, EsLiquidez(liq),
           NEW age \in Int, NEW mf, EsMarcos(mf)
    PROVE  LET p == predict(curve, stats, flow, liq, age, mf)
           IN  /\ EsPrediccion(p)
               /\ \A s \in Calladas(flow, stats, liq, mf) : p.contrib[s] = Clase3(0, 0, 0)
<1> DEFINE p == predict(curve, stats, flow, liq, age, mf)
           prior == PRIORS[regime(curve)]
           sig == build_signals(curve, stats, flow, liq, age, mf)
           conf == confidence(stats, flow, liq, age)
           contrib == Aportes(sig, conf)
           total == Total(contrib, Senales)
           exps == [c \in Clases |-> prior[c] * E[Truncado(total[c], 1000)]]
           tot == SumFunction(exps)
           probs == [c \in Clases |-> (exps[c] * 100) \div tot]
<1>1. p = [prior |-> prior, signals |-> sig, contrib |-> contrib, probs |-> probs]
  BY DEF predict
<1>2. (\A s \in Senales : sig[s] \in Int) /\ \A s \in Calladas(flow, stats, liq, mf) : sig[s] = 0
  BY SenalesLema
<1>3. conf \in Int
  BY ConfianzaLema
<1>4. Calladas(flow, stats, liq, mf) \subseteq Senales
  BY DEF Calladas, Senales, WEIGHTS
<1>5. /\ \A s \in Senales : contrib[s] \in [Clases -> Int] /\ (sig[s] = 0 => contrib[s] = Nada3)
      /\ \A c \in Clases : ALo(total[c], 16014)
  <2>1. \A s \in Senales : sig[s] \in Int
    BY <1>2
  <2> HIDE DEF sig, conf
  <2>2. /\ \A s \in Senales : Aportes(sig, conf)[s] \in [Clases -> Int]
        /\ \A s \in Senales : sig[s] = 0 => Aportes(sig, conf)[s] = Nada3
        /\ \A c \in Clases : ALo(Total(Aportes(sig, conf), Senales)[c], 16014)
    BY <1>3, <2>1, AportesLema
  <2> QED
    BY <2>2
<1>6. total \in [Clases -> Int]
  <2> HIDE DEF contrib
  <2> QED
    BY <1>5, TotalLema
<1>7. ASSUME NEW c \in Clases PROVE Truncado(total[c], 1000) \in -40 .. 40
  <2> DEFINE x == total[c]
             z == Truncado(x, 1000)
  <2>1. x \in Int /\ -16014 <= x /\ x <= 16014
    <3>1. x \in Int /\ ALo(x, 16014)
      <4> HIDE DEF total
      <4> QED BY <1>5, <1>6
    <3> HIDE DEF x
    <3> QED BY <3>1 DEF ALo
  <2> HIDE DEF x
  <2>2. z \in Int /\ x - 1000 < 1000 * z /\ 1000 * z < x + 1000
    BY <2>1, TruncadoLema
  <2> HIDE DEF z
  <2>3. z \in -40 .. 40
    BY <2>1, <2>2
  <2> QED
    BY <2>3 DEF z, x
<1>8. \A c \in Clases : prior[c] \in Nat \ {0}
  <2>1. regime(curve) \in {"graduado", "curva_temprana", "curva_media", "curva_tardia"}
    <3> DEFINE I == {q \in {25, 70} : curve.progress >= q}
    <3>1. I \in {{}, {25}, {70}, {25, 70}}
      OBVIOUS
    <3>2. Cardinality(I) \in {0, 1, 2}
      <4>1. Cardinality({}) = 0
        BY FS_EmptySet
      <4>2. Cardinality({25}) = 1 /\ Cardinality({70}) = 1 /\ IsFiniteSet({25})
        BY FS_Singleton
      <4>3. Cardinality({25, 70}) = 2
        <5> DEFINE A == {25}
        <5>1. Cardinality({25} \cup {70}) = Cardinality({25}) + 1
          <6>1. 70 \notin A /\ IsFiniteSet(A)
            BY <4>2
          <6> HIDE DEF A
          <6>2. Cardinality(A \cup {70}) = Cardinality(A) + 1
            BY <6>1, FS_AddElement
          <6> QED
            BY <6>2 DEF A
        <5>2. {25} \cup {70} = {25, 70}
          OBVIOUS
        <5> QED
          BY <4>2, <5>1, <5>2
      <4> HIDE DEF I
      <4> QED
        BY <3>1, <4>1, <4>2, <4>3
    <3> HIDE DEF I
    <3>3. regime(curve) = IF curve.complete THEN "graduado"
                          ELSE <<"curva_temprana", "curva_media", "curva_tardia">>[Cardinality(I) + 1]
      BY DEF regime, I
    <3> QED
      BY <3>2, <3>3
  <2>2. \A r \in {"graduado", "curva_temprana", "curva_media", "curva_tardia"} :
           \A c \in Clases : PRIORS[r][c] \in Nat \ {0}
    BY DEF PRIORS, Clase3, Clases
  <2> QED
    BY <2>1, <2>2
<1>9. \A c \in Clases : exps[c] \in Nat \ {0}
  <2>1. ASSUME NEW c \in Clases PROVE exps[c] \in Nat \ {0}
    <3> DEFINE a == prior[c]
               b == E[Truncado(total[c], 1000)]
    <3>1. a \in Nat \ {0} /\ b \in Nat \ {0}
      <4> DEFINE k == Truncado(total[c], 1000)
      <4>1. k \in -40 .. 40
        <5> HIDE DEF total
        <5> QED BY <1>7
      <4>2. a \in Nat \ {0}
        <5> HIDE DEF prior
        <5> QED BY <1>8
      <4>3. E[k] \in Nat \ {0}
        <5> HIDE DEF k
        <5>1. E \in [-40 .. 40 -> Nat \ {0}]
          BY ELema
        <5> QED BY <4>1, <5>1
      <4> HIDE DEF a, k
      <4> QED BY <4>2, <4>3 DEF k
    <3>2. exps[c] = a * b
      <4> HIDE DEF prior, total
      <4> QED OBVIOUS
    <3> HIDE DEF a, b, exps
    <3>3. a * b \in Nat \ {0}
      BY <3>1
    <3> QED
      BY <3>2, <3>3
  <2> HIDE DEF exps
  <2> QED
    BY <2>1
<1>10. tot \in Nat \ {0}
  <2>1. IsFiniteSet(Clases) /\ Clases # {}
    <3>1. IsFiniteSet({"SUBIDA"})
      BY FS_Singleton
    <3>2. IsFiniteSet({"SUBIDA"} \cup {"RANGO"})
      BY <3>1, FS_AddElement
    <3>3. IsFiniteSet(({"SUBIDA"} \cup {"RANGO"}) \cup {"BAJADA"})
      BY <3>2, FS_AddElement
    <3>4. Clases = ({"SUBIDA"} \cup {"RANGO"}) \cup {"BAJADA"}
      BY DEF Clases
    <3> QED
      BY <3>3, <3>4
  <2>2. exps \in [Clases -> Int] /\ \A c \in Clases : exps[c] > 0
    <3>1. exps = [c \in Clases |-> exps[c]]
      OBVIOUS
    <3>2. \A c \in Clases : exps[c] \in Int /\ exps[c] > 0
      <4> HIDE DEF exps
      <4> QED BY <1>9
    <3> HIDE DEF exps
    <3> QED BY <3>1, <3>2
  <2> HIDE DEF exps
  <2> QED
    BY <2>1, <2>2, SumaLema
<1>11. probs["BAJADA"] \in Int /\ probs["SUBIDA"] \in Int
  <2>1. ASSUME NEW c \in Clases PROVE probs[c] \in Int
    <3> DEFINE a == exps[c] * 100
    <3>1. a \in Int
      <4> HIDE DEF exps
      <4> QED BY <1>9
    <3>2. probs[c] = a \div tot
      <4> HIDE DEF exps, tot
      <4> QED OBVIOUS
    <3> HIDE DEF a, tot, probs
    <3>3. a \div tot \in Int
      BY <1>10, <3>1
    <3> QED BY <3>2, <3>3
  <2> HIDE DEF probs
  <2> QED
    BY <2>1 DEF Clases
<1>12. \A s \in Calladas(flow, stats, liq, mf) : contrib[s] = Clase3(0, 0, 0)
  <2> HIDE DEF sig, conf, contrib
  <2> QED
    BY <1>2, <1>4, <1>5 DEF Nada3
<1> HIDE DEF prior, sig, contrib, probs
<1>13. EsPrediccion(p) /\ p.contrib = contrib
  <2> HIDE DEF p
  <2> QED
    BY <1>1, <1>11 DEF EsPrediccion
<1> QED
  BY <1>12, <1>13 DEF p

-----------------------------------------------------------------------------
(* The sorted draws, and what is read of them                              *)

\* What the edges of the range and what lies beyond need of the draws.
Orden(s) == \A i, j \in DOMAIN s : i <= j => s[i] <= s[j]

\* Draws each of which is no more than the next are in order.
LEMMA OrdenLema ==
    ASSUME NEW n \in Nat, NEW s \in [1 .. n -> Int], \A i \in 1 .. n - 1 : s[i] <= s[i + 1]
    PROVE  Orden(s)
<1> DEFINE Vale(d) == \A i \in 1 .. n : i + d \in 1 .. n => s[i] <= s[i + d]
           S == {d \in Nat : Vale(d)}
<1>1. 0 \in S
  OBVIOUS
<1>2. \A d \in Nat : d \in S => d + 1 \in S
  <2>1. ASSUME NEW d \in Nat, Vale(d), NEW i \in 1 .. n, i + (d + 1) \in 1 .. n
        PROVE  s[i] <= s[i + (d + 1)]
    <3> DEFINE j == i + d
    <3>1. j \in 1 .. n /\ j \in 1 .. n - 1 /\ i + (d + 1) = j + 1 /\ j + 1 \in 1 .. n
      BY <2>1
    <3>2. s[i] <= s[j]
      BY <2>1, <3>1
    <3> HIDE DEF j
    <3>3. s[j] <= s[j + 1] /\ s[j] \in Int /\ s[j + 1] \in Int /\ s[i] \in Int
      BY <3>1
    <3> QED
      BY <3>1, <3>2, <3>3
  <2> QED
    BY <2>1
<1> HIDE DEF S
<1>3. \A d \in Nat : d \in S
  BY <1>1, <1>2, Inducir
<1>4. ASSUME NEW i \in 1 .. n, NEW j \in 1 .. n, i <= j PROVE s[i] <= s[j]
  <2>1. j - i \in Nat /\ i + (j - i) = j
    BY <1>4
  <2>2. Vale(j - i)
    BY <1>3, <2>1 DEF S
  <2> QED
    BY <2>1, <2>2
<1>5. DOMAIN s = 1 .. n
  OBVIOUS
<1> QED
  BY <1>4, <1>5 DEF Orden

\* A mean of two integers, cut towards zero, lies between them.
LEMMA MediaLema ==
    ASSUME NEW a \in Int, NEW b \in Int, a <= b, NEW f \in 0 .. 99
    PROVE  LET m == Truncado(a * (100 - f) + b * f, 100)
           IN  m \in Int /\ a <= m /\ m <= b
<1> DEFINE x == a * (100 - f) + b * f
           m == Truncado(x, 100)
           d == (b - a) * f
<1>1. d \in Int /\ 0 <= d /\ d <= 100 * (b - a)
  <2> DEFINE e == b - a
  <2>1. e \in Nat
    OBVIOUS
  <2>2. e * f \in Nat /\ e * f <= e * 100
    <3> HIDE DEF e
    <3> QED BY <2>1, SMTT(30)
  <2> QED
    BY <2>2
<1>2. x = 100 * a + d
  OBVIOUS
<1> HIDE DEF d, x
<1>3. x \in Int /\ 100 * a <= x /\ x <= 100 * b
  BY <1>1, <1>2
<1>4. m = IF x >= 0 THEN x \div 100 ELSE -((-x) \div 100)
  BY DEF Truncado
<1> HIDE DEF m
<1>5. m \in Int /\ a <= m /\ m <= b
  BY <1>3, <1>4
<1> QED
  BY <1>5 DEF m, x

\* Of the same two draws, nearer to the second.
LEMMA MediaCrece ==
    ASSUME NEW a \in Int, NEW b \in Int, a <= b, NEW f \in 0 .. 99, NEW g \in 0 .. 99, f <= g
    PROVE  Truncado(a * (100 - f) + b * f, 100) <= Truncado(a * (100 - g) + b * g, 100)
<1> DEFINE x == a * (100 - f) + b * f
           y == a * (100 - g) + b * g
           d == (b - a) * (g - f)
<1>1. d \in Int /\ 0 <= d
  <2> DEFINE e == b - a
             h == g - f
  <2>1. e \in Nat /\ h \in Nat
    OBVIOUS
  <2>2. e * h \in Nat
    <3> HIDE DEF e, h
    <3> QED BY <2>1
  <2> QED
    BY <2>2
<1>2. y = x + d
  OBVIOUS
<1>3. x \in Int
  OBVIOUS
<1> HIDE DEF x, y, d
<1>4. y \in Int /\ x <= y
  BY <1>1, <1>2, <1>3
<1>5. Truncado(x, 100) <= Truncado(y, 100)
  BY <1>3, <1>4 DEF Truncado
<1> QED
  BY <1>5 DEF x, y

-----------------------------------------------------------------------------

\* The indices of the four numbers, in order.
LEMMA CocienteLema ==
    ASSUME NEW x \in Nat
    PROVE  x \div 100 \in Nat /\ x % 100 \in 0 .. 99 /\ x = 100 * (x \div 100) + (x % 100)
<1>1. x \div 100 \in Nat
  OBVIOUS
<1>2. x % 100 \in 0 .. 99
  OBVIOUS
<1>3. x % 100 = x - 100 * (x \div 100)
  BY Z3
<1>4. \A k \in Nat : \A r \in 0 .. 99 : r = x - 100 * k => x = 100 * k + r
  OBVIOUS
<1> QED
  BY <1>1, <1>2, <1>3, <1>4, Zenon

\* A quantile is read from two draws that there are.
LEMMA PosicionLema ==
    ASSUME NEW n \in Nat, n > 1, NEW q \in 0 .. 98
    PROVE  LET pos == q * (n - 1)
           IN  /\ pos \in Nat /\ pos \div 100 \in Nat /\ pos % 100 \in 0 .. 99
               /\ pos = 100 * (pos \div 100) + (pos % 100)
               /\ pos \div 100 + 1 \in 1 .. n /\ pos \div 100 + 2 \in 1 .. n
<1> DEFINE N == n - 1
           pos == q * N
<1>1. N \in Nat \ {0}
  OBVIOUS
<1>2. pos \in Nat /\ pos <= 98 * N
  <2> HIDE DEF N
  <2> QED BY <1>1, SMTT(30)
<1> HIDE DEF pos
<1>3. /\ pos \div 100 \in Nat /\ pos % 100 \in 0 .. 99
      /\ pos = 100 * (pos \div 100) + (pos % 100)
  BY <1>2, CocienteLema
<1>4. pos \div 100 <= N - 1
  <2> HIDE DEF N
  <2> QED BY <1>1, <1>2
<1>5. pos \div 100 + 1 \in 1 .. n /\ pos \div 100 + 2 \in 1 .. n
  BY <1>3, <1>4
<1> QED
  BY <1>2, <1>3, <1>5 DEF pos

\* A quantile lies between the two draws it is read from.
EsQuantile(s, n, z, k, f) ==
    /\ k \in Nat /\ k + 2 <= n /\ z \in Int /\ s[k + 1] <= z /\ z <= s[k + 2]
    /\ z = Truncado(s[k + 1] * (100 - f) + s[k + 2] * f, 100)

\* quantile gives it.
LEMMA QuantileLema ==
    ASSUME NEW n \in Nat, n > 1, NEW s \in [1 .. n -> Int], Len(s) = n, Orden(s), NEW q \in 0 .. 98
    PROVE  EsQuantile(s, n, quantile(s, q), (q * (n - 1)) \div 100, (q * (n - 1)) % 100)
<1> DEFINE pos == q * (n - 1)
           k == pos \div 100
           f == pos % 100
<1>1. k \in Nat /\ f \in 0 .. 99 /\ k + 1 \in 1 .. n /\ k + 2 \in 1 .. n
  <2> HIDE DEF pos
  <2> QED
    BY PosicionLema DEF pos
<1>2. quantile(s, q) = Truncado(s[k + 1] * (100 - f) + s[Menor(k + 1 + 1, n)] * f, 100)
  BY DEF quantile
<1> HIDE DEF k, f
<1>3. Menor(k + 1 + 1, n) = k + 2
  BY <1>1 DEF Menor
<1> DEFINE a == s[k + 1]
           b == s[k + 2]
<1>4. a \in Int /\ b \in Int /\ a <= b
  BY <1>1 DEF Orden
<1>5. quantile(s, q) = Truncado(a * (100 - f) + b * f, 100)
  BY <1>2, <1>3
<1> HIDE DEF a, b
<1>6. quantile(s, q) \in Int /\ a <= quantile(s, q) /\ quantile(s, q) <= b
  <2>1. LET m == Truncado(a * (100 - f) + b * f, 100) IN m \in Int /\ a <= m /\ m <= b
    BY <1>1, <1>4, MediaLema
  <2> QED
    BY <1>5, <2>1
<1>7. k + 2 <= n
  BY <1>1
<1>8. EsQuantile(s, n, quantile(s, q), k, f)
  BY <1>1, <1>5, <1>6, <1>7 DEF a, b, EsQuantile
<1> QED
  BY <1>8 DEF k, f

\* The quantiles grow with what is asked of them.
LEMMA QuantileCrece ==
    ASSUME NEW n \in Nat, n > 1, NEW s \in [1 .. n -> Int], Len(s) = n, Orden(s),
           NEW q \in 0 .. 98, NEW r \in 0 .. 98, q <= r
    PROVE  quantile(s, q) <= quantile(s, r)
<1> DEFINE N == n - 1
           x == q * N
           y == r * N
           k == x \div 100
           l == y \div 100
           f == x % 100
           g == y % 100
<1>1. x \in Nat /\ y \in Nat /\ x <= y
  <2>1. N \in Nat
    OBVIOUS
  <2> HIDE DEF N
  <2> QED
    BY <2>1, SMTT(30)
<1>2. EsQuantile(s, n, quantile(s, q), k, f) /\ EsQuantile(s, n, quantile(s, r), l, g)
  BY QuantileLema
<1>4. x = 100 * k + f /\ y = 100 * l + g /\ f \in 0 .. 99 /\ g \in 0 .. 99
  <2> HIDE DEF x, y
  <2>1. \A z \in Nat : z % 100 \in 0 .. 99 /\ z = 100 * (z \div 100) + (z % 100)
    BY CocienteLema
  <2> QED
    BY <1>1, <2>1, Zenon DEF k, l, f, g
<1> HIDE DEF x, y, k, l, f, g
<1>3. /\ k \in Nat /\ k + 2 <= n /\ quantile(s, q) \in Int /\ quantile(s, q) <= s[k + 2]
      /\ quantile(s, q) = Truncado(s[k + 1] * (100 - f) + s[k + 2] * f, 100)
      /\ l \in Nat /\ l + 2 <= n /\ quantile(s, r) \in Int /\ s[l + 1] <= quantile(s, r)
      /\ quantile(s, r) = Truncado(s[l + 1] * (100 - g) + s[l + 2] * g, 100)
  BY <1>2 DEF EsQuantile
<1>5. k < l \/ (k = l /\ f <= g)
  <2>1. k \in Nat /\ l \in Nat
    BY <1>3
  <2> QED
    BY <1>1, <1>4, <2>1
<1>6. CASE k < l
  <2>1. k + 2 \in DOMAIN s /\ l + 1 \in DOMAIN s /\ k + 2 <= l + 1
    BY <1>3, <1>6
  <2>2. s[k + 2] <= s[l + 1] /\ s[k + 2] \in Int /\ s[l + 1] \in Int
    BY <2>1 DEF Orden
  <2> QED
    BY <1>3, <2>2
<1>7. CASE k = l /\ f <= g
  <2> DEFINE a == s[k + 1]
             b == s[k + 2]
  <2>1. k + 1 \in DOMAIN s /\ k + 2 \in DOMAIN s /\ k + 1 <= k + 2
    BY <1>3
  <2>2. a \in Int /\ b \in Int /\ a <= b
    BY <2>1 DEF Orden
  <2>3. /\ quantile(s, q) = Truncado(a * (100 - f) + b * f, 100)
        /\ quantile(s, r) = Truncado(a * (100 - g) + b * g, 100)
    BY <1>3, <1>7
  <2> HIDE DEF a, b
  <2>4. Truncado(a * (100 - f) + b * f, 100) <= Truncado(a * (100 - g) + b * g, 100)
    BY <1>4, <1>7, <2>2, MediaCrece
  <2> QED
    BY <2>3, <2>4
<1> QED
  BY <1>5, <1>6, <1>7

\* What breaks downwards is under the lower edge of the range,
LEMMA CabezaLema ==
    ASSUME NEW n \in Nat, n > 1, NEW s \in [1 .. n -> Int], Len(s) = n, Orden(s), NEW q \in 0 .. 98
    PROVE  CabezaMediana(s, q) \in Int /\ CabezaMediana(s, q) <= quantile(s, q)
<1> DEFINE N == n - 1
           x == q * N
           y == q * n
           l == x \div 100
           u == y \div 100
           k == Mayor(1, u)
           i == k \div 2 + 1
<1>1. x \in Nat /\ y = x + q /\ y \in Nat
  <2>1. N \in Nat /\ n = N + 1
    OBVIOUS
  <2> HIDE DEF N
  <2>2. x \in Nat
    BY <2>1
  <2>3. q * n = q * N + q
    BY <2>1
  <2> QED
    BY <2>2, <2>3
<1>2. l \in Nat /\ u \in Nat /\ u <= l + 1
  <2> HIDE DEF x, y
  <2> QED
    BY <1>1
<1>3. /\ l + 2 <= n /\ quantile(s, q) \in Int /\ s[l + 1] <= quantile(s, q)
  <2>1. EsQuantile(s, n, quantile(s, q), l, x % 100)
    BY QuantileLema
  <2> HIDE DEF l, x
  <2> QED
    BY <2>1 DEF EsQuantile
<1>4. CabezaMediana(s, q) = s[i]
  BY DEF CabezaMediana
<1> HIDE DEF l, u
<1>5. k \in Nat \ {0} /\ (k = 1 \/ k = u)
  BY <1>2 DEF Mayor
<1> HIDE DEF k
<1>6. i \in Nat /\ i >= 1 /\ i <= l + 1
  BY <1>2, <1>5
<1> HIDE DEF i
<1>7. i \in DOMAIN s /\ l + 1 \in DOMAIN s
  BY <1>2, <1>3, <1>6
<1>8. s[i] \in Int /\ s[l + 1] \in Int /\ s[i] <= s[l + 1]
  BY <1>6, <1>7 DEF Orden
<1> QED
  BY <1>3, <1>4, <1>8

\* and what breaks upwards is over the upper one.
LEMMA ColaMedianaLema ==
    ASSUME NEW n \in Nat, n > 1, NEW s \in [1 .. n -> Int], Len(s) = n, Orden(s), NEW q \in 0 .. 98
    PROVE  ColaMediana(s, q) \in Int /\ quantile(s, q) <= ColaMediana(s, q)
<1> DEFINE N == n - 1
           x == q * N
           y == q * n
           l == x \div 100
           u == y \div 100
           k == Menor(N, u)
           i == k + (n - k) \div 2 + 1
<1>1. x \in Nat /\ y = x + q /\ y \in Nat
  <2>1. N \in Nat /\ n = N + 1
    OBVIOUS
  <2> HIDE DEF N
  <2>2. x \in Nat
    BY <2>1
  <2>3. q * n = q * N + q
    BY <2>1
  <2> QED
    BY <2>2, <2>3
<1>2. l \in Nat /\ u \in Nat /\ l <= u
  <2> HIDE DEF x, y
  <2> QED
    BY <1>1
<1>3. /\ l + 2 <= n /\ quantile(s, q) \in Int /\ quantile(s, q) <= s[l + 2]
  <2>1. EsQuantile(s, n, quantile(s, q), l, x % 100)
    BY QuantileLema
  <2> HIDE DEF l, x
  <2> QED
    BY <2>1 DEF EsQuantile
<1>4. ColaMediana(s, q) = s[i]
  BY DEF ColaMediana
<1> HIDE DEF l, u
<1>5. k \in Nat /\ k <= n - 1 /\ (k = n - 1 \/ k >= l)
  BY <1>2 DEF Menor
<1> HIDE DEF k
<1>6. i \in Nat /\ i <= n /\ l + 2 <= i
  <2>1. CASE k = n - 1
    <3>1. n - k = 1
      BY <2>1
    <3>2. i = n
      BY <2>1, <3>1
    <3> QED
      BY <1>2, <1>3, <3>2
  <2>2. CASE k # n - 1
    <3> DEFINE h == n - k
    <3>1. h \in Nat /\ h >= 2
      BY <1>5, <2>2
    <3>2. h \div 2 \in Nat /\ h \div 2 >= 1 /\ h \div 2 + 1 <= h
      <4> HIDE DEF h
      <4> QED BY <3>1
    <3>3. i = k + h \div 2 + 1
      OBVIOUS
    <3> DEFINE w == h \div 2
    <3>4. w \in Nat /\ w >= 1 /\ w + 1 <= n - k /\ i = k + w + 1
      BY <3>2, <3>3
    <3> HIDE DEF w, i
    <3> QED
      BY <1>2, <1>3, <1>5, <2>2, <3>4
  <2> QED
    BY <2>1, <2>2
<1> HIDE DEF i
<1>7. i \in DOMAIN s /\ l + 2 \in DOMAIN s
  BY <1>2, <1>3, <1>6
<1>8. s[i] \in Int /\ s[l + 2] \in Int /\ s[l + 2] <= s[i]
  BY <1>6, <1>7 DEF Orden
<1> QED
  BY <1>3, <1>4, <1>8

-----------------------------------------------------------------------------
(* What is drawn                                                           *)

\* A block goes round the returns, and adds up to an integer.
LEMMA BloqueLema ==
    ASSUME NEW n \in Nat \ {0}, NEW rets, \A i \in 1 .. n : rets[i] \in Int,
           NEW inicio \in 1 .. n, NEW cuantos \in Nat
    PROVE  SumFunction([j \in 1 .. cuantos |-> rets[((inicio + j - 2) % n) + 1]]) \in Int
<1> DEFINE f == [j \in 1 .. cuantos |-> rets[((inicio + j - 2) % n) + 1]]
           D == 1 .. cuantos
<1>1. ASSUME NEW j \in D PROVE rets[((inicio + j - 2) % n) + 1] \in Int
  <2> DEFINE x == inicio + j - 2
             r == x % n
  <2>1. x \in Nat
    OBVIOUS
  <2>2. r \in 0 .. n - 1
    <3> HIDE DEF x
    <3> QED BY <2>1
  <2>3. r + 1 \in 1 .. n
    <3> HIDE DEF r
    <3> QED BY <2>2
  <2> QED
    BY <2>3
<1>2. f \in [D -> Int]
  BY <1>1
<1>3. IsFiniteSet(D)
  <2> DEFINE u == 1
  <2>1. u \in Int /\ cuantos \in Int /\ D = u .. cuantos
    OBVIOUS
  <2> HIDE DEF u, D
  <2> QED
    BY <2>1, FS_Interval
<1> HIDE DEF f, D
<1>4. SumFunction(f) \in Int
  BY <1>2, <1>3, SumaLema
<1> QED
  BY <1>4 DEF f

\* What is added block after block is an integer.
Alarga(B, f, k) == IF k = 0 THEN {0} ELSE {a + b : a \in f[k - 1], b \in B}

\* All of them.
EsHasta(B, m, f) == f = [k \in 0 .. m |-> Alarga(B, f, k)]

\* They are integers.
LEMMA AlargaLema ==
    ASSUME NEW B \in SUBSET Int, NEW f, NEW k \in Nat, k # 0 => f[k - 1] \in SUBSET Int
    PROVE  Alarga(B, f, k) \in SUBSET Int
<1>1. CASE k = 0
  BY <1>1 DEF Alarga
<1>2. CASE k # 0
  <2> DEFINE A == f[k - 1]
  <2>1. A \in SUBSET Int
    BY <1>2
  <2> HIDE DEF A
  <2>2. {a + b : a \in A, b \in B} \in SUBSET Int
    BY <2>1
  <2>3. Alarga(B, f, k) = {a + b : a \in A, b \in B}
    BY <1>2 DEF Alarga, A
  <2> QED
    BY <2>2, <2>3
<1> QED
  BY <1>1, <1>2

\* It depends on the one before only.
LEMMA AlargaIgual ==
    ASSUME NEW B, NEW f, NEW g, NEW k, k # 0 => f[k - 1] = g[k - 1]
    PROVE  Alarga(B, f, k) = Alarga(B, g, k)
BY DEF Alarga

\* They exist, however many blocks there are,
LEMMA HayHasta ==
    ASSUME NEW B, NEW m \in Nat
    PROVE  \E f : EsHasta(B, m, f)
<1> DEFINE S == {i \in Nat : \E f : EsHasta(B, i, f)}
<1>1. 0 \in S
  <2> DEFINE f == [k \in 0 .. 0 |-> {0}]
  <2>1. ASSUME NEW g PROVE [k \in 0 .. 0 |-> Alarga(B, g, k)] = f
    <3>1. \A k \in 0 .. 0 : Alarga(B, g, k) = {0}
      BY DEF Alarga
    <3> QED
      BY <3>1
  <2> HIDE DEF f
  <2>2. EsHasta(B, 0, f)
    BY <2>1 DEF EsHasta
  <2> QED
    BY <2>2
<1>2. ASSUME NEW i \in Nat, NEW f, EsHasta(B, i, f) PROVE \E g : EsHasta(B, i + 1, g)
  <2> DEFINE N == Alarga(B, f, i + 1)
             D == 0 .. i + 1
             g == [k \in D |-> IF k = i + 1 THEN N ELSE f[k]]
  <2>1. \A k \in 0 .. i : f[k] = Alarga(B, f, k)
    <3> DEFINE h == [k \in 0 .. i |-> Alarga(B, f, k)]
    <3>1. f = h /\ \A k \in 0 .. i : h[k] = Alarga(B, f, k)
      BY <1>2, Zenon DEF EsHasta
    <3> HIDE DEF h
    <3> QED
      BY <3>1, Zenon
  <2>2. ASSUME NEW k \in D PROVE g[k] = Alarga(B, g, k)
    <3>1. CASE k = i + 1
      <4>1. k # 0 => k - 1 = i /\ i \in D /\ i # i + 1
        BY <3>1
      <4>2. k # 0 => g[k - 1] = f[k - 1]
        <5> HIDE DEF N, D
        <5> QED BY <4>1
      <4>3. g[k] = Alarga(B, f, k)
        <5> HIDE DEF D
        <5> QED BY <3>1
      <4> HIDE DEF g
      <4> QED
        BY <4>2, <4>3, AlargaIgual
    <3>2. CASE k # i + 1
      <4>1. k \in 0 .. i /\ (k # 0 => k - 1 \in D /\ k - 1 # i + 1)
        BY <3>2
      <4>2. k # 0 => g[k - 1] = f[k - 1]
        <5> HIDE DEF N, D
        <5> QED BY <4>1
      <4>3. g[k] = f[k]
        <5> HIDE DEF N, D
        <5> QED BY <3>2
      <4>4. g[k] = Alarga(B, f, k)
        BY <2>1, <4>1, <4>3, Zenon
      <4> HIDE DEF g
      <4> QED
        BY <4>2, <4>4, AlargaIgual
    <3> QED
      BY <3>1, <3>2
  <2>3. g = [k \in D |-> g[k]]
    OBVIOUS
  <2> HIDE DEF g
  <2>4. g = [k \in D |-> Alarga(B, g, k)]
    BY <2>2, <2>3, Zenon
  <2>5. EsHasta(B, i + 1, g)
    BY <2>4 DEF EsHasta, D
  <2> QED
    BY <2>5
<1>3. \A i \in Nat : i \in S => i + 1 \in S
  BY <1>2
<1>4. \A i \in Nat : i \in S
  <2> HIDE DEF S
  <2> QED
    BY <1>1, <1>3, Inducir
<1> QED
  BY <1>4

\* and the longest are integers.
LEMMA BloquesLema ==
    ASSUME NEW B \in SUBSET Int, NEW m \in Nat
    PROVE  (CHOOSE f : EsHasta(B, m, f))[m] \in SUBSET Int
<1> DEFINE hasta == CHOOSE f : EsHasta(B, m, f)
<1>1. EsHasta(B, m, hasta)
  BY HayHasta
<1> HIDE DEF hasta
<1>2. \A k \in 0 .. m : hasta[k] = Alarga(B, hasta, k)
  <2> DEFINE h == [k \in 0 .. m |-> Alarga(B, hasta, k)]
  <2>1. hasta = h /\ \A k \in 0 .. m : h[k] = Alarga(B, hasta, k)
    BY <1>1, Zenon DEF EsHasta
  <2> HIDE DEF h
  <2> QED
    BY <2>1, Zenon
<1> DEFINE T == {i \in Nat : i <= m => hasta[i] \in SUBSET Int}
<1>3. 0 \in T
  <2>1. 0 \in 0 .. m /\ 0 \in Nat
    OBVIOUS
  <2>2. Alarga(B, hasta, 0) \in SUBSET Int
    BY <2>1, AlargaLema
  <2> QED
    BY <1>2, <2>1, <2>2
<1>4. ASSUME NEW i \in Nat, i \in T, i + 1 <= m PROVE hasta[i + 1] \in SUBSET Int
  <2>1. hasta[i] \in SUBSET Int /\ i + 1 \in 0 .. m /\ i + 1 \in Nat /\ (i + 1) - 1 = i
    BY <1>4
  <2>2. Alarga(B, hasta, i + 1) \in SUBSET Int
    BY <2>1, AlargaLema
  <2> QED
    BY <1>2, <2>1, <2>2
<1>5. \A i \in Nat : i \in T => i + 1 \in T
  BY <1>4
<1>6. m \in T
  <2> HIDE DEF T
  <2> QED
    BY <1>3, <1>5, Inducir
<1> QED
  BY <1>6 DEF hasta

\* So is what is drawn.
LEMMA SumasLema ==
    ASSUME NEW n \in Nat \ {0}, NEW rets, Len(rets) = n, \A i \in 1 .. n : rets[i] \in Int,
           NEW hor \in Nat
    PROVE  Sumas(rets, hor) \in SUBSET Int
<1> DEFINE Bloque1(inicio, cuantos) == SumFunction([j \in 1 .. cuantos |-> rets[((inicio + j - 2) % n) + 1]])
           enteros == hor \div BLOQUE
           Bloques == {Bloque1(i, BLOQUE) : i \in 1 .. n}
           resto == {Bloque1(i, hor % BLOQUE) : i \in 1 .. n}
           hasta == CHOOSE f : EsHasta(Bloques, enteros, f)
<1>1. Sumas(rets, hor) = {a + b : a \in hasta[enteros], b \in resto}
  BY DEF Sumas, EsHasta, Alarga
<1>2. BLOQUE \in Nat \ {0} /\ enteros \in Nat /\ hor % BLOQUE \in Nat
  <2>1. BLOQUE \in Nat \ {0}
    BY RasgosAssumption
  <2> QED
    BY <2>1
<1>3. Bloques \in SUBSET Int /\ resto \in SUBSET Int
  <2>1. \A i \in 1 .. n : \A c \in Nat : Bloque1(i, c) \in Int
    BY BloqueLema
  <2> HIDE DEF Bloque1
  <2> QED
    BY <1>2, <2>1
<1>4. hasta[enteros] \in SUBSET Int
  <2> HIDE DEF Bloques, enteros
  <2> QED
    BY <1>2, <1>3, BloquesLema
<1> DEFINE A == hasta[enteros]
<1> HIDE DEF hasta, resto, enteros
<1>5. A \in SUBSET Int
  BY <1>4
<1> HIDE DEF A
<1>6. {a + b : a \in A, b \in resto} \in SUBSET Int
  BY <1>3, <1>5
<1> QED
  BY <1>1, <1>6 DEF A

\* There are no draws, or DRAWS of them in order.
LEMMA SorteoLema ==
    ASSUME NEW vs, EsVelas(vs), NEW h \in Nat \ {0},
           NEW boot \in bootstrap_horizon(LogRetornos(vs), h, DRAWS)
    PROVE  boot = << >> \/ (boot \in [1 .. DRAWS -> Int] /\ Len(boot) = DRAWS /\ Orden(boot))
<1> DEFINE rets == LogRetornos(vs)
           n == Len(rets)
           Suma == Sumas(rets, h)
<1>1. Len(vs) \in Nat /\ \A i \in 1 .. Len(vs) : vs[i].c \in Int
  BY DEF EsVelas
<1>2. n \in Nat /\ \A i \in 1 .. n : rets[i] \in Int
  <2> DEFINE k == Len(vs)
             r == [i \in 1 .. k - 1 |-> vs[i + 1].c - vs[i].c]
  <2>1. rets = r
    BY DEF LogRetornos
  <2>2. CASE k = 0
    <3>1. r = << >>
      BY <2>2
    <3> HIDE DEF r, rets
    <3>2. n = 0
      BY <2>1, <3>1
    <3> QED
      BY <3>2
  <2>3. CASE k # 0
    <3>1. k - 1 \in Nat
      BY <1>1, <2>3
    <3>2. \A i \in 1 .. k - 1 : r[i] \in Int
      <4>1. \A i \in 1 .. k - 1 : i \in 1 .. k /\ i + 1 \in 1 .. k
        BY <3>1
      <4> QED
        BY <1>1, <4>1
    <3>3. Len(r) = k - 1
      BY <3>1
    <3> HIDE DEF r, rets, k
    <3> QED
      BY <2>1, <3>1, <3>2, <3>3
  <2> QED
    BY <2>2, <2>3
<1> HIDE DEF rets, n
<1>3. MIN_RETS \in Nat \ {0} /\ DRAWS \in Nat
  BY RasgosAssumption, PronosticoAssumption
<1>4. boot = << >>
      \/ /\ n >= MIN_RETS /\ boot \in [1 .. DRAWS -> Suma]
         /\ \A i \in 1 .. DRAWS - 1 : boot[i] <= boot[i + 1]
  <2> HIDE DEF Suma
  <2>1. boot \in IF n < MIN_RETS \/ h < 1 THEN {<< >>}
                 ELSE {s \in [1 .. DRAWS -> Suma] : \A i \in 1 .. DRAWS - 1 : s[i] <= s[i + 1]}
    BY DEF bootstrap_horizon, rets, n, Suma
  <2>2. n < MIN_RETS \/ n >= MIN_RETS
    BY <1>2, <1>3
  <2>3. ~(h < 1)
    OBVIOUS
  <2>4. CASE n < MIN_RETS
    BY <2>1, <2>4
  <2>5. CASE ~(n < MIN_RETS)
    BY <2>1, <2>2, <2>3, <2>5
  <2> QED
    BY <2>4, <2>5
<1>5. n >= MIN_RETS => Suma \in SUBSET Int
  <2>1. n >= MIN_RETS => n \in Nat \ {0}
    BY <1>2, <1>3
  <2> QED
    BY <1>2, <2>1, SumasLema DEF n
<1>6. ASSUME boot # << >> PROVE boot \in [1 .. DRAWS -> Int] /\ Len(boot) = DRAWS /\ Orden(boot)
  <2> HIDE DEF Suma
  <2>1. boot \in [1 .. DRAWS -> Int] /\ \A i \in 1 .. DRAWS - 1 : boot[i] <= boot[i + 1]
    BY <1>4, <1>5, <1>6
  <2>2. Orden(boot)
    BY <1>3, <2>1, OrdenLema
  <2>3. Len(boot) = DRAWS
    BY <1>3, <2>1
  <2> QED
    BY <2>1, <2>2, <2>3
<1> QED
  BY <1>6

\* Clipping keeps the order.
LEMMA CapCrece ==
    ASSUME NEW x \in Int, NEW y \in Int, x <= y
    PROVE  cap(x) <= cap(y)
<1>1. -1600 \in Int /\ 1600 \in Int /\ -1600 < 1600
  OBVIOUS
<1> DEFINE l == -1600
           u == 1600
<1>2. cap(x) = Entre(x, l, u) /\ cap(y) = Entre(y, l, u)
  BY DEF cap
<1> HIDE DEF l, u
<1>3. l \in Int /\ u \in Int /\ l < u
  BY <1>1 DEF l, u
<1> QED
  BY <1>2, <1>3 DEF Entre, Mayor, Menor

\* The cuts are percentages, the lower one first.
LEMMA CortesLema ==
    ASSUME NEW probs, probs["BAJADA"] \in Int, probs["SUBIDA"] \in Int
    PROVE  Cortes(probs).lo \in 0 .. 98 /\ Cortes(probs).hi \in 0 .. 98
           /\ Cortes(probs).lo <= Cortes(probs).hi
<1> DEFINE b == probs["BAJADA"]
           u == probs["SUBIDA"]
           lo == Menor(48, Mayor(2, b))
           hi == Mayor(lo + 4, Menor(98, 100 - u))
<1>1. b \in Int /\ u \in Int
  OBVIOUS
<1>2. Cortes(probs).lo = lo /\ Cortes(probs).hi = hi
  BY DEF Cortes
<1> HIDE DEF b, u
<1>3. lo \in 2 .. 48
  BY <1>1 DEF Menor, Mayor
<1> HIDE DEF lo
<1>4. hi \in lo + 4 .. 98
  BY <1>1, <1>3 DEF Menor, Mayor
<1> HIDE DEF hi
<1> QED
  BY <1>2, <1>3, <1>4

\* What EscenariosEnOrden says of the bands.
EnOrden(b) == b.dn <= b.lo /\ b.lo <= b.hi /\ b.hi <= b.up

\* Drawn or by volatility alone, the bands are in order.
LEMMA BandasLema ==
    ASSUME NEW probs, probs["BAJADA"] \in Int, probs["SUBIDA"] \in Int, NEW move \in Nat,
           NEW boot, boot = << >> \/ (boot \in [1 .. DRAWS -> Int] /\ Len(boot) = DRAWS /\ Orden(boot))
    PROVE  EnOrden(Bandas(boot, probs, move))
<1> DEFINE lo == Cortes(probs).lo
           hi == Cortes(probs).hi
           b == Bandas(boot, probs, move)
<1>1. CASE boot # << >>
  <2>1. b.lo = cap(quantile(boot, lo)) /\ b.hi = cap(quantile(boot, hi))
        /\ b.up = cap(ColaMediana(boot, hi)) /\ b.dn = cap(CabezaMediana(boot, lo))
    BY <1>1 DEF Bandas
  <2>2. lo \in 0 .. 98 /\ hi \in 0 .. 98 /\ lo <= hi
    BY CortesLema
  <2>3. DRAWS \in Nat /\ DRAWS > 1 /\ boot \in [1 .. DRAWS -> Int] /\ Len(boot) = DRAWS /\ Orden(boot)
    BY <1>1, PronosticoAssumption
  <2> HIDE DEF lo, hi, b
  <2>4. CabezaMediana(boot, lo) \in Int /\ CabezaMediana(boot, lo) <= quantile(boot, lo)
    BY <2>2, <2>3, CabezaLema
  <2>5. ColaMediana(boot, hi) \in Int /\ quantile(boot, hi) <= ColaMediana(boot, hi)
    BY <2>2, <2>3, ColaMedianaLema
  <2>6. quantile(boot, lo) <= quantile(boot, hi)
    BY <2>2, <2>3, QuantileCrece
  <2>7. quantile(boot, lo) \in Int /\ quantile(boot, hi) \in Int
    <3>1. \A q \in 0 .. 98 : EsQuantile(boot, DRAWS, quantile(boot, q),
                                        (q * (DRAWS - 1)) \div 100, (q * (DRAWS - 1)) % 100)
      BY <2>3, QuantileLema
    <3> QED
      BY <2>2, <3>1 DEF EsQuantile
  <2>8. /\ cap(CabezaMediana(boot, lo)) <= cap(quantile(boot, lo))
        /\ cap(quantile(boot, lo)) <= cap(quantile(boot, hi))
        /\ cap(quantile(boot, hi)) <= cap(ColaMediana(boot, hi))
    BY <2>4, <2>5, <2>6, <2>7, CapCrece
  <2>9. EnOrden(b)
    BY <2>1, <2>8 DEF EnOrden
  <2> QED
    BY <2>9 DEF b
<1>2. CASE boot = << >>
  <2> DEFINE l == Truncado(-45 * move, 100)
             h == Truncado(45 * move, 100)
  <2>1. b.lo = l /\ b.hi = h /\ b.up = move /\ b.dn = -move
    BY <1>2 DEF Bandas
  <2>2. -move <= l /\ l <= h /\ h <= move
    <3> DEFINE x == 45 * move
    <3>1. x \in Nat /\ -45 * move = 0 - x /\ x <= 100 * move /\ 0 - x \in Int
      OBVIOUS
    <3>2. h = Truncado(x, 100) /\ l = Truncado(0 - x, 100)
      BY <3>1
    <3> HIDE DEF x, l, h
    <3>3. h \in Int /\ h >= 0 /\ 100 * h <= x
      BY <3>1, <3>2, TruncadoLema
    <3>4. l \in Int /\ l <= 0 /\ 100 * l >= 0 - x
      <4>1. 0 - x <= 0
        BY <3>1
      <4> QED
        BY <3>1, <3>2, <4>1, TruncadoLema
    <3> QED
      BY <3>1, <3>3, <3>4
  <2> HIDE DEF b, l, h
  <2>3. EnOrden(b)
    BY <2>1, <2>2 DEF EnOrden
  <2> QED
    BY <2>3 DEF b
<1> QED
  BY <1>1, <1>2

-----------------------------------------------------------------------------
(* The forecast, step by step                                              *)

\* What is measured of the token.
Medido(f) ==
    /\ EsFlujo(f.flow) /\ EsEstado(f.stats) /\ EsLiquidez(f.liq) /\ EsMarcos(f.mf)
    /\ f.curve.complete \in BOOLEAN /\ f.curve.progress \in Int
    /\ EsVelas(f.uso.velas) /\ f.uso.tf \in Nat \ {0} /\ f.horizonte \in Int

\* What is reported when it is measured,
Campos1 == {"uso", "curve", "stats", "flow", "liq", "mf", "horizonte"}

\* and when it is predicted.
Campos2 == Campos1 \cup {"prior", "signals", "contrib", "probs", "tendencia", "motivos"}

\* No signal whose own source said nothing adds anything.
CallaLoQueFalta(f) ==
    \A s \in Calladas(f.flow, f.stats, f.liq, f.mf) : f.contrib[s] = Clase3(0, 0, 0)

\* What is reported so far, step by step.
PronosticoInv ==
    /\ medida \in Medidas /\ horizonte \in Horizontes
    /\ fase \in {"fuentes", "medido", "predicho", "concluido"}
    /\ fase # "fuentes" => Medido(informe)
    /\ fase = "medido" => DOMAIN informe = Campos1
    /\ fase = "predicho" => /\ DOMAIN informe = Campos2
                            /\ informe.probs["BAJADA"] \in Int /\ informe.probs["SUBIDA"] \in Int
    /\ fase \in {"predicho", "concluido"} => CallaLoQueFalta(informe)
    /\ fase = "concluido" => EnOrden(informe.bandas)

\* What is there is kept.
LEMMA JuntarLema ==
    ASSUME NEW f, NEW g
    PROVE  /\ DOMAIN Amplia(f, g) = DOMAIN f \cup DOMAIN g
           /\ \A x \in DOMAIN f : Amplia(f, g)[x] = f[x]
           /\ \A x \in DOMAIN g : x \notin DOMAIN f => Amplia(f, g)[x] = g[x]
BY DEF Amplia

\* It says what the runs check.
LEMMA PropiedadesLema ==
    PronosticoInv => LoQueFaltaNoOpina /\ EscenariosEnOrden
<1> SUFFICES ASSUME PronosticoInv PROVE LoQueFaltaNoOpina /\ EscenariosEnOrden
  OBVIOUS
<1>1. LoQueFaltaNoOpina
  <2> SUFFICES ASSUME fase \in {"predicho", "concluido"}
               PROVE  /\ informe.flow.n = 0 => \A s \in {"presion_compra", "concentracion", "dev_vendiendo",
                                  "actividad_cae", "participacion"} : informe.contrib[s] = Clase3(0, 0, 0)
                      /\ informe.stats.n = 0 => \A s \in {"momentum", "sobreextension", "caida_desde_ath"} :
                                  informe.contrib[s] = Clase3(0, 0, 0)
                      /\ ~informe.mf.have => \A s \in {"tendencia_align", "agotamiento"} :
                                  informe.contrib[s] = Clase3(0, 0, 0)
                      /\ informe.liq.liq = 0 => \A s \in {"rotacion_rara"} :
                                  informe.contrib[s] = Clase3(0, 0, 0)
    BY DEF LoQueFaltaNoOpina
  <2>1. CallaLoQueFalta(informe)
    BY DEF PronosticoInv
  <2> QED
    BY <2>1 DEF CallaLoQueFalta, Calladas
<1>2. EscenariosEnOrden
  BY DEF PronosticoInv, EscenariosEnOrden, EnOrden
<1> QED
  BY <1>1, <1>2

\* Measuring keeps it,
LEMMA MedirLema == PronosticoInv /\ Medir1 => PronosticoInv'
<1> SUFFICES ASSUME PronosticoInv, Medir1 PROVE PronosticoInv'
  OBVIOUS
<1> DEFINE uso == VelasEnUso(medida, horizonte)
           h == Recorte(uso, horizonte)
           f == [uso |-> uso, curve |-> curve_state(medida.curva),
                 stats |-> price_stats(medida, uso.velas),
                 flow |-> flow_stats(medida.trades, medida.creador),
                 liq |-> liquidity_stats(medida.par, medida.pool), mf |-> multiframe(medida.par),
                 horizonte |-> h]
<1>1. EsMedida(medida) /\ horizonte \in Nat \ {0}
  BY PronosticoAssumption DEF PronosticoInv
<1>2. EsVelas(uso.velas) /\ uso.tf \in Nat \ {0}
  BY <1>1, UsoLema
<1>3. h \in Int
  <2> DEFINE l == Len(uso.velas)
             t == uso.tf
             span == l * t
  <2>1. l \in Nat /\ t \in Nat
    BY <1>2 DEF EsVelas
  <2>2. span \in Nat
    <3> HIDE DEF l, t
    <3> QED BY <2>1
  <2>3. h = IF span > 0 THEN Menor(horizonte, Mayor(3 * span, 15)) ELSE horizonte
    BY DEF Recorte
  <2> HIDE DEF h, span
  <2> QED
    BY <1>1, <2>2, <2>3 DEF Menor, Mayor
<1>4. curve_state(medida.curva).complete \in BOOLEAN /\ curve_state(medida.curva).progress \in Int
  BY <1>1, CurvaLema DEF EsMedida
<1>5. EsEstado(price_stats(medida, uso.velas))
  <2> DEFINE vs == uso.velas
  <2>1. EsVelas(vs)
    BY <1>2
  <2> HIDE DEF vs
  <2>2. EsEstado(price_stats(medida, vs))
    BY <1>1, <2>1, PreciosLema
  <2> QED
    BY <2>2 DEF vs
<1>6. EsFlujo(flow_stats(medida.trades, medida.creador))
  BY <1>1, FlujoLema DEF EsMedida
<1>7. EsLiquidez(liquidity_stats(medida.par, medida.pool)) /\ EsMarcos(multiframe(medida.par))
  <2>1. EsPar(medida.par) /\ EsPar(medida.pool)
    BY <1>1 DEF EsMedida
  <2> QED
    BY <2>1, LiquidezLema, MarcosLema
<1>8. fase' = "medido" /\ informe' = f /\ UNCHANGED <<medida, horizonte>>
  BY DEF Medir1
<1> HIDE DEF uso, h
<1>9. Medido(f) /\ DOMAIN f = Campos1
  BY <1>2, <1>3, <1>4, <1>5, <1>6, <1>7 DEF Medido, Campos1
<1> HIDE DEF f
<1>10. Medido(informe') /\ DOMAIN informe' = Campos1
  BY <1>8, <1>9
<1> QED
  BY <1>8, <1>10 DEF PronosticoInv

\* and predicting,
LEMMA PredecirPaso == PronosticoInv /\ Predecir => PronosticoInv'
<1> SUFFICES ASSUME PronosticoInv, Predecir PROVE PronosticoInv'
  OBVIOUS
<1> DEFINE f == informe
           pred == predict(f.curve, f.stats, f.flow, f.liq, medida.age, f.mf)
           r == [tendencia |-> trend_label(pred, f.mf), motivos |-> [c \in Clases |-> reasons(pred, c)]]
           g == Amplia(f, pred)
           h == Amplia(g, r)
<1>1. fase = "medido" /\ fase' = "predicho" /\ informe' = h /\ UNCHANGED <<medida, horizonte>>
  BY DEF Predecir
<1>2. Medido(f) /\ DOMAIN f = Campos1 /\ medida.age \in Int
  BY <1>1, PronosticoAssumption DEF PronosticoInv, EsMedida
<1>3. EsPrediccion(pred) /\ \A s \in Calladas(f.flow, f.stats, f.liq, f.mf) : pred.contrib[s] = Clase3(0, 0, 0)
  BY <1>2, PredecirLema DEF Medido
<1>4. DOMAIN r = {"tendencia", "motivos"}
  OBVIOUS
<1> HIDE DEF pred, r
<1>5. /\ DOMAIN g = Campos1 \cup {"prior", "signals", "contrib", "probs"}
      /\ \A x \in Campos1 : g[x] = f[x]
      /\ g.contrib = pred.contrib /\ g.probs = pred.probs
  <2>1. /\ DOMAIN g = DOMAIN f \cup DOMAIN pred
        /\ \A x \in DOMAIN f : g[x] = f[x]
        /\ \A x \in DOMAIN pred : x \notin DOMAIN f => g[x] = pred[x]
    BY JuntarLema
  <2>2. DOMAIN pred = {"prior", "signals", "contrib", "probs"}
    BY <1>3 DEF EsPrediccion
  <2>3. DOMAIN f = Campos1
    BY <1>2
  <2> HIDE DEF g, f
  <2>4. g["contrib"] = pred["contrib"] /\ g["probs"] = pred["probs"]
    <3>1. "contrib" \in DOMAIN pred /\ "probs" \in DOMAIN pred
      BY <2>2
    <3>2. "contrib" \notin DOMAIN f /\ "probs" \notin DOMAIN f
      BY <2>3 DEF Campos1
    <3> QED
      BY <2>1, <3>1, <3>2
  <2>5. /\ DOMAIN g = Campos1 \cup {"prior", "signals", "contrib", "probs"}
        /\ \A x \in Campos1 : g[x] = f[x]
    BY <2>1, <2>2, <2>3
  <2> QED
    BY <2>4, <2>5
<1> HIDE DEF g
<1>6. /\ DOMAIN h = Campos2
      /\ \A x \in Campos1 : h[x] = f[x]
      /\ h.contrib = pred.contrib /\ h.probs = pred.probs
  <2>1. /\ DOMAIN h = DOMAIN g \cup DOMAIN r
        /\ \A x \in DOMAIN g : h[x] = g[x]
    BY JuntarLema
  <2>2. DOMAIN h = Campos2
    BY <1>4, <1>5, <2>1 DEF Campos2
  <2>3. \A x \in Campos1 : h[x] = f[x]
    BY <1>5, <2>1
  <2>4. h["contrib"] = g["contrib"] /\ h["probs"] = g["probs"]
    BY <1>5, <2>1
  <2> HIDE DEF h
  <2> QED
    BY <1>5, <2>2, <2>3, <2>4
<1> HIDE DEF h
<1>7. /\ h.uso = f.uso /\ h.curve = f.curve /\ h.stats = f.stats /\ h.flow = f.flow
      /\ h.liq = f.liq /\ h.mf = f.mf /\ h.horizonte = f.horizonte
  BY <1>6 DEF Campos1
<1>8. Medido(h) /\ CallaLoQueFalta(h) /\ h.probs["BAJADA"] \in Int /\ h.probs["SUBIDA"] \in Int
  BY <1>2, <1>3, <1>6, <1>7 DEF Medido, CallaLoQueFalta, EsPrediccion
<1>9. Medido(informe') /\ CallaLoQueFalta(informe') /\ DOMAIN informe' = Campos2
      /\ informe'.probs["BAJADA"] \in Int /\ informe'.probs["SUBIDA"] \in Int
  BY <1>1, <1>6, <1>8
<1> QED
  BY <1>1, <1>9 DEF PronosticoInv

\* and concluding.
LEMMA ConcluirPaso == PronosticoInv /\ Concluir => PronosticoInv'
<1> SUFFICES ASSUME PronosticoInv, Concluir PROVE PronosticoInv'
  OBVIOUS
<1> DEFINE f == informe
           velas == Mayor(1, f.horizonte \div f.uso.tf)
           rets == LogRetornos(f.uso.velas)
           B(boot) == Bandas(boot, f.probs, medida.move)
<1>1. fase = "predicho" /\ fase' = "concluido" /\ UNCHANGED <<medida, horizonte>>
  BY DEF Concluir
<1>2. \E boot \in bootstrap_horizon(rets, velas, DRAWS) : \E s, e :
         informe' = Amplia(f, [bandas |-> B(boot), escenarios |-> s, condiciones |-> e])
  BY DEF Concluir
<1>3. PICK boot \in bootstrap_horizon(rets, velas, DRAWS) : \E s, e :
         informe' = Amplia(f, [bandas |-> B(boot), escenarios |-> s, condiciones |-> e])
  <2> HIDE DEF rets, velas, B
  <2> QED
    BY <1>2
<1>14. PICK s, e : informe' = Amplia(f, [bandas |-> B(boot), escenarios |-> s, condiciones |-> e])
  BY <1>3
<1>4. /\ Medido(f) /\ DOMAIN f = Campos2 /\ CallaLoQueFalta(f) /\ medida.move \in Nat
      /\ f.probs["BAJADA"] \in Int /\ f.probs["SUBIDA"] \in Int
  BY <1>1, PronosticoAssumption DEF PronosticoInv, EsMedida
<1>5. velas \in Nat \ {0}
  <2> DEFINE a == f.horizonte
             t == f.uso.tf
             q == a \div t
  <2>1. a \in Int /\ t \in Nat \ {0}
    BY <1>4 DEF Medido
  <2>2. q \in Int
    <3> HIDE DEF a, t
    <3> QED BY <2>1
  <2>3. velas = Mayor(1, q)
    OBVIOUS
  <2> HIDE DEF q, velas
  <2> QED
    BY <2>2, <2>3 DEF Mayor
<1>6. boot = << >> \/ (boot \in [1 .. DRAWS -> Int] /\ Len(boot) = DRAWS /\ Orden(boot))
  <2> DEFINE vs == f.uso.velas
  <2>1. EsVelas(vs) /\ boot \in bootstrap_horizon(LogRetornos(vs), velas, DRAWS)
    BY <1>4 DEF Medido
  <2> HIDE DEF vs, velas
  <2> QED
    BY <1>5, <2>1, SorteoLema
<1>7. EnOrden(B(boot))
  <2> DEFINE p == f.probs
             m == medida.move
  <2>1. p["BAJADA"] \in Int /\ p["SUBIDA"] \in Int /\ m \in Nat /\ B(boot) = Bandas(boot, p, m)
    BY <1>4
  <2> HIDE DEF p, m, B
  <2> QED
    BY <1>6, <2>1, BandasLema
<1> DEFINE x == B(boot)
           r == [bandas |-> x, escenarios |-> s, condiciones |-> e]
           h == Amplia(f, r)
<1>8. informe' = h /\ EnOrden(x)
  BY <1>14, <1>7
<1> HIDE DEF x, B, velas, rets
<1>9. DOMAIN r = {"bandas", "escenarios", "condiciones"} /\ r.bandas = x
  OBVIOUS
<1> HIDE DEF r
<1>10. h.bandas = x /\ \A c \in Campos2 : h[c] = f[c]
  <2>1. /\ \A c \in DOMAIN f : h[c] = f[c]
        /\ \A c \in DOMAIN r : c \notin DOMAIN f => h[c] = r[c]
    BY JuntarLema
  <2>2. "bandas" \in DOMAIN r /\ "bandas" \notin DOMAIN f
    BY <1>4, <1>9 DEF Campos1, Campos2
  <2>3. h["bandas"] = r["bandas"]
    BY <2>1, <2>2
  <2>4. \A c \in Campos2 : h[c] = f[c]
    BY <1>4, <2>1
  <2> HIDE DEF h
  <2> QED
    BY <1>9, <2>3, <2>4
<1> HIDE DEF h
<1>11. /\ h.uso = f.uso /\ h.curve = f.curve /\ h.stats = f.stats /\ h.flow = f.flow
       /\ h.liq = f.liq /\ h.mf = f.mf /\ h.horizonte = f.horizonte /\ h.contrib = f.contrib
  BY <1>10 DEF Campos1, Campos2
<1>12. Medido(h) /\ CallaLoQueFalta(h) /\ EnOrden(h.bandas)
  BY <1>4, <1>8, <1>10, <1>11 DEF Medido, CallaLoQueFalta
<1>13. Medido(informe') /\ CallaLoQueFalta(informe') /\ EnOrden(informe'.bandas)
  BY <1>8, <1>12
<1> QED
  BY <1>1, <1>13 DEF PronosticoInv

\* It holds of any source and any horizon.
LEMMA Pronostico_Inv ==
    InitPronostico /\ [][NextPronostico]_varsPronostico => []PronosticoInv
<1>1. InitPronostico => PronosticoInv
  BY DEF InitPronostico, PronosticoInv
<1>2. PronosticoInv /\ [NextPronostico]_varsPronostico => PronosticoInv'
  <2>1. PronosticoInv /\ UNCHANGED varsPronostico => PronosticoInv'
    BY DEF PronosticoInv, varsPronostico
  <2> QED
    BY <2>1, MedirLema, PredecirPaso, ConcluirPaso DEF NextPronostico
<1> QED
  BY <1>1, <1>2, PTL

\* In any forecast, the signals that are measured in the trades add nothing
\* when there are none, nor do those of the candles, of the changes of the pair
\* and of the turnover without theirs (build_signals and predict,
\* model.py:102-161, 278-330).  It says nothing of liquidez_fina, which takes
\* no liquidity for very little, nor of dev_vendiendo when there are trades and
\* no liquidity.
THEOREM Pronostico_LoQueFaltaNoOpina ==
    InitPronostico /\ [][NextPronostico]_varsPronostico => []LoQueFaltaNoOpina
<1>1. PronosticoInv => LoQueFaltaNoOpina
  BY PropiedadesLema
<1> QED
  BY <1>1, Pronostico_Inv, PTL

\* The bands of a forecast are in order: the range is not inside out and what
\* lies beyond it is beyond it, however the returns are drawn (analyze.py:
\* 212-236); the targets that are reported are not bound by it.
THEOREM Pronostico_EscenariosEnOrden ==
    InitPronostico /\ [][NextPronostico]_varsPronostico => []EscenariosEnOrden
<1>1. PronosticoInv => EscenariosEnOrden
  BY PropiedadesLema
<1> QED
  BY <1>1, Pronostico_Inv, PTL

-----------------------------------------------------------------------------
(* The analysis of a token: the score                                      *)

\* A few names are finitely many.
LEMMA CincoLema == ASSUME NEW a, NEW b, NEW c, NEW d, NEW e PROVE IsFiniteSet({a, b, c, d, e})
<1> DEFINE s1 == {a}
           s2 == s1 \cup {b}
           s3 == s2 \cup {c}
           s4 == s3 \cup {d}
           s5 == s4 \cup {e}
<1>1. s5 = {a, b, c, d, e}
  OBVIOUS
<1>2. IsFiniteSet({a}) /\ IsFiniteSet({b}) /\ IsFiniteSet({c}) /\ IsFiniteSet({d}) /\ IsFiniteSet({e})
  BY FS_Singleton
<1>3. IsFiniteSet(s2)
  BY <1>2, FS_Union
<1> HIDE DEF s2
<1>4. IsFiniteSet(s3)
  BY <1>2, <1>3, FS_Union
<1> HIDE DEF s3
<1>5. IsFiniteSet(s4)
  BY <1>2, <1>4, FS_Union
<1> HIDE DEF s4
<1>6. IsFiniteSet(s5)
  BY <1>2, <1>5, FS_Union
<1> QED
  BY <1>1, <1>6 DEF s2, s3, s4

\* The average of a token of which only what the chain says was measured.
LEMMA PonderadoLema ==
    ASSUME NEW scores, \A s \in DOMAIN ScoreWeights : scores[s] \in Int,
           \A s \in {"narrative", "momentum", "creator", "whale", "social_authenticity",
                     "exit_liquidity"} : scores[s] = 0
    PROVE  Ponderado(scores, ScoreWeights) =
              12 * scores["liquidity"] + 10 * scores["holder_quality"]
              + 10 * scores["distribution"] + 5 * scores["data_confidence"]
<1> DEFINE D == DOMAIN ScoreWeights
           r == {"narrative", "momentum", "creator", "whale", "social_authenticity", "exit_liquidity"}
           f == [s \in D |-> ScoreWeights[s] * scores[s]]
<1>1. D = {"narrative", "momentum", "liquidity", "holder_quality", "distribution", "creator", "whale",
           "social_authenticity", "exit_liquidity", "data_confidence"}
  BY DEF ScoreWeights
<1>2. /\ f["liquidity"] = 12 * scores["liquidity"] /\ f["holder_quality"] = 10 * scores["holder_quality"]
      /\ f["distribution"] = 10 * scores["distribution"]
      /\ f["data_confidence"] = 5 * scores["data_confidence"]
  BY <1>1 DEF ScoreWeights
<1>3. \A s \in D : ScoreWeights[s] \in Int
  BY DEF ScoreWeights
<1>4. f \in [D -> Int]
  <2> HIDE DEF D
  <2>1. \A s \in D : ScoreWeights[s] \in Int /\ scores[s] \in Int
    BY <1>3 DEF D
  <2>2. \A s \in D : ScoreWeights[s] * scores[s] \in Int
    BY <2>1
  <2> QED
    BY <2>2
<1>5. \A s \in r : f[s] = 0
  <2>1. \A s \in r : s \in D /\ scores[s] = 0 /\ ScoreWeights[s] \in Int
    BY <1>1, <1>3
  <2> HIDE DEF D, r
  <2> QED
    BY <2>1
<1>6. IsFiniteSet(D)
  <2>1. D = {"narrative", "momentum", "liquidity", "holder_quality", "distribution"}
            \cup {"creator", "whale", "social_authenticity", "exit_liquidity", "data_confidence"}
    BY <1>1
  <2>2. /\ IsFiniteSet({"narrative", "momentum", "liquidity", "holder_quality", "distribution"})
        /\ IsFiniteSet({"creator", "whale", "social_authenticity", "exit_liquidity", "data_confidence"})
    BY CincoLema
  <2> HIDE DEF D
  <2> QED
    BY <2>1, <2>2, FS_Union
<1>7. Ponderado(scores, ScoreWeights) = SumFunction(f)
  BY DEF Ponderado
<1> DEFINE d1 == D \ {"liquidity"}
           d2 == d1 \ {"holder_quality"}
           d3 == d2 \ {"distribution"}
           d4 == d3 \ {"data_confidence"}
<1>8. /\ "liquidity" \in D /\ "holder_quality" \in d1 /\ "distribution" \in d2 /\ "data_confidence" \in d3
      /\ d4 = r /\ r \in SUBSET D
  BY <1>1
<1>9. D \in SUBSET D /\ d1 \in SUBSET D /\ d2 \in SUBSET D /\ d3 \in SUBSET D /\ d4 \in SUBSET D
  OBVIOUS
<1>10. PICK g : EsPliegue(g, D, f)
  <2> HIDE DEF D, f
  <2> QED BY <1>4, <1>6, PliegueLema
<1> HIDE DEF D, f, r
<1>11. SinOrden(g, D, f)
  BY <1>4, <1>6, <1>10, SacarLema
<1>12. g[r] = 0
  BY <1>4, <1>5, <1>6, <1>8, <1>10, CerosLema
<1>13. /\ g[D] = f["liquidity"] + g[d1] /\ g[d1] = f["holder_quality"] + g[d2]
       /\ g[d2] = f["distribution"] + g[d3] /\ g[d3] = f["data_confidence"] + g[r]
  <2>1. \A s \in {D, d1, d2, d3, d4} : s \in SUBSET D
    BY <1>9
  <2> HIDE DEF d1, d2, d3, d4
  <2>2. d1 = D \ {"liquidity"} /\ d2 = d1 \ {"holder_quality"} /\ d3 = d2 \ {"distribution"}
        /\ d4 = d3 \ {"data_confidence"}
    BY DEF d1, d2, d3, d4
  <2> HIDE DEF D
  <2>3. g[D] = f["liquidity"] + g[d1]
    BY <1>8, <1>11, <2>1, <2>2 DEF SinOrden
  <2>4. g[d1] = f["holder_quality"] + g[d2]
    BY <1>8, <1>11, <2>1, <2>2 DEF SinOrden
  <2>5. g[d2] = f["distribution"] + g[d3]
    BY <1>8, <1>11, <2>1, <2>2 DEF SinOrden
  <2>6. g[d3] = f["data_confidence"] + g[d4]
    BY <1>8, <1>11, <2>1, <2>2 DEF SinOrden
  <2> QED
    BY <1>8, <2>3, <2>4, <2>5, <2>6
<1>14. SumFunction(f) = g[D]
  BY <1>10 DEF EsPliegue
<1>15. /\ scores["liquidity"] \in Int /\ scores["holder_quality"] \in Int
       /\ scores["distribution"] \in Int /\ scores["data_confidence"] \in Int
  BY <1>1 DEF D
<1> HIDE DEF d1, d2, d3, d4
<1> DEFINE a == scores["liquidity"]
           b == scores["holder_quality"]
           c == scores["distribution"]
           e == scores["data_confidence"]
<1>16. /\ g[D] = 12 * a + g[d1] /\ g[d1] = 10 * b + g[d2] /\ g[d2] = 10 * c + g[d3] /\ g[d3] = 5 * e + 0
  BY <1>2, <1>12, <1>13
<1>17. a \in Int /\ b \in Int /\ c \in Int /\ e \in Int
  BY <1>15
<1> HIDE DEF a, b, c, e
<1>18. g[D] = 12 * a + 10 * b + 10 * c + 5 * e
  BY <1>16, <1>17
<1> QED
  BY <1>7, <1>14, <1>18 DEF a, b, c, e

\* Penalties take away.
LEMMA PenaLema ==
    ASSUME NEW scores, scores["manipulation_risk"] \in Nat, scores["rug_risk"] \in Nat
    PROVE  Ponderado(scores, PENALTIES) \in Nat
<1> DEFINE D == DOMAIN PENALTIES
           f == [s \in D |-> PENALTIES[s] * scores[s]]
<1>1. D = {"manipulation_risk", "rug_risk"}
  BY DEF PENALTIES
<1>2. IsFiniteSet(D)
  <2>1. D = {"manipulation_risk", "rug_risk", "rug_risk", "rug_risk", "rug_risk"}
    BY <1>1
  <2> HIDE DEF D
  <2> QED
    BY <2>1, CincoLema
<1>3. \A s \in D : PENALTIES[s] \in Nat /\ scores[s] \in Nat
  BY <1>1 DEF PENALTIES
<1>4. f \in [D -> Int] /\ \A s \in D : f[s] >= 0
  <2> HIDE DEF D
  <2>1. \A s \in D : PENALTIES[s] * scores[s] \in Nat
    BY <1>3
  <2> QED
    BY <2>1
<1>5. Ponderado(scores, PENALTIES) = SumFunction(f)
  BY DEF Ponderado
<1> HIDE DEF D, f
<1> QED
  BY <1>2, <1>4, <1>5, SumaLema

-----------------------------------------------------------------------------
(* The holders                                                             *)

\* The share of the largest holders is never negative, whatever the census.
LEMMA ConcentracionLema ==
    ASSUME NEW f, IsFiniteSet(DOMAIN f), \A h \in DOMAIN f : f[h] \in Nat
    PROVE  concentration(f).holder_count \in Nat /\ concentration(f).top10_pct \in Nat
<1> DEFINE p == Positivos(f)
           D == DOMAIN p
<1>1. D = {x \in DOMAIN f : f[x] > 0} /\ p \in [D -> Int] /\ \A x \in D : p[x] > 0
  BY DEF Positivos
<1>2. IsFiniteSet(D) /\ Cardinality(D) \in Nat
  BY <1>1, FS_Subset, FS_CardinalityType
<1> HIDE DEF p
<1> DEFINE total == SumFunction(p)
<1>3. total \in Nat
  <2>1. SumFunction(p) \in Int /\ SumFunction(p) >= 0
    <3>1. \A x \in D : p[x] >= 0
      BY <1>1
    <3> HIDE DEF D
    <3> QED BY <1>1, <1>2, <3>1, SumaLema
  <2> QED
    BY <2>1
<1> DEFINE Medida == {S \in SUBSET D : Cardinality(S) = Menor(TOP, Cardinality(D))}
           Posibles == {SumFunction(Restrict(p, S)) : S \in Medida}
<1>4. \A S \in SUBSET D : SumFunction(Restrict(p, S)) \in Nat
  <2> SUFFICES ASSUME NEW S \in SUBSET D PROVE SumFunction(Restrict(p, S)) \in Nat
    OBVIOUS
  <2> DEFINE q == Restrict(p, S)
  <2>1. q \in [S -> Int] /\ \A x \in S : q[x] >= 0
    BY <1>1 DEF Restrict
  <2>2. IsFiniteSet(S)
    BY <1>2, FS_Subset
  <2> HIDE DEF q
  <2>3. SumFunction(q) \in Int /\ SumFunction(q) >= 0
    BY <2>1, <2>2, SumaLema
  <2>4. SumFunction(q) \in Nat
    BY <2>3
  <2> QED
    BY <2>4 DEF q
<1>5. Posibles \in SUBSET Nat
  BY <1>4
<1>6. Posibles # {}
  <2>1. TOP \in Nat
    BY ManipulacionAssumption
  <2>2. \E S \in SUBSET D : Cardinality(S) = IF TOP < Cardinality(D) THEN TOP ELSE Cardinality(D)
    <3> HIDE DEF D
    <3> QED BY <1>2, <2>1, TalladoLema
  <2> QED
    BY <2>2 DEF Menor
<1>7. IsFiniteSet(Posibles)
  <2>1. IsFiniteSet(SUBSET D)
    <3> HIDE DEF D
    <3> QED BY <1>2, FS_SUBSET
  <2>2. IsFiniteSet(Medida)
    BY <2>1, FS_Subset
  <2> HIDE DEF Medida
  <2> DEFINE g == [S \in Medida |-> SumFunction(Restrict(p, S))]
  <2>3. Posibles = {g[S] : S \in Medida} /\ DOMAIN g = Medida
    OBVIOUS
  <2> HIDE DEF g, Posibles
  <2> QED
    BY <2>2, <2>3, ImagenLema
<1>8. SumaMayores(p, TOP) \in Nat
  <2>1. Max(Posibles) \in Posibles
    <3> HIDE DEF Posibles
    <3> QED BY <1>5, <1>6, <1>7, MaxLema
  <2> QED
    BY <1>5, <2>1 DEF SumaMayores
<1>9. top_n_pct(f, TOP) \in Nat
  <2> DEFINE s == SumaMayores(p, TOP)
  <2>1. top_n_pct(f, TOP) = IF total = 0 THEN 0 ELSE (s * BASIS_POINTS) \div total
    BY DEF top_n_pct, p
  <2> HIDE DEF total, s
  <2>2. s \in Nat /\ BASIS_POINTS \in Nat
    BY <1>8 DEF BASIS_POINTS, s
  <2>3. total # 0 => (s * BASIS_POINTS) \div total \in Nat
    BY <1>3, <2>2, SMTT(30)
  <2> QED
    BY <2>1, <2>3
<1> QED
  BY <1>2, <1>9 DEF concentration, p

-----------------------------------------------------------------------------
(* The findings                                                            *)

\* Finitely many findings, each with a severity of the scale.
EsHallazgos(H) == IsFiniteSet(H) /\ \A h \in H : h.severity \in DOMAIN SEVERITY_POINTS

LEMMA UnionLema ==
    ASSUME NEW G, NEW H, EsHallazgos(G), EsHallazgos(H) PROVE EsHallazgos(G \cup H)
BY FS_Union DEF EsHallazgos

\* One finding, or none.
LEMMA UnoLema ==
    ASSUME NEW d, NEW s \in DOMAIN SEVERITY_POINTS, NEW x
    PROVE  EsHallazgos({Hallazgo(d, s, x)}) /\ EsHallazgos({})
<1>1. Hallazgo(d, s, x).severity \in DOMAIN SEVERITY_POINTS
  BY DEF Hallazgo
<1>2. IsFiniteSet({Hallazgo(d, s, x)}) /\ IsFiniteSet({})
  BY FS_Singleton, FS_EmptySet
<1> QED
  BY <1>1, <1>2 DEF EsHallazgos

\* One for each value of a finite set, with the severity s gives it.
DeCada(d, s) == {Hallazgo(d, s[x], x) : x \in DOMAIN s}

LEMMA CadaUnoLema ==
    ASSUME NEW S, IsFiniteSet(S), NEW d, NEW s \in [S -> DOMAIN SEVERITY_POINTS]
    PROVE  EsHallazgos(DeCada(d, s))
<1> DEFINE f == [x \in S |-> Hallazgo(d, s[x], x)]
<1>1. DeCada(d, s) = {f[x] : x \in S} /\ DOMAIN f = S
  BY DEF DeCada
<1>2. \A x \in S : f[x].severity \in DOMAIN SEVERITY_POINTS
  BY DEF Hallazgo
<1> HIDE DEF f
<1>3. IsFiniteSet({f[x] : x \in S})
  BY <1>1, ImagenLema
<1> QED
  BY <1>1, <1>2, <1>3 DEF EsHallazgos

LEMMA GravedadLema ==
    /\ DOMAIN SEVERITY_POINTS = {"info", "low", "medium", "high", "critical"}
    /\ \A s \in DOMAIN SEVERITY_POINTS : SEVERITY_POINTS[s] \in Nat
BY DEF SEVERITY_POINTS

\* What the detectors find in finitely many trades is finite.
LEMMA DetectarLema ==
    ASSUME NEW c, IsFiniteSet(c.trades)
    PROVE  /\ EsHallazgos(detect_same_slot_bundles(c))
           /\ EsHallazgos(detect_identical_amounts(c))
           /\ EsHallazgos(detect_self_trading(c))
<1>1. IsFiniteSet(buys(c))
  BY FS_Subset DEF buys
<1>2. EsHallazgos(detect_same_slot_bundles(c))
  <2> DEFINE juntas(s) == Cardinality(Compradores({t \in buys(c) : t.slot = s}))
             f == [t \in buys(c) |-> t.slot]
             S == {f[t] : t \in buys(c)}
             U == {s \in S : juntas(s) >= MIN_WALLETS_SAME_SLOT}
             g == [s \in U |-> IF juntas(s) >= 5 THEN "high" ELSE "medium"]
  <2>1. IsFiniteSet(S)
    <3>1. DOMAIN f = buys(c)
      OBVIOUS
    <3> HIDE DEF f
    <3> QED BY <1>1, <3>1, ImagenLema
  <2>2. IsFiniteSet(U)
    <3> HIDE DEF S
    <3> QED BY <2>1, FS_Subset
  <2>3. g \in [U -> DOMAIN SEVERITY_POINTS]
    BY GravedadLema
  <2>4. detect_same_slot_bundles(c) = DeCada("same_slot_bundle", g)
    BY DEF detect_same_slot_bundles, DeCada
  <2> HIDE DEF U, g
  <2>5. EsHallazgos(DeCada("same_slot_bundle", g))
    BY <2>2, <2>3, CadaUnoLema
  <2> QED
    BY <2>4, <2>5
<1>3. EsHallazgos(detect_identical_amounts(c))
  <2> DEFINE iguales(n) == Cardinality(Compradores({t \in buys(c) : t.sol = n}))
             todos == Cardinality(Compradores(buys(c)))
             f == [t \in buys(c) |-> t.sol]
             S == {f[t] : t \in buys(c)}
             U == {n \in S : n > 0 /\ iguales(n) >= MIN_IDENTICAL_AMOUNT_WALLETS}
             g == [n \in U |-> IF iguales(n) * 100 < 50 * todos THEN "medium" ELSE "high"]
  <2>1. IsFiniteSet(S)
    <3>1. DOMAIN f = buys(c)
      OBVIOUS
    <3> HIDE DEF f
    <3> QED BY <1>1, <3>1, ImagenLema
  <2>2. IsFiniteSet(U)
    <3> HIDE DEF S
    <3> QED BY <2>1, FS_Subset
  <2>3. g \in [U -> DOMAIN SEVERITY_POINTS]
    BY GravedadLema
  <2>4. detect_identical_amounts(c) = DeCada("identical_amounts", g)
    BY DEF detect_identical_amounts, DeCada
  <2> HIDE DEF U, g
  <2>5. EsHallazgos(DeCada("identical_amounts", g))
    BY <2>2, <2>3, CadaUnoLema
  <2> QED
    BY <2>4, <2>5
<1>4. EsHallazgos(detect_self_trading(c))
  <2> DEFINE de(w, ts) == {t \in ts : t.wallet = w}
             ciclos(w) == Menor(Cardinality(de(w, buys(c))), Cardinality(de(w, sells(c))))
             mucho(w) == Volumen(c.trades) > 0
                         /\ Volumen(de(w, c.trades)) * 100 >= 30 * Volumen(c.trades)
             f == [t \in c.trades |-> t.wallet]
             S == {f[t] : t \in c.trades}
             U == {w \in S : ciclos(w) >= MIN_ROUNDTRIPS}
             g == [w \in U |-> IF mucho(w) THEN "high" ELSE "medium"]
  <2>1. IsFiniteSet(S)
    <3>1. DOMAIN f = c.trades
      OBVIOUS
    <3> HIDE DEF f
    <3> QED BY <3>1, ImagenLema
  <2>2. IsFiniteSet(U)
    <3> HIDE DEF S
    <3> QED BY <2>1, FS_Subset
  <2>3. g \in [U -> DOMAIN SEVERITY_POINTS]
    <3> HIDE DEF mucho
    <3> QED BY GravedadLema
  <2>4. detect_self_trading(c) = DeCada("self_trading", g)
    <3>1. S = Compradores(c.trades)
      BY DEF Compradores
    <3> HIDE DEF S
    <3> QED BY <3>1 DEF detect_self_trading, DeCada
  <2> HIDE DEF U, g, S, f, mucho, ciclos, de
  <2>5. EsHallazgos(DeCada("self_trading", g))
    BY <2>2, <2>3, CadaUnoLema
  <2> QED
    BY <2>4, <2>5
<1> QED
  BY <1>2, <1>3, <1>4

\* The report is a score from 0 to 100.
LEMMA InformeLema ==
    ASSUME NEW c, IsFiniteSet(c.trades)
    PROVE  analyze(c).score \in Nat
<1>1. EsHallazgos({})
  BY UnoLema, GravedadLema
<1>2. ASSUME NEW d, NEW s \in {"low", "medium", "high", "critical"}, NEW x
      PROVE  EsHallazgos({Hallazgo(d, s, x)})
  BY UnoLema, GravedadLema
<1>3. EsHallazgos(detect_concentrated_volume(c))
  <2> DEFINE H(s) == {Hallazgo("concentrated_volume", s, "")}
  <2>1. EsHallazgos(H("high")) /\ EsHallazgos(H("medium"))
    BY <1>2
  <2>2. detect_concentrated_volume(c) \in {H("high"), H("medium"), {}}
    BY DEF detect_concentrated_volume
  <2> HIDE DEF H
  <2> QED BY <1>1, <2>1, <2>2
<1>4. EsHallazgos(detect_creator_dumping(c))
  <2> DEFINE H(s) == {Hallazgo("creator_dumping", s, "")}
  <2>1. EsHallazgos(H("critical")) /\ EsHallazgos(H("high")) /\ EsHallazgos(H("medium"))
    BY <1>2
  <2>2. detect_creator_dumping(c) \in {H("critical"), H("high"), H("medium"), {}}
    <3> DEFINE suyas == {t \in sells(c) : t.wallet = c.creator}
               tras == Mayor(0, Min({t.at : t \in suyas}) - c.created_at)
               P == tras <= 600
               Q == tras <= 3600
               s == IF P THEN "critical" ELSE IF Q THEN "high" ELSE "medium"
    <3>1. detect_creator_dumping(c) = IF suyas = {} THEN {} ELSE H(s)
      BY DEF detect_creator_dumping
    <3> HIDE DEF suyas, P, Q
    <3>2. s \in {"critical", "high", "medium"}
      OBVIOUS
    <3> HIDE DEF s
    <3> QED BY <3>1, <3>2
  <2> HIDE DEF H
  <2> QED BY <1>1, <2>1, <2>2
<1>5. EsHallazgos(detect_creator_history(c))
  <2> DEFINE H(s) == {Hallazgo("creator_history", s, "")}
  <2>1. EsHallazgos(H("critical")) /\ EsHallazgos(H("high"))
    BY <1>2
  <2>2. detect_creator_history(c) \in {H("critical"), H("high"), {}}
    BY DEF detect_creator_history
  <2> HIDE DEF H
  <2> QED BY <1>1, <2>1, <2>2
<1>6. EsHallazgos(detect_impersonation(c))
  <2> DEFINE H(s) == {Hallazgo("impersonation", s, "")}
  <2>1. EsHallazgos(H("medium")) /\ EsHallazgos(H("low"))
    BY <1>2
  <2>2. detect_impersonation(c) \in {H("medium"), H("low"), {}}
    BY DEF detect_impersonation
  <2> HIDE DEF H
  <2> QED BY <1>1, <2>1, <2>2
<1>7. EsHallazgos(detect_metadata_anomalies(c))
  <2>1. EsHallazgos({Hallazgo("metadata", "low", c.uri)})
    BY <1>2
  <2> QED
    BY <1>1, <2>1 DEF detect_metadata_anomalies
<1>8. EsHallazgos(detect_supply_concentration(c))
  <2> DEFINE H(s) == {Hallazgo("supply_concentration", s, "")}
  <2>1. EsHallazgos(H("critical")) /\ EsHallazgos(H("high"))
    BY <1>2
  <2>2. detect_supply_concentration(c) \in {H("critical"), H("high"), {}}
    <3> DEFINE m == concentration(reales(c))
               P == m.holder_count < MIN_HOLDERS \/ m.top10_pct < 5000
               Q == m.top10_pct >= 8000
               s == IF Q THEN "critical" ELSE "high"
    <3>1. detect_supply_concentration(c) = IF P THEN {} ELSE H(s)
      BY DEF detect_supply_concentration
    <3> HIDE DEF P, Q
    <3>2. s \in {"critical", "high"}
      OBVIOUS
    <3> HIDE DEF s
    <3> QED BY <3>1, <3>2
  <2> HIDE DEF H
  <2> QED BY <1>1, <2>1, <2>2
<1> DEFINE hallazgos == detect_same_slot_bundles(c) \cup detect_identical_amounts(c)
                     \cup detect_self_trading(c) \cup detect_concentrated_volume(c)
                     \cup detect_creator_dumping(c) \cup detect_creator_history(c)
                     \cup detect_impersonation(c) \cup detect_metadata_anomalies(c)
                     \cup detect_supply_concentration(c)
           f == [h \in hallazgos |-> SEVERITY_POINTS[h.severity]]
<1>9. EsHallazgos(hallazgos)
  <2>1. EsHallazgos(detect_same_slot_bundles(c) \cup detect_identical_amounts(c))
    BY DetectarLema, UnionLema
  <2>2. EsHallazgos(detect_same_slot_bundles(c) \cup detect_identical_amounts(c)
                     \cup detect_self_trading(c))
    BY <2>1, DetectarLema, UnionLema
  <2>3. EsHallazgos(detect_same_slot_bundles(c) \cup detect_identical_amounts(c)
                     \cup detect_self_trading(c) \cup detect_concentrated_volume(c))
    BY <2>2, <1>3, UnionLema
  <2>4. EsHallazgos(detect_same_slot_bundles(c) \cup detect_identical_amounts(c)
                     \cup detect_self_trading(c) \cup detect_concentrated_volume(c)
                     \cup detect_creator_dumping(c))
    BY <2>3, <1>4, UnionLema
  <2>5. EsHallazgos(detect_same_slot_bundles(c) \cup detect_identical_amounts(c)
                     \cup detect_self_trading(c) \cup detect_concentrated_volume(c)
                     \cup detect_creator_dumping(c) \cup detect_creator_history(c))
    BY <2>4, <1>5, UnionLema
  <2>6. EsHallazgos(detect_same_slot_bundles(c) \cup detect_identical_amounts(c)
                     \cup detect_self_trading(c) \cup detect_concentrated_volume(c)
                     \cup detect_creator_dumping(c) \cup detect_creator_history(c)
                     \cup detect_impersonation(c))
    BY <2>5, <1>6, UnionLema
  <2>7. EsHallazgos(detect_same_slot_bundles(c) \cup detect_identical_amounts(c)
                     \cup detect_self_trading(c) \cup detect_concentrated_volume(c)
                     \cup detect_creator_dumping(c) \cup detect_creator_history(c)
                     \cup detect_impersonation(c) \cup detect_metadata_anomalies(c))
    BY <2>6, <1>7, UnionLema
  <2> QED
    BY <2>7, <1>8, UnionLema
<1> HIDE DEF hallazgos
<1>10. IsFiniteSet(hallazgos) /\ f \in [hallazgos -> Int] /\ \A h \in hallazgos : f[h] >= 0
  BY <1>9, GravedadLema DEF EsHallazgos
<1>11. analyze(c).score = Menor(100, SumFunction(f))
  BY DEF analyze, hallazgos
<1> HIDE DEF f
<1>12. SumFunction(f) \in Int /\ SumFunction(f) >= 0
  BY <1>10, SumaLema
<1>13. SumFunction(f) \in Nat
  BY <1>12
<1> QED
  BY <1>11, <1>13 DEF Menor

\* What the chain lets the worker measure adds up to less than 34 points of 100,
\* whatever it measures.
LEMMA NotaLema ==
    ASSUME NEW report \in Nat, NEW metrics, metrics.holder_count \in Nat, metrics.top10_pct \in Nat,
           NEW curva_conocida \in BOOLEAN
    PROVE  LET n == opportunity_score(_scores_from(report, metrics, curva_conocida))
           IN  n \in Nat /\ n <= 3335
<1> DEFINE s == _scores_from(report, metrics, curva_conocida)
           l == IF curva_conocida THEN 8000 ELSE 0
           d == Mayor(0, BASIS_POINTS - metrics.top10_pct)
           h == Menor(BASIS_POINTS, metrics.holder_count * 200)
           e == (IF metrics.holder_count > 0 THEN 6000 ELSE 4500)
                + (IF curva_conocida THEN 1500 ELSE 0)
           m == report * 100
           r == report * 80
           X == (DOMAIN ScoreWeights) \cup (DOMAIN PENALTIES)
<1>1. X = {"narrative", "momentum", "liquidity", "holder_quality", "distribution", "creator", "whale",
           "social_authenticity", "exit_liquidity", "data_confidence", "manipulation_risk", "rug_risk"}
      /\ TokenScores = [x \in X |-> 0]
  BY DEF ScoreWeights, PENALTIES, TokenScores
<1>2. /\ l \in Nat /\ l <= 8000 /\ d \in Nat /\ d <= 10000 /\ h \in Nat /\ h <= 10000
      /\ e \in Nat /\ e <= 7500 /\ m \in Nat /\ r \in Nat
  BY DEF Mayor, Menor, BASIS_POINTS
<1>3. s = [TokenScores EXCEPT !["liquidity"] = l, !["distribution"] = d, !["holder_quality"] = h,
                              !["manipulation_risk"] = m, !["rug_risk"] = r, !["data_confidence"] = e]
  BY DEF _scores_from
<1> HIDE DEF l, d, h, e, m, r, s, X
<1>4. /\ s["liquidity"] = l /\ s["distribution"] = d /\ s["holder_quality"] = h
      /\ s["manipulation_risk"] = m /\ s["rug_risk"] = r /\ s["data_confidence"] = e
      /\ \A x \in {"narrative", "momentum", "creator", "whale", "social_authenticity", "exit_liquidity"} :
            s[x] = 0
  BY <1>1, <1>3
<1>5. \A x \in DOMAIN ScoreWeights : s[x] \in Int
  <2>1. DOMAIN ScoreWeights = {"narrative", "momentum", "liquidity", "holder_quality", "distribution",
           "creator", "whale", "social_authenticity", "exit_liquidity", "data_confidence"}
    BY DEF ScoreWeights
  <2> QED
    BY <1>2, <1>4, <2>1
<1>6. Ponderado(s, ScoreWeights) = 12 * l + 10 * h + 10 * d + 5 * e
  BY <1>4, <1>5, PonderadoLema
<1>7. Ponderado(s, PENALTIES) \in Nat
  BY <1>2, <1>4, PenaLema
<1> DEFINE p == Ponderado(s, ScoreWeights)
           q == Ponderado(s, PENALTIES)
           n == (p - q) \div 100
<1>8. p \in Int /\ p <= 333500
  BY <1>2, <1>6
<1>9. n \in Int /\ n <= 3335
  <2>1. q \in Nat
    BY <1>7
  <2> HIDE DEF p, q
  <2>2. p - q \in Int /\ p - q <= 333500
    BY <1>8, <2>1
  <2> DEFINE w == p - q
  <2>3. w \in Int /\ w <= 333500
    BY <2>2
  <2> HIDE DEF w
  <2>4. w \div 100 \in Int /\ w \div 100 <= 3335
    BY <2>3
  <2> QED
    BY <2>4 DEF w
<1>10. opportunity_score(s) = clamp(n)
  BY DEF opportunity_score
<1> HIDE DEF n
<1>11. clamp(n) \in Nat /\ clamp(n) <= 3335
  BY <1>9 DEF clamp, Mayor, Menor, BASIS_POINTS
<1> QED
  BY <1>10, <1>11 DEF s

\* So little is under the lowest threshold, with vetoes or without.
LEMMA SenalLema ==
    ASSUME NEW n \in Nat, n <= 3335, NEW vetos PROVE generate(n, vetos, 5000) = "ignore"
<1> DEFINE p1 == n >= 8000
           p2 == n \in 6500 .. 7999
           p3 == n \in 5500 .. 6499
           p4 == n \in 4000 .. 5499
           q1 == 5000 < 5000
           q2 == 5000 >= 5000
           v == vetos = {}
<1>1. ~p1 /\ ~q1
  OBVIOUS
<1>2. ~p2
  OBVIOUS
<1>3. ~p3
  OBVIOUS
<1>4. ~p4
  OBVIOUS
<1>5. generate(n, vetos, 5000) = CASE vetos # {} -> "ignore"
                                   [] v /\ q1 -> "watch"
                                   [] v /\ q2 /\ p1 -> "enter"
                                   [] v /\ q2 /\ p2 -> "enter_small"
                                   [] v /\ q2 /\ p3 -> "prepare"
                                   [] v /\ q2 /\ p4 -> "watch"
                                   [] OTHER -> "ignore"
  BY DEF generate
<1>6. v <=> ~(vetos # {})
  OBVIOUS
<1> HIDE DEF p1, p2, p3, p4, q1, q2, v
<1> QED
  BY <1>1, <1>2, <1>3, <1>4, <1>5, <1>6

-----------------------------------------------------------------------------
(* What has been read                                                      *)

\* A census is of finitely many holders, and the trades are finitely many.
EsContexto(c) ==
    /\ DOMAIN c = {"holders", "trades", "launches", "dumps"}
    /\ IsFiniteSet(DOMAIN c.holders) /\ \A h \in DOMAIN c.holders : c.holders[h] \in Nat
    /\ IsFiniteSet(c.trades)

AnalisisInv ==
    /\ porLlegar \subseteq Tokens
    /\ cola \in Seq(Tokens)
    /\ analizando \in Tokens \cup {SinToken}
    /\ analizando = SinToken => parte = "duerme"
    /\ EsContexto(contexto)
    /\ DOMAIN veredictos = Tokens
    /\ \A t \in Tokens : EsContexto(veredictos[t].contexto)

LEMMA EnBlancoLema == EsContexto(EnBlanco)
<1>1. /\ DOMAIN EnBlanco = {"holders", "trades", "launches", "dumps"}
      /\ EnBlanco.holders = << >> /\ EnBlanco.trades = {}
  BY DEF EnBlanco
<1>2. DOMAIN << >> = {}
  OBVIOUS
<1> QED
  BY <1>1, <1>2, FS_EmptySet DEF EsContexto

LEMMA Analisis_Init == InitAnalisis => AnalisisInv
<1> SUFFICES ASSUME InitAnalisis PROVE AnalisisInv
  OBVIOUS
<1>1. cola \in Seq(Tokens)
  BY DEF InitAnalisis
<1> QED
  BY <1>1, EnBlancoLema DEF InitAnalisis, AnalisisInv

\* The trades of a few transactions are finitely many.
LEMMA TradesLema ==
    ASSUME NEW txs, txs \in Seq(Range(txs)), \A ts \in Range(txs) : IsFiniteSet(ts),
           NEW n \in 0 .. Len(txs)
    PROVE  IsFiniteSet(UNION {txs[i] : i \in 1 .. n})
<1> DEFINE S == {txs[i] : i \in 1 .. n}
           f == [i \in 1 .. n |-> txs[i]]
<1>1. Len(txs) \in Nat /\ DOMAIN txs = 1 .. Len(txs)
  OBVIOUS
<1>2. \A i \in 1 .. n : txs[i] \in Range(txs)
  BY <1>1 DEF Range
<1>3. \A s \in S : IsFiniteSet(s)
  BY <1>2
<1>4. IsFiniteSet(S)
  <2> DEFINE N == 1 .. n
             u == 1
  <2>1. N = u .. n /\ u \in Int /\ n \in Int
    BY <1>1
  <2>2. IsFiniteSet(N)
    <3> HIDE DEF N, u
    <3> QED BY <2>1, FS_Interval
  <2>3. S = {f[i] : i \in N} /\ DOMAIN f = N
    OBVIOUS
  <2> HIDE DEF N, f, S
  <2> QED
    BY <2>2, <2>3, ImagenLema
<1> HIDE DEF S
<1>5. IsFiniteSet(UNION S)
  BY <1>3, <1>4, FS_UNION
<1> QED
  BY <1>5 DEF S

\* Each read gives a context or leaves what there was.
LEMMA Analisis_Step == AnalisisInv /\ [NextAnalisis]_varsAnalisis => AnalisisInv'
<1> SUFFICES ASSUME AnalisisInv, [NextAnalisis]_varsAnalisis PROVE AnalisisInv'
  OBVIOUS
<1> USE DEF AnalisisInv
<1>1. ASSUME NEW p, NEW leido, EsContexto(leido), analizando # SinToken, Leer(p, leido) PROVE AnalisisInv'
  <2>1. EsContexto(contexto')
    BY <1>1 DEF Leer
  <2> QED
    BY <1>1, <2>1 DEF Leer
<1>2. ASSUME NEW como, NEW leido, EsContexto(leido), NEW parcial, Acabar(como, leido, parcial)
      PROVE  AnalisisInv'
  <2> DEFINE v == [acaba |-> como, partial |-> parcial, contexto |-> leido]
  <2>1. veredictos' = [veredictos EXCEPT ![analizando] = v] /\ v.contexto = leido
    BY <1>2 DEF Acabar
  <2> HIDE DEF v
  <2>2. DOMAIN veredictos' = Tokens /\ \A t \in Tokens : EsContexto(veredictos'[t].contexto)
    BY <1>2, <2>1
  <2>3. EsContexto(contexto')
    BY <1>2, EnBlancoLema DEF Acabar
  <2> QED
    BY <1>2, <2>2, <2>3 DEF Acabar
<1>3. ASSUME analizando # SinToken PROVE analizando \in Tokens /\ EsVerdad(Verdades[analizando])
  BY <1>3, AnalisisAssumption DEF Tokens
<1>4. CASE Coger
  <2>1. Head(cola) \in Tokens /\ Tail(cola) \in Seq(Tokens)
    BY <1>4 DEF Coger
  <2>2. EsContexto(contexto')
    BY <1>4, EnBlancoLema DEF Coger
  <2> QED
    BY <1>4, <2>1, <2>2 DEF Coger
<1>5. CASE analizando # SinToken /\ Dormir
  BY <1>5 DEF Dormir
<1>6. CASE analizando # SinToken /\ LeerHolders
  <2> DEFINE c == [contexto EXCEPT !.holders = Verdades[analizando].holders]
  <2>1. c.holders = Verdades[analizando].holders /\ c.trades = contexto.trades /\ DOMAIN c = DOMAIN contexto
    BY DEF EsContexto
  <2>2. EsContexto(c)
    <3> HIDE DEF c
    <3> QED BY <1>3, <1>6, <2>1 DEF EsContexto, EsVerdad
  <2>3. Leer("holders", c)
    BY <1>6 DEF LeerHolders
  <2> HIDE DEF c
  <2> QED
    BY <1>1, <1>6, <2>2, <2>3
<1>7. CASE analizando # SinToken /\ LeerSupply
  BY <1>1, <1>7 DEF LeerSupply
<1>8. CASE analizando # SinToken /\ LeerTrades
  <2> DEFINE txs == Verdades[analizando].transactions
             todas == Menor(MAX_TRANSACTIONS, Len(txs))
             hasta(n) == UNION {txs[i] : i \in 1 .. n}
  <2>1. PICK n \in 0 .. todas : contexto' = [contexto EXCEPT !.trades = hasta(n)]
    BY <1>8 DEF LeerTrades
  <2>2. txs \in Seq(Range(txs)) /\ \A ts \in Range(txs) : IsFiniteSet(ts)
    BY <1>3, <1>8 DEF EsVerdad
  <2> HIDE DEF txs
  <2>3. n \in 0 .. Len(txs)
    <3>1. Len(txs) \in Nat /\ MAX_TRANSACTIONS \in Nat
      BY <2>2, AnalisisAssumption
    <3> QED
      BY <3>1 DEF Menor
  <2>4. IsFiniteSet(hasta(n))
    BY <2>2, <2>3, TradesLema
  <2> HIDE DEF hasta
  <2>5. EsContexto(contexto')
    BY <2>1, <2>4 DEF EsContexto
  <2> QED
    BY <1>8, <2>5 DEF LeerTrades
<1>9. CASE analizando # SinToken /\ LeerCreador
  <2> DEFINE c == [contexto EXCEPT !.launches = Verdades[analizando].launches,
                                   !.dumps = Verdades[analizando].dumps]
  <2>1. c.holders = contexto.holders /\ c.trades = contexto.trades /\ DOMAIN c = DOMAIN contexto
    BY DEF EsContexto
  <2>2. EsContexto(c)
    <3> HIDE DEF c
    <3> QED BY <2>1 DEF EsContexto
  <2>3. Leer("creador", c)
    BY <1>9 DEF LeerCreador
  <2> HIDE DEF c
  <2> QED
    BY <1>1, <1>9, <2>2, <2>3
<1>10. CASE analizando # SinToken /\ Juzgar
  BY <1>2, <1>10 DEF Juzgar
<1>11. CASE Fallar
  BY <1>2, <1>11, EnBlancoLema DEF Fallar
<1>12. ASSUME NEW t \in Tokens, submit(t) PROVE AnalisisInv'
  <2>1. cola' \in Seq(Tokens)
    BY <1>12 DEF submit
  <2> QED
    BY <1>12, <2>1 DEF submit
<1>13. CASE UNCHANGED varsAnalisis
  BY <1>13 DEF varsAnalisis
<1> QED
  BY <1>4, <1>5, <1>6, <1>7, <1>8, <1>9, <1>10, <1>11, <1>12, <1>13 DEF NextAnalisis, Consumir

LEMMA Analisis_Inv == SpecAnalisis => []AnalisisInv
BY Analisis_Init, Analisis_Step, PTL DEF SpecAnalisis

\* No analysis advises more than to ignore a token, whatever the chain says of
\* it and whichever parts of it could be read.
THEOREM Analisis_NoAbre == SpecAnalisis => []AnalisisNoAbre
<1>1. AnalisisInv => AnalisisNoAbre
  <2> SUFFICES ASSUME AnalisisInv, NEW t \in Tokens PROVE Veredicto(t).signal = "ignore"
    BY DEF AnalisisNoAbre, Juzgados
  <2> DEFINE leido == veredictos[t].contexto
             v == Verdades[t]
             c == [creator |-> v.creator, created_at |-> v.created_at, name |-> v.name, uri |-> v.uri,
                   holders |-> leido.holders, programas |-> PROTOCOL_ACCOUNTS,
                   launches |-> leido.launches, dumps |-> leido.dumps,
                   trades |-> {x \in leido.trades : x.wallet \notin PROTOCOL_ACCOUNTS}]
             report == analyze(c).score
             metrics == concentration(c.holders)
             conocida == v.reservas > 0
             scores == _scores_from(report, metrics, conocida)
             vetos == evaluate([EligibilityInputs EXCEPT
                        !.data_confidence = scores["data_confidence"],
                        !.rug_risk = scores["rug_risk"],
                        !.manipulation_risk = scores["manipulation_risk"],
                        !.top10_pct_adjusted = metrics.top10_pct,
                        !.liquidity = v.reservas])
             n == opportunity_score(scores)
  <2>1. EsContexto(leido)
    BY DEF AnalisisInv
  <2>2. c.holders = leido.holders /\ c.trades \subseteq leido.trades
    OBVIOUS
  <2>3. Veredicto(t).signal = generate(n, vetos, 5000)
    BY DEF Veredicto, _analyze
  <2> HIDE DEF c, leido
  <2>4. report \in Nat
    <3>1. IsFiniteSet(c.trades)
      BY <2>1, <2>2, FS_Subset DEF EsContexto
    <3> QED
      BY <3>1, InformeLema
  <2>5. metrics.holder_count \in Nat /\ metrics.top10_pct \in Nat
    BY <2>1, <2>2, ConcentracionLema DEF EsContexto
  <2>6. conocida \in BOOLEAN
    OBVIOUS
  <2>7. n \in Nat /\ n <= 3335
    <3> HIDE DEF report, metrics, conocida
    <3> QED BY <2>4, <2>5, <2>6, NotaLema
  <2> HIDE DEF n, vetos
  <2> QED
    BY <2>3, <2>7, SenalLema
<1> QED
  BY <1>1, Analisis_Inv, PTL
===============================================================================
