----------------------------- MODULE RadarProofs -----------------------------
(***************************************************************************)
(* What the radar of the worker guarantees for any mints, readings,        *)
(* thresholds and capacities: its counters are the recount of the peaks,   *)
(* the multiples of the ceiling are at least 1, no bad reading graduates a *)
(* token, and what is followed on PumpSwap is the end of the queue of      *)
(* graduations.                                                            *)
(***************************************************************************)
EXTENDS Radar, FiniteSetTheorems, TLAPS

-----------------------------------------------------------------------------
(* The operators keep their types                                          *)

\* A memory keeps its capacity whoever is touched (ingest.py:797-803).
LEMMA TocarLema ==
    ASSUME NEW cap \in Nat \ {0}, NEW memoria \in Lugares(cap), NEW m \in Mints
    PROVE  Tocar(memoria, m, cap) \in Lugares(cap)
BY SMTT(30) DEF Tocar, Lugares

\* Whom a touch forgets is somebody else that was remembered.
LEMMA ExpulsadosLema ==
    ASSUME NEW memoria, NEW m \in Mints, NEW cap
    PROVE  /\ Expulsados(memoria, m, cap) \subseteq Presentes(memoria) \ {m}
           /\ Presentes(Tocar(memoria, m, cap)) \ {m} \subseteq Presentes(memoria)
           /\ m \in Presentes(Tocar(memoria, m, cap))
BY DEF Expulsados, Presentes, Tocar

\* Crossing thresholds adds to counters (ingest.py:505-514).
LEMMA CruzadosLema ==
    ASSUME NEW U \in SUBSET Nat, NEW cuenta \in [U -> Nat], NEW desde \in Nat, NEW hasta \in Nat
    PROVE  /\ Cruzados(cuenta, desde, hasta) \in [U -> Nat]
           /\ \A u \in U : Cruzados(cuenta, desde, hasta)[u] =
                IF desde < u /\ u <= hasta THEN cuenta[u] + 1 ELSE cuenta[u]
BY DEF Cruzados

\* The fields of the tracker after an observation (ingest.py:498-531).
LEMMA ObservarRegistro ==
    ASSUME NEW r \in Conteos, NEW m \in Mints, NEW cap \in Nat, ~ NoCuenta(r, m, cap)
    PROVE  Observar(r, m, cap) = [vistos |-> Observar(r, m, cap).vistos,
                maximo |-> Observar(r, m, cap).maximo, llegaron |-> Observar(r, m, cap).llegaron,
                explotaron |-> Observar(r, m, cap).explotaron, grandes |-> Observar(r, m, cap).grandes,
                alcanzan |-> Observar(r, m, cap).alcanzan, aciertan |-> Observar(r, m, cap).aciertan,
                banda |-> Observar(r, m, cap).banda, explota |-> Observar(r, m, cap).explota,
                grande |-> Observar(r, m, cap).grande]
BY DEF Observar, Conteos

\* The tracker keeps its type.
LEMMA ObservarTipo ==
    ASSUME NEW r \in Conteos, NEW m \in Mints, NEW cap \in Nat
    PROVE  Observar(r, m, cap) \in Conteos
<1> DEFINE o == Observar(r, m, cap)
<1>1. CASE NoCuenta(r, m, cap)
  BY <1>1 DEF Observar
<1>2. CASE ~ NoCuenta(r, m, cap)
  <2>1. /\ Niveles \in SUBSET Nat /\ Bandas \in SUBSET Nat /\ r.maximo[m] \in Nat
        /\ r.alcanzan \in [Niveles -> Nat] /\ r.aciertan \in [Niveles -> Nat]
        /\ r.banda \in [Bandas -> Nat] /\ r.explota \in [Bandas -> Nat] /\ r.grande \in [Bandas -> Nat]
    BY UmbralesAssumption DEF Conteos
  <2>2. o.alcanzan \in [Niveles -> Nat] /\ o.banda \in [Bandas -> Nat]
    <3>1. /\ Cruzados(r.alcanzan, r.maximo[m], cap) \in [Niveles -> Nat]
          /\ Cruzados(r.banda, r.maximo[m], cap) \in [Bandas -> Nat]
      BY <2>1, CruzadosLema
    <3> QED
      BY <1>2, <3>1 DEF Observar, Conteos
  <2>3. /\ o.aciertan \in [Niveles -> Nat]
        /\ o.explota \in [Bandas -> Nat] /\ o.grande \in [Bandas -> Nat]
    <3>1. /\ Logro(r.aciertan, cap >= OBJETIVO /\ m \notin r.llegaron, cap) \in [Niveles -> Nat]
          /\ Logro(r.explota, cap >= EXPLOTA /\ m \notin r.explotaron, cap) \in [Bandas -> Nat]
          /\ Logro(r.grande, cap >= GRANDE /\ m \notin r.grandes, cap) \in [Bandas -> Nat]
      BY <2>1, CruzadosLema DEF Logro
    <3> QED
      BY <1>2, <3>1 DEF Observar, Conteos
  <2>4. /\ o.vistos = r.vistos \cup {m} /\ o.maximo = [r.maximo EXCEPT ![m] = cap]
        /\ o.llegaron \in SUBSET Mints /\ o.explotaron \in SUBSET Mints /\ o.grandes \in SUBSET Mints
    <3>1. r.llegaron \in SUBSET Mints /\ r.explotaron \in SUBSET Mints /\ r.grandes \in SUBSET Mints
      BY DEF Conteos
    <3>2. /\ o.llegaron = (IF cap >= OBJETIVO THEN r.llegaron \cup {m} ELSE r.llegaron)
          /\ o.explotaron = (IF cap >= EXPLOTA THEN r.explotaron \cup {m} ELSE r.explotaron)
          /\ o.grandes = (IF cap >= GRANDE THEN r.grandes \cup {m} ELSE r.grandes)
          /\ o.vistos = r.vistos \cup {m} /\ o.maximo = [r.maximo EXCEPT ![m] = cap]
      BY <1>2 DEF Observar, Conteos
    <3> HIDE DEF o
    <3> QED
      BY <3>1, <3>2
  <2>5. o = [vistos |-> o.vistos, maximo |-> o.maximo, llegaron |-> o.llegaron,
             explotaron |-> o.explotaron, grandes |-> o.grandes, alcanzan |-> o.alcanzan,
             aciertan |-> o.aciertan, banda |-> o.banda, explota |-> o.explota,
             grande |-> o.grande]
    BY <1>2, ObservarRegistro
  <2>6. o.vistos \in SUBSET Mints /\ o.maximo \in [Mints -> Nat]
    BY <2>4 DEF Conteos
  <2> HIDE DEF o
  <2>7. o \in Conteos
    BY <2>2, <2>3, <2>4, <2>5, <2>6 DEF Conteos
  <2> QED
    BY <2>7 DEF o
<1> QED
  BY <1>1, <1>2

\* The peak of a mint is at least what was last observed of it, and falls for
\* none, provided that the mints not yet seen have none.
LEMMA ObservarCrece ==
    ASSUME NEW r \in Conteos, NEW m \in Mints, NEW cap \in Nat, m \notin r.vistos => r.maximo[m] = 0
    PROVE  /\ \A x \in Mints : Observar(r, m, cap).maximo[x] >= r.maximo[x]
           /\ m \in Observar(r, m, cap).vistos => Observar(r, m, cap).maximo[m] >= cap
           /\ r.vistos \subseteq Observar(r, m, cap).vistos
           /\ Observar(r, m, cap).vistos \subseteq r.vistos \cup {m}
           /\ \A x \in Mints \ {m} : Observar(r, m, cap).maximo[x] = r.maximo[x]
<1>1. r.maximo \in [Mints -> Nat]
  BY DEF Conteos
<1>2. CASE NoCuenta(r, m, cap)
  <2>1. Observar(r, m, cap) = r
    BY <1>2 DEF Observar
  <2>2. m \in r.vistos => cap <= r.maximo[m]
    BY <1>2 DEF NoCuenta
  <2> QED
    BY <1>1, <2>1, <2>2
<1>3. CASE ~ NoCuenta(r, m, cap)
  <2>1. cap >= r.maximo[m]
    BY <1>1, <1>3 DEF NoCuenta
  <2>2. /\ Observar(r, m, cap).vistos = r.vistos \cup {m}
        /\ Observar(r, m, cap).maximo = [r.maximo EXCEPT ![m] = cap]
    BY <1>3 DEF Observar, Conteos
  <2> QED
    BY <1>1, <2>1, <2>2
<1> QED
  BY <1>2, <1>3

\* The lines of a corpus above a cap can be counted.
LEMMA LineasLema ==
    ASSUME NEW disco, IsFiniteSet(disco), NEW cap
    PROVE  Lineas(disco, cap) \in Nat
<1>1. IsFiniteSet({l \in disco : l.pico >= cap})
  BY FS_Subset
<1> QED
  BY <1>1, FS_CardinalityType DEF Lineas

\* The tracker is born with its type from any corpus (ingest.py:368-415).
LEMMA SembrarTipo ==
    ASSUME NEW disco, IsFiniteSet(disco)
    PROVE  Sembrar(disco) \in Conteos
<1>1. /\ [b \in Bandas |-> Lineas(disco, b)] \in [Bandas -> Nat]
      /\ [b \in Bandas |-> Lineas(disco, EXPLOTA)] \in [Bandas -> Nat]
      /\ [b \in Bandas |-> Lineas(disco, GRANDE)] \in [Bandas -> Nat]
  BY LineasLema
<1>2. Nada \in [Mints -> Nat] /\ [n \in Niveles |-> 0] \in [Niveles -> Nat]
  BY DEF Nada
<1> QED
  BY <1>1, <1>2 DEF Sembrar, Conteos

\* Two lesser facts on the least of two numbers.
LEMMA MenorLema ==
    ASSUME NEW a \in Nat, NEW b \in Nat
    PROVE  Menor(a, b) \in 0 .. a /\ Mayor(a, b) \in Nat /\ Mayor(a, b) >= a /\ Mayor(a, b) >= b
BY DEF Menor, Mayor

-----------------------------------------------------------------------------
(* The types of what several actions do                                    *)

\* Counting a launch trade keeps the types (ingest.py:1028-1063).
LEMMA ContarTipo ==
    ASSUME TypeOK, NEW m \in Mints, NEW cap \in Nat, Contar(m, cap)
    PROVE  /\ rafaga' \in [Mints -> Nat] /\ estampida' \in [Mints -> Nat] /\ base' \in [Mints -> Nat]
           /\ profundos' \in Lugares(DEEP_TRACKED_MAX)
<1>1. CapDePartida(m, cap) \in Nat
  BY UmbralesAssumption DEF CapDePartida, TypeOK, TipoCaps
<1>2. Tocar(profundos, m, DEEP_TRACKED_MAX) \in Lugares(DEEP_TRACKED_MAX)
  BY TocarLema, TopesAssumption DEF TypeOK, TipoMemorias
<1>3. /\ rafaga \in [Mints -> Nat] /\ estampida \in [Mints -> Nat] /\ base \in [Mints -> Nat]
      /\ profundos \in Lugares(DEEP_TRACKED_MAX)
  BY DEF TypeOK, TipoCaps, TipoMemorias
<1>4. rafaga[m] + 1 \in Nat
  BY <1>3
<1>5. CASE nacidos[m] = 0 \/ m \in pasados'
  BY <1>3, <1>5 DEF Contar
<1>6. CASE ~ (nacidos[m] = 0 \/ m \in pasados')
  <2> DEFINE n == rafaga[m] + 1
  <2>1. /\ rafaga' = [rafaga EXCEPT ![m] = n]
        /\ IF n = ESTAMPIDA
           THEN /\ estampida' = [estampida EXCEPT ![m] = n]
                /\ profundos' = Tocar(profundos, m, DEEP_TRACKED_MAX)
                /\ base' = [base EXCEPT ![m] = CapDePartida(m, cap)]
           ELSE /\ estampida' = [estampida EXCEPT ![m] = IF @ = 0 THEN 0 ELSE n]
                /\ UNCHANGED <<profundos, base>>
    BY <1>6 DEF Contar
  <2>2. n \in Nat
    BY <1>4
  <2> HIDE DEF n
  <2> QED
    BY <1>1, <1>2, <1>3, <2>1, <2>2
<1> QED
  BY <1>5, <1>6

\* Recording a cap keeps the types (ingest.py:909-926).
LEMMA AnotarCapTipo ==
    ASSUME TypeOK, NEW m \in Mints, NEW cap \in Nat, NEW prot, AnotarCap(m, cap, prot)
    PROVE  /\ pico' \in [Mints -> Nat] /\ historia' \in [Mints -> Seq(Nat)]
           /\ \A x \in Mints : Len(historia'[x]) <= CAP_HISTORY
<1>1. CASE cap = 0
  BY <1>1 DEF AnotarCap, TypeOK, TipoCaps
<1>2. CASE cap # 0
  <2> DEFINE conPico == [pico EXCEPT ![m] = Mayor(@, cap)]
             completa == Append(historia[m], cap)
             nueva == IF Len(completa) > CAP_HISTORY THEN Tail(completa) ELSE completa
             conHistoria == [historia EXCEPT ![m] = nueva]
  <2>1. PICK fuera :
          /\ pico' = [x \in Mints |-> IF x \in fuera THEN 0 ELSE conPico[x]]
          /\ historia' = [x \in Mints |-> IF x \in fuera THEN <<>> ELSE conHistoria[x]]
    BY <1>2, Zenon DEF AnotarCap
  <2>2. conPico \in [Mints -> Nat]
    BY MenorLema DEF TypeOK, TipoCaps
  <2>3. nueva \in Seq(Nat) /\ Len(nueva) <= CAP_HISTORY
    <3>1. historia[m] \in Seq(Nat) /\ Len(historia[m]) <= CAP_HISTORY
      BY DEF TypeOK, TipoCaps
    <3>2. CAP_HISTORY \in Nat
      BY TopesAssumption
    <3> QED
      BY <3>1, <3>2
  <2> HIDE DEF nueva, conPico
  <2>4. conHistoria \in [Mints -> Seq(Nat)] /\ \A x \in Mints : Len(conHistoria[x]) <= CAP_HISTORY
    BY <2>3 DEF TypeOK, TipoCaps
  <2> HIDE DEF conHistoria
  <2>5. <<>> \in Seq(Nat) /\ Len(<<>>) <= CAP_HISTORY
    BY TopesAssumption
  <2> QED
    BY <2>1, <2>2, <2>4, <2>5
<1> QED
  BY <1>1, <1>2

\* What the handler of a trade records keeps the types (ingest.py:882-892).
LEMMA AnotarTipo ==
    ASSUME TypeOK, NEW m \in Mints, NEW cap \in Nat, NEW prot, Anotar(m, cap, prot)
    PROVE  /\ resultados' \in Conteos /\ ganadores' \in SUBSET Mints
           /\ premiados' \subseteq [mint : Mints, arranque : Nat, pico : Nat]
           /\ capActual' \in [Mints -> Nat] /\ recientes' \in Lugares(TRACKED_MINTS_CAP)
           /\ pico' \in [Mints -> Nat] /\ historia' \in [Mints -> Seq(Nat)]
           /\ \A x \in Mints : Len(historia'[x]) <= CAP_HISTORY
           /\ sembrado' = sembrado
<1>1. resultados' \in Conteos
  BY ObservarTipo DEF Anotar, TypeOK, TipoDisco
<1>2. ganadores' \in SUBSET Mints /\ premiados' \subseteq [mint : Mints, arranque : Nat, pico : Nat]
  <2>1. ganadores \in SUBSET Mints /\ premiados \subseteq [mint : Mints, arranque : Nat, pico : Nat]
    BY DEF TypeOK, TipoConjuntos, TipoDisco
  <2>2. [mint |-> m, arranque |-> arranques, pico |-> cap] \in [mint : Mints, arranque : Nat, pico : Nat]
    BY DEF TypeOK, TipoResto
  <2> QED
    BY <2>1, <2>2 DEF Anotar, Premiar
<1>3. capActual' \in [Mints -> Nat]
  BY DEF Anotar, TypeOK, TipoCaps
<1>4. recientes' \in Lugares(TRACKED_MINTS_CAP)
  BY TocarLema, TopesAssumption DEF Anotar, TypeOK, TipoMemorias
<1>5. AnotarCap(m, cap, prot) /\ sembrado' = sembrado
  BY DEF Anotar
<1>6. /\ pico' \in [Mints -> Nat] /\ historia' \in [Mints -> Seq(Nat)]
      /\ \A x \in Mints : Len(historia'[x]) <= CAP_HISTORY
  BY <1>5, AnotarCapTipo
<1> QED
  BY <1>1, <1>2, <1>3, <1>4, <1>5, <1>6

\* What every measured or throttled trade does keeps the types.
LEMMA OperacionTipo ==
    ASSUME TypeOK, NEW m \in Mints, NEW l \in Lecturas, Operacion(m, l)
    PROVE  /\ l.cap \in Nat
           /\ rafaga' \in [Mints -> Nat] /\ estampida' \in [Mints -> Nat] /\ base' \in [Mints -> Nat]
           /\ profundos' \in Lugares(DEEP_TRACKED_MAX)
           /\ {pasados', completas'} \subseteq SUBSET Mints
           /\ avisos' \in Nat /\ avisos < MaxAvisos /\ pausa = Nadie /\ seguidos[m] # 0
           /\ Contar(m, l.cap)
<1>1. l.cap \in Nat
  BY LecturasAssumption
<1>2. Contar(m, l.cap) /\ Envejecer(m) /\ Aviso
  BY DEF Operacion
<1>3. {pasados', completas'} \subseteq SUBSET Mints
  BY <1>2 DEF Operacion, Envejecer, TypeOK, TipoConjuntos
<1>4. avisos' \in Nat /\ avisos < MaxAvisos /\ pausa = Nadie
  BY <1>2 DEF Aviso, TypeOK, TipoResto
<1> QED
  BY <1>1, <1>2, <1>3, <1>4, ContarTipo DEF Operacion

\* A measured trade keeps the types of what it touches.
LEMMA OperacionMedidaTipo ==
    ASSUME TypeOK, NEW m \in Mints, NEW l \in Lecturas, OperacionMedida(m, l)
    PROVE  /\ frenos' \in SUBSET Mints /\ seguidos' \in Lugares(TRACKED_MINTS_CAP)
           /\ progreso' \in [Mints -> 0 .. 2]
           /\ Operacion(m, l)
<1>1. frenos' \in SUBSET Mints
  BY DEF OperacionMedida, TypeOK, TipoConjuntos
<1>2. seguidos' \in Lugares(TRACKED_MINTS_CAP)
  BY TocarLema, TopesAssumption DEF OperacionMedida, TypeOK, TipoMemorias
<1>3. progreso' \in [Mints -> 0 .. 2]
  <2>1. l.progreso \in {"lejos", "camino", "lleno"} /\ progreso \in [Mints -> 0 .. 2]
    BY LecturasAssumption DEF TypeOK, TipoResto
  <2> QED
    BY <2>1 DEF OperacionMedida
<1> QED
  BY <1>1, <1>2, <1>3 DEF OperacionMedida

-----------------------------------------------------------------------------
(* Types                                                                   *)

\* The process starts with its types.
LEMMA InitTipo == Init => TypeOK
<1> SUFFICES ASSUME Init PROVE TypeOK
  OBVIOUS
<1>1. IsFiniteSet({})
  BY FS_EmptySet
<1>2. Nada \in [Mints -> Nat] /\ \A cap \in Nat : Nada \in Lugares(cap)
  BY DEF Nada, Lugares
<1>3. TipoConjuntos
  BY DEF Init, TipoConjuntos
<1>4. TipoMemorias
  BY <1>2, TopesAssumption DEF Init, TipoMemorias
<1>5. TipoCaps
  BY <1>2, TopesAssumption, SMTT(30) DEF Init, TipoCaps
<1>6. TipoDisco
  BY <1>1, SembrarTipo, TopesAssumption DEF Init, TipoDisco
<1>7. TipoResto
  BY DEF Init, TipoResto, Nada
<1> QED
  BY <1>3, <1>4, <1>5, <1>6, <1>7 DEF TypeOK

\* A creation keeps the types (ingest.py:1353-1394).
LEMMA CrearTipo ==
    ASSUME TypeOK, NEW m \in Mints, Crear(m)
    PROVE  TypeOK'
<1>1. Observar(resultados, m, NACIMIENTO) \in Conteos
  BY ObservarTipo, UmbralesAssumption DEF TypeOK, TipoDisco
<1>2. /\ Tocar(seguidos, m, TRACKED_MINTS_CAP) \in Lugares(TRACKED_MINTS_CAP)
      /\ Tocar(nacidos, m, TRACKED_MINTS_CAP) \in Lugares(TRACKED_MINTS_CAP)
  BY TocarLema, TopesAssumption DEF TypeOK, TipoMemorias
<1>3. TipoConjuntos'
  BY DEF Crear, graduacion, cierre, swap, TypeOK, TipoConjuntos
<1>4. TipoMemorias'
  BY <1>2 DEF Crear, caps, swap, TypeOK, TipoMemorias
<1>5. TipoCaps'
  BY DEF Crear, caps, swap, TypeOK, TipoCaps
<1>6. TipoDisco'
  BY <1>1 DEF Crear, cierre, TypeOK, TipoDisco
<1>7. TipoResto'
  BY DEF Crear, Aviso, graduacion, swap, TypeOK, TipoResto
<1> QED
  BY <1>3, <1>4, <1>5, <1>6, <1>7 DEF TypeOK

\* A throttled trade keeps the types (ingest.py:823-836).
LEMMA FrenadaTipo ==
    ASSUME TypeOK, NEW m \in Mints, NEW l \in Lecturas, OperacionFrenada(m, l)
    PROVE  TypeOK'
<1> USE DEF OperacionFrenada, Operacion, Aviso, SinAnotar, caps, tasas, cierre
<1>1. /\ rafaga' \in [Mints -> Nat] /\ estampida' \in [Mints -> Nat] /\ base' \in [Mints -> Nat]
      /\ profundos' \in Lugares(DEEP_TRACKED_MAX)
      /\ {pasados', completas'} \subseteq SUBSET Mints /\ avisos' \in Nat
  BY OperacionTipo
<1>2. TipoConjuntos'
  BY <1>1 DEF TypeOK, TipoConjuntos
<1>3. TipoMemorias'
  BY <1>1 DEF TypeOK, TipoMemorias
<1>4. TipoCaps'
  BY <1>1 DEF TypeOK, TipoCaps
<1>5. TipoDisco'
  BY DEF TypeOK, TipoDisco
<1>6. TipoResto'
  BY <1>1 DEF TypeOK, TipoResto
<1> QED
  BY <1>2, <1>3, <1>4, <1>5, <1>6 DEF TypeOK

\* A trade that graduates nothing keeps the types (ingest.py:837-905).
LEMMA ComunTipo ==
    ASSUME TypeOK, NEW m \in Mints, NEW l \in Lecturas, OperacionComun(m, l)
    PROVE  TypeOK'
<1>1. OperacionMedida(m, l) /\ Anotar(m, l.cap, Protegidos') /\ UNCHANGED <<graduados, pausa, orden, vigilados>>
  BY DEF OperacionComun
<1>2. Operacion(m, l) /\ frenos' \in SUBSET Mints /\ seguidos' \in Lugares(TRACKED_MINTS_CAP)
      /\ progreso' \in [Mints -> 0 .. 2]
  BY <1>1, OperacionMedidaTipo
<1>3. /\ l.cap \in Nat
      /\ rafaga' \in [Mints -> Nat] /\ estampida' \in [Mints -> Nat] /\ base' \in [Mints -> Nat]
      /\ profundos' \in Lugares(DEEP_TRACKED_MAX)
      /\ {pasados', completas'} \subseteq SUBSET Mints /\ avisos' \in Nat
  BY <1>2, OperacionTipo
<1> DEFINE prot == Protegidos'
<1>4. Anotar(m, l.cap, prot)
  BY <1>1
<1> HIDE DEF prot
<1>5. /\ resultados' \in Conteos /\ ganadores' \in SUBSET Mints
      /\ premiados' \subseteq [mint : Mints, arranque : Nat, pico : Nat]
      /\ capActual' \in [Mints -> Nat] /\ recientes' \in Lugares(TRACKED_MINTS_CAP)
      /\ pico' \in [Mints -> Nat] /\ historia' \in [Mints -> Seq(Nat)]
      /\ \A x \in Mints : Len(historia'[x]) <= CAP_HISTORY
      /\ sembrado' = sembrado
  BY <1>3, <1>4, AnotarTipo
<1>6. UNCHANGED <<conocidos, nacidos, guardados, cierre, picoSwap, opsSwap, grandesSwap, ventas, arranques>>
  BY <1>2 DEF Operacion, Aviso
<1>7. TipoConjuntos'
  BY <1>1, <1>2, <1>3, <1>5, <1>6 DEF TypeOK, TipoConjuntos, cierre
<1>8. TipoMemorias'
  BY <1>1, <1>2, <1>3, <1>5, <1>6 DEF TypeOK, TipoMemorias
<1>9. TipoCaps'
  BY <1>3, <1>5, <1>6 DEF TypeOK, TipoCaps
<1>10. TipoDisco'
  BY <1>5, <1>6 DEF TypeOK, TipoDisco, cierre
<1>11. TipoResto'
  BY <1>1, <1>2, <1>3, <1>6 DEF TypeOK, TipoResto
<1> QED
  BY <1>7, <1>8, <1>9, <1>10, <1>11 DEF TypeOK

\* A graduation keeps the types of its queue (ingest.py:868-881).
LEMMA GraduaTipo ==
    ASSUME TypeOK, NEW m \in Mints, NEW l \in Lecturas, OperacionGradua(m, l)
    PROVE  /\ OperacionMedida(m, l)
           /\ graduados' \in SUBSET Mints /\ orden' \in Lugares(SWAP_WATCH_CAP)
<1>1. orden' \in Lugares(SWAP_WATCH_CAP)
  BY TocarLema, TopesAssumption DEF OperacionGradua, TypeOK, TipoMemorias
<1>2. graduados' \in SUBSET Mints
  BY DEF OperacionGradua, TypeOK, TipoConjuntos
<1> QED
  BY <1>1, <1>2 DEF OperacionGradua

\* A graduation that finds room keeps the types (ingest.py:1446-1461).
LEMMA ConSitioTipo ==
    ASSUME TypeOK, NEW m \in Mints, NEW l \in Lecturas, OperacionGraduaConSitio(m, l)
    PROVE  TypeOK'
<1>1. /\ OperacionGradua(m, l) /\ Anotar(m, l.cap, Protegidos') /\ pausa' = pausa
      /\ vigilados' = vigilados \cup {m}
  BY DEF OperacionGraduaConSitio
<1>2. OperacionMedida(m, l) /\ graduados' \in SUBSET Mints /\ orden' \in Lugares(SWAP_WATCH_CAP)
  BY <1>1, GraduaTipo
<1>3. Operacion(m, l) /\ frenos' \in SUBSET Mints /\ seguidos' \in Lugares(TRACKED_MINTS_CAP)
      /\ progreso' \in [Mints -> 0 .. 2]
  BY <1>2, OperacionMedidaTipo
<1>4. /\ l.cap \in Nat
      /\ rafaga' \in [Mints -> Nat] /\ estampida' \in [Mints -> Nat] /\ base' \in [Mints -> Nat]
      /\ profundos' \in Lugares(DEEP_TRACKED_MAX)
      /\ {pasados', completas'} \subseteq SUBSET Mints /\ avisos' \in Nat
  BY <1>3, OperacionTipo
<1> DEFINE prot == Protegidos'
<1>5. Anotar(m, l.cap, prot)
  BY <1>1
<1> HIDE DEF prot
<1>6. /\ resultados' \in Conteos /\ ganadores' \in SUBSET Mints
      /\ premiados' \subseteq [mint : Mints, arranque : Nat, pico : Nat]
      /\ capActual' \in [Mints -> Nat] /\ recientes' \in Lugares(TRACKED_MINTS_CAP)
      /\ pico' \in [Mints -> Nat] /\ historia' \in [Mints -> Seq(Nat)]
      /\ \A x \in Mints : Len(historia'[x]) <= CAP_HISTORY
      /\ sembrado' = sembrado
  BY <1>4, <1>5, AnotarTipo
<1>7. UNCHANGED <<conocidos, nacidos, guardados, cierre, picoSwap, opsSwap, grandesSwap, ventas, arranques>>
  BY <1>3 DEF Operacion, Aviso
<1>8. TipoConjuntos'
  BY <1>1, <1>2, <1>3, <1>4, <1>6, <1>7 DEF TypeOK, TipoConjuntos, cierre
<1>9. TipoMemorias'
  BY <1>2, <1>3, <1>4, <1>6, <1>7 DEF TypeOK, TipoMemorias
<1>10. TipoCaps'
  BY <1>4, <1>6, <1>7 DEF TypeOK, TipoCaps
<1>11. TipoDisco'
  BY <1>6, <1>7 DEF TypeOK, TipoDisco, cierre
<1>12. TipoResto'
  BY <1>1, <1>3, <1>4, <1>7 DEF TypeOK, TipoResto
<1> QED
  BY <1>8, <1>9, <1>10, <1>11, <1>12 DEF TypeOK

\* One that awaits keeps the types (ingest.py:1453-1458).
LEMMA EsperandoTipo ==
    ASSUME TypeOK, NEW m \in Mints, NEW l \in Lecturas, OperacionGraduaEsperando(m, l)
    PROVE  TypeOK'
<1>1. /\ OperacionGradua(m, l) /\ SinAnotar
      /\ \E viejo \in Expulsados(orden, m, SWAP_WATCH_CAP) :
           /\ vigilados' = vigilados \ {viejo}
           /\ pausa' = [mint |-> m, cap |-> l.cap, viejo |-> viejo]
  BY DEF OperacionGraduaEsperando
<1>2. OperacionMedida(m, l) /\ graduados' \in SUBSET Mints /\ orden' \in Lugares(SWAP_WATCH_CAP)
  BY <1>1, GraduaTipo
<1>3. Operacion(m, l) /\ frenos' \in SUBSET Mints /\ seguidos' \in Lugares(TRACKED_MINTS_CAP)
      /\ progreso' \in [Mints -> 0 .. 2]
  BY <1>2, OperacionMedidaTipo
<1>4. /\ l.cap \in Nat
      /\ rafaga' \in [Mints -> Nat] /\ estampida' \in [Mints -> Nat] /\ base' \in [Mints -> Nat]
      /\ profundos' \in Lugares(DEEP_TRACKED_MAX)
      /\ {pasados', completas'} \subseteq SUBSET Mints /\ avisos' \in Nat
  BY <1>3, OperacionTipo
<1>5. UNCHANGED <<conocidos, nacidos, guardados, cierre, picoSwap, opsSwap, grandesSwap, ventas, arranques>>
  BY <1>3 DEF Operacion, Aviso
<1>6. UNCHANGED <<capActual, recientes, pico, historia, resultados, sembrado, ganadores, premiados>>
  BY <1>1 DEF SinAnotar, caps, tasas
<1>7. vigilados' \in SUBSET Mints /\ pausa' \in [mint : Mints, cap : Nat, viejo : Mints]
  BY <1>1, <1>4 DEF Expulsados, Presentes, TypeOK, TipoConjuntos
<1>8. TipoConjuntos'
  BY <1>2, <1>3, <1>4, <1>5, <1>6, <1>7 DEF TypeOK, TipoConjuntos, cierre
<1>9. TipoMemorias'
  BY <1>2, <1>3, <1>4, <1>5, <1>6 DEF TypeOK, TipoMemorias
<1>10. TipoCaps'
  BY <1>4, <1>5, <1>6 DEF TypeOK, TipoCaps
<1>11. TipoDisco'
  BY <1>5, <1>6 DEF TypeOK, TipoDisco, cierre
<1>12. TipoResto'
  BY <1>3, <1>4, <1>5, <1>7 DEF TypeOK, TipoResto
<1> QED
  BY <1>8, <1>9, <1>10, <1>11, <1>12 DEF TypeOK

\* What follows the wait keeps the types (ingest.py:1458-1461).
LEMMA ReanudarTipo ==
    ASSUME TypeOK, Reanudar
    PROVE  TypeOK'
<1>1. pausa \in [mint : Mints, cap : Nat, viejo : Mints]
  BY DEF Reanudar, TypeOK, TipoResto
<1> DEFINE m == pausa.mint
           cap == pausa.cap
           prot == Protegidos
<1>2. m \in Mints /\ cap \in Nat /\ Anotar(m, cap, prot)
  BY <1>1 DEF Reanudar
<1>3. /\ vigilados' = vigilados \cup {m} /\ pausa' = Nadie
      /\ opsSwap' = [opsSwap EXCEPT ![pausa.viejo] = 0]
      /\ UNCHANGED <<lanzamiento, cierre, progreso, graduados, completas, orden, picoSwap,
                     grandesSwap, ventas, guardados, avisos, arranques>>
  BY DEF Reanudar, Vigilar
<1> HIDE DEF m, cap, prot
<1>4. /\ resultados' \in Conteos /\ ganadores' \in SUBSET Mints
      /\ premiados' \subseteq [mint : Mints, arranque : Nat, pico : Nat]
      /\ capActual' \in [Mints -> Nat] /\ recientes' \in Lugares(TRACKED_MINTS_CAP)
      /\ pico' \in [Mints -> Nat] /\ historia' \in [Mints -> Seq(Nat)]
      /\ \A x \in Mints : Len(historia'[x]) <= CAP_HISTORY
      /\ sembrado' = sembrado
  BY <1>2, AnotarTipo
<1>5. TipoConjuntos'
  BY <1>2, <1>3, <1>4 DEF lanzamiento, cierre, TypeOK, TipoConjuntos
<1>6. TipoMemorias'
  BY <1>3, <1>4 DEF lanzamiento, TypeOK, TipoMemorias
<1>7. TipoCaps'
  <2>1. opsSwap' \in [Mints -> Nat]
    BY <1>3 DEF TypeOK, TipoCaps
  <2>2. UNCHANGED <<rafaga, estampida, base, picoSwap>>
    BY <1>3 DEF lanzamiento
  <2> QED
    BY <1>4, <2>1, <2>2 DEF TypeOK, TipoCaps
<1>8. TipoDisco'
  BY <1>3, <1>4 DEF cierre, TypeOK, TipoDisco
<1>9. TipoResto'
  BY <1>3 DEF TypeOK, TipoResto
<1> QED
  BY <1>5, <1>6, <1>7, <1>8, <1>9 DEF TypeOK

\* What a photo closes can be counted and written.
LEMMA PorCerrarLema ==
    ASSUME TypeOK, NEW f \in Fotos
    PROVE  /\ PorCerrar(f) \in SUBSET Mints
           /\ IsFiniteSet(PorCerrar(f))
           /\ Cardinality(PorCerrar(f)) \in Nat
<1>1. PorCerrar(f) \in SUBSET Mints
  BY DEF PorCerrar, Fotos, Presentes
<1>2. IsFiniteSet(PorCerrar(f))
  BY <1>1, MintsAssumption, FS_Subset
<1> QED
  BY <1>1, <1>2, FS_CardinalityType

\* The lines a photo writes are finitely many and of their type.
LEMMA LineasEscritas ==
    ASSUME TypeOK, NEW escritas \in SUBSET Mints
    PROVE  /\ {Linea(m) : m \in escritas} \subseteq [mint : Mints, arranque : Nat, base : Nat, pico : Nat]
           /\ IsFiniteSet({Linea(m) : m \in escritas})
<1> DEFINE L == {Linea(m) : m \in escritas}
           g == [m \in escritas |-> Linea(m)]
<1>1. IsFiniteSet(escritas)
  BY MintsAssumption, FS_Subset
<1>2. g \in Surjection(escritas, L)
  BY DEF Surjection
<1>3. IsFiniteSet(L)
  BY <1>1, <1>2, FS_Surjection
<1>4. \A m \in Mints : Linea(m) \in [mint : Mints, arranque : Nat, base : Nat, pico : Nat]
  BY DEF Linea, TypeOK, TipoCaps, TipoResto
<1> QED
  BY <1>3, <1>4

\* A photo keeps the types (ingest.py:1144-1320).
LEMMA FotografiarTipo ==
    ASSUME TypeOK, Fotografiar
    PROVE  TypeOK'
<1>1. PICK f \in Fotos :
         /\ resueltas' = resueltas \cup PorCerrar(f)
         /\ muestra' = Menor(MUESTRA_MAX, muestra + Cardinality(PorCerrar(f)))
         /\ \E escritas \in SUBSET PorCerrar(f) :
              corpus' = corpus \cup {Linea(m) : m \in escritas}
  BY DEF Fotografiar
<1>2. PorCerrar(f) \in SUBSET Mints /\ Cardinality(PorCerrar(f)) \in Nat
  BY PorCerrarLema
<1>3. PICK escritas \in SUBSET Mints : corpus' = corpus \cup {Linea(m) : m \in escritas}
  BY <1>1, <1>2
<1>4. UNCHANGED <<lanzamiento, caps, tasas, graduacion, swap, guardados, avisos, arranques>>
  BY DEF Fotografiar
<1>5. muestra' \in 0 .. MUESTRA_MAX
  <2>1. muestra \in Nat /\ MUESTRA_MAX \in Nat
    BY TopesAssumption DEF TypeOK, TipoDisco
  <2>2. muestra + Cardinality(PorCerrar(f)) \in Nat
    BY <1>2, <2>1
  <2> QED
    BY <1>1, <2>1, <2>2, MenorLema
<1>6. /\ corpus' \subseteq [mint : Mints, arranque : Nat, base : Nat, pico : Nat]
      /\ IsFiniteSet(corpus')
  BY <1>3, LineasEscritas, FS_Union DEF TypeOK, TipoDisco
<1>7. TipoConjuntos'
  BY <1>1, <1>2, <1>4 DEF lanzamiento, tasas, graduacion, swap, TypeOK, TipoConjuntos
<1>8. TipoMemorias'
  BY <1>4 DEF lanzamiento, caps, swap, TypeOK, TipoMemorias
<1>9. TipoCaps'
  BY <1>4 DEF lanzamiento, caps, swap, TypeOK, TipoCaps
<1>10. TipoDisco'
  BY <1>4, <1>5, <1>6 DEF tasas, TypeOK, TipoDisco
<1>11. TipoResto'
  BY <1>4 DEF graduacion, swap, TypeOK, TipoResto
<1> QED
  BY <1>7, <1>8, <1>9, <1>10, <1>11 DEF TypeOK

\* A trade on PumpSwap keeps the types (ingest.py:1463-1535).
LEMMA OperarSwapTipo ==
    ASSUME TypeOK, NEW m \in Mints, NEW l \in Lecturas, OperarSwap(m, l.cap)
    PROVE  TypeOK'
<1>1. l.cap \in Nat
  BY LecturasAssumption
<1>2. picoSwap' \in [Mints -> Nat] /\ opsSwap' \in [Mints -> Nat]
  <2>1. picoSwap \in [Mints -> Nat] /\ opsSwap \in [Mints -> Nat]
    BY DEF TypeOK, TipoCaps
  <2>2. Mayor(picoSwap[m], l.cap) \in Nat /\ opsSwap[m] + 1 \in Nat
    <3>1. picoSwap[m] \in Nat /\ opsSwap[m] \in Nat
      BY <2>1
    <3> QED
      BY <1>1, <3>1 DEF Mayor
  <2> QED
    BY <2>1, <2>2 DEF OperarSwap
<1>3. grandesSwap' \in SUBSET Mints /\ ventas' \in Nat
  BY DEF OperarSwap, TypeOK, TipoConjuntos, TipoResto
<1>4. UNCHANGED <<lanzamiento, caps, cierre, tasas, graduacion, orden, vigilados, guardados,
                   avisos, arranques>>
  BY DEF OperarSwap
<1>5. TipoConjuntos'
  BY <1>3, <1>4 DEF lanzamiento, cierre, tasas, graduacion, TypeOK, TipoConjuntos
<1>6. TipoMemorias'
  BY <1>4 DEF lanzamiento, caps, TypeOK, TipoMemorias
<1>7. TipoCaps'
  BY <1>2, <1>4 DEF lanzamiento, caps, TypeOK, TipoCaps
<1>8. TipoDisco'
  BY <1>4 DEF cierre, tasas, TypeOK, TipoDisco
<1>9. TipoResto'
  BY <1>3, <1>4 DEF graduacion, TypeOK, TipoResto
<1> QED
  BY <1>5, <1>6, <1>7, <1>8, <1>9 DEF TypeOK

\* A restart keeps the types.
LEMMA ReiniciarTipo ==
    ASSUME TypeOK, Reiniciar
    PROVE  TypeOK'
<1>1. Nada \in [Mints -> Nat] /\ \A cap \in Nat : Nada \in Lugares(cap)
  BY DEF Nada, Lugares
<1>2. muestra' \in 0 .. MUESTRA_MAX
  <2>1. Cardinality(corpus) \in Nat /\ MUESTRA_MAX \in Nat
    BY FS_CardinalityType, TopesAssumption DEF TypeOK, TipoDisco
  <2> QED
    BY <2>1, MenorLema DEF Reiniciar
<1>3. resultados' \in Conteos
  BY SembrarTipo DEF Reiniciar, TypeOK, TipoDisco
<1>4. TipoConjuntos'
  BY DEF Reiniciar, TypeOK, TipoConjuntos
<1>5. TipoMemorias'
  BY <1>1, TopesAssumption DEF Reiniciar, TipoMemorias
<1>6. TipoCaps'
  BY <1>1, TopesAssumption, SMTT(30) DEF Reiniciar, TipoCaps
<1>7. TipoDisco'
  BY <1>2, <1>3 DEF Reiniciar, TypeOK, TipoDisco
<1>8. TipoResto'
  BY DEF Reiniciar, TypeOK, TipoResto, Nada
<1> QED
  BY <1>4, <1>5, <1>6, <1>7, <1>8 DEF TypeOK

\* Whatever comes and in whatever order, every memory of the radar keeps its
\* capacity and every counter is a count.
THEOREM Spec_TypeOK == Spec => []TypeOK
<1>1. TypeOK /\ [Next]_vars => TypeOK'
  <2> SUFFICES ASSUME TypeOK, [Next]_vars PROVE TypeOK'
    OBVIOUS
  <2>1. ASSUME NEW m \in Mints, Crear(m) PROVE TypeOK'
    BY <2>1, CrearTipo
  <2>2. ASSUME NEW m \in Mints, NEW l \in Lecturas, OperacionFrenada(m, l) PROVE TypeOK'
    BY <2>2, FrenadaTipo
  <2>3. ASSUME NEW m \in Mints, NEW l \in Lecturas, OperacionComun(m, l) PROVE TypeOK'
    BY <2>3, ComunTipo
  <2>4. ASSUME NEW m \in Mints, NEW l \in Lecturas, OperacionGraduaConSitio(m, l) PROVE TypeOK'
    BY <2>4, ConSitioTipo
  <2>5. ASSUME NEW m \in Mints, NEW l \in Lecturas, OperacionGraduaEsperando(m, l) PROVE TypeOK'
    BY <2>5, EsperandoTipo
  <2>6. CASE Reanudar
    BY <2>6, ReanudarTipo
  <2>7. CASE Fotografiar
    BY <2>7, FotografiarTipo
  <2>8. ASSUME NEW m \in Mints, NEW l \in Lecturas, OperarSwap(m, l.cap) PROVE TypeOK'
    BY <2>8, OperarSwapTipo
  <2>9. CASE Reiniciar
    BY <2>9, ReiniciarTipo
  <2>10. CASE UNCHANGED vars
    <3>1. UNCHANGED <<lanzamiento, caps, cierre, tasas, graduacion, swap, guardados, avisos, arranques>>
      BY <2>10 DEF vars
    <3>2. TipoConjuntos'
      BY <3>1 DEF lanzamiento, cierre, tasas, graduacion, swap, TypeOK, TipoConjuntos
    <3>3. TipoMemorias' /\ TipoCaps'
      BY <3>1 DEF lanzamiento, caps, swap, TypeOK, TipoMemorias, TipoCaps
    <3>4. TipoDisco' /\ TipoResto'
      BY <3>1 DEF cierre, tasas, graduacion, swap, TypeOK, TipoDisco, TipoResto
    <3> QED
      BY <3>2, <3>3, <3>4 DEF TypeOK
  <2> QED
    BY <2>1, <2>2, <2>3, <2>4, <2>5, <2>6, <2>7, <2>8, <2>9, <2>10 DEF Next
<1> QED
  BY <1>1, InitTipo, PTL DEF Spec

-----------------------------------------------------------------------------
(* The counters are the recount of the peaks.  Inductive with what the     *)
(* tracker remembers besides: which mints it has seen and which of them    *)
(* already counted for each goal.                                          *)

Sobre(g, u) == {x \in Mints : g[x] >= u}
Subir(g, m, cap) == [g EXCEPT ![m] = cap]

Recuento(r, disco) ==
    /\ \A m \in Mints : m \notin r.vistos => r.maximo[m] = 0
    /\ r.llegaron = Sobre(r.maximo, OBJETIVO)
    /\ r.explotaron = Sobre(r.maximo, EXPLOTA)
    /\ r.grandes = Sobre(r.maximo, GRANDE)
    /\ \A n \in Niveles :
         /\ r.alcanzan[n] = Cardinality(Sobre(r.maximo, n))
         /\ r.aciertan[n] = Cardinality(Sobre(r.maximo, OBJETIVO))
    /\ \A b \in Bandas :
         /\ r.banda[b] = Lineas(disco, b) + Cardinality(Sobre(r.maximo, b))
         /\ r.explota[b] = Lineas(disco, EXPLOTA) + Cardinality(Sobre(r.maximo, EXPLOTA))
         /\ r.grande[b] = Lineas(disco, GRANDE) + Cardinality(Sobre(r.maximo, GRANDE))

\* A peak that grows adds one mint above the thresholds it crosses, and none
\* above the others.
LEMMA SobreLema ==
    ASSUME NEW g \in [Mints -> Nat], NEW m \in Mints, NEW cap \in Nat, cap >= g[m], NEW u \in Nat
    PROVE  /\ Cardinality(Sobre(g, u)) \in Nat
           /\ g[m] < u /\ u <= cap =>
                /\ m \notin Sobre(g, u)
                /\ Sobre(Subir(g, m, cap), u) = Sobre(g, u) \cup {m}
                /\ Cardinality(Sobre(Subir(g, m, cap), u)) = Cardinality(Sobre(g, u)) + 1
           /\ ~ (g[m] < u /\ u <= cap) => Sobre(Subir(g, m, cap), u) = Sobre(g, u)
           /\ Sobre(Subir(g, m, cap), u) = IF cap >= u THEN Sobre(g, u) \cup {m} ELSE Sobre(g, u)
           /\ m \in Sobre(g, u) <=> g[m] >= u
<1>1. IsFiniteSet(Sobre(g, u))
  BY MintsAssumption, FS_Subset DEF Sobre
<1>2. Cardinality(Sobre(g, u)) \in Nat
  BY <1>1, FS_CardinalityType
<1>3. Sobre(Subir(g, m, cap), u) = IF cap >= u THEN Sobre(g, u) \cup {m} ELSE Sobre(g, u)
  BY DEF Sobre, Subir
<1>4. m \in Sobre(g, u) <=> g[m] >= u
  BY DEF Sobre
<1>5. ASSUME g[m] < u, u <= cap
      PROVE  /\ m \notin Sobre(g, u) /\ Sobre(Subir(g, m, cap), u) = Sobre(g, u) \cup {m}
             /\ Cardinality(Sobre(Subir(g, m, cap), u)) = Cardinality(Sobre(g, u)) + 1
  <2>1. m \notin Sobre(g, u) /\ Sobre(Subir(g, m, cap), u) = Sobre(g, u) \cup {m}
    <3>1. g[m] \in Nat
      OBVIOUS
    <3>2. ~ (g[m] >= u) /\ cap >= u
      BY <1>5, <3>1
    <3> QED
      BY <1>3, <1>4, <3>2
  <2> DEFINE S == Sobre(g, u)
  <2>2. IsFiniteSet(S) /\ m \notin S
    BY <1>1, <2>1
  <2> HIDE DEF S
  <2>3. Cardinality(S \cup {m}) = IF m \in S THEN Cardinality(S) ELSE Cardinality(S) + 1
    BY <2>2, FS_AddElement
  <2> QED
    BY <2>1, <2>2, <2>3 DEF S
<1>6. ASSUME ~ (g[m] < u /\ u <= cap) PROVE Sobre(Subir(g, m, cap), u) = Sobre(g, u)
  BY <1>6 DEF Sobre, Subir
<1> QED
  BY <1>2, <1>3, <1>4, <1>5, <1>6

\* A goal reached for the first time counts once at every threshold up to it.
LEMMA LogroLema ==
    ASSUME NEW U \in SUBSET (Nat \ {0}), NEW cuenta \in [U -> Nat], NEW meta \in Nat,
           \A u \in U : u <= meta,
           NEW g \in [Mints -> Nat], NEW m \in Mints, NEW cap \in Nat, cap >= g[m],
           NEW k \in Nat, \A u \in U : cuenta[u] = k + Cardinality(Sobre(g, meta))
    PROVE  \A u \in U : Logro(cuenta, cap >= meta /\ m \notin Sobre(g, meta), cap)[u] =
                            k + Cardinality(Sobre(Subir(g, m, cap), meta))
<1>1. Cardinality(Sobre(g, meta)) \in Nat /\ (m \in Sobre(g, meta) <=> g[m] >= meta) /\ g[m] \in Nat
  BY SobreLema
<1>2. CASE cap >= meta /\ m \notin Sobre(g, meta)
  <2>1. Cardinality(Sobre(Subir(g, m, cap), meta)) = Cardinality(Sobre(g, meta)) + 1
    <3>1. g[m] < meta /\ meta <= cap
      BY <1>1, <1>2
    <3> QED
      BY <3>1, SobreLema, Zenon
  <2>2. \A u \in U : Cruzados(cuenta, 0, cap)[u] = cuenta[u] + 1
    BY <1>2, CruzadosLema
  <2>3. \A u \in U : Cruzados(cuenta, 0, cap)[u] = k + Cardinality(Sobre(Subir(g, m, cap), meta))
    BY <1>1, <2>1, <2>2
  <2> QED
    BY <1>2, <2>3 DEF Logro
<1>3. CASE ~ (cap >= meta /\ m \notin Sobre(g, meta))
  <2>1. Sobre(Subir(g, m, cap), meta) = Sobre(g, meta)
    BY <1>1, <1>3, SobreLema, Zenon
  <2> QED
    BY <1>3, <2>1 DEF Logro
<1> QED
  BY <1>2, <1>3

\* An observation keeps the counters the recount of the peaks
\* (ingest.py:498-531).
LEMMA RecuentoObservar ==
    ASSUME NEW r \in Conteos, NEW disco, IsFiniteSet(disco), Recuento(r, disco),
           NEW m \in Mints, NEW cap \in Nat
    PROVE  Recuento(Observar(r, m, cap), disco)
<1> DEFINE o == Observar(r, m, cap)
           g == r.maximo
<1>1. CASE NoCuenta(r, m, cap)
  BY <1>1 DEF Observar
<1>2. CASE ~ NoCuenta(r, m, cap)
  <2>1. g \in [Mints -> Nat] /\ g[m] \in Nat
    BY DEF Conteos
  <2>2. cap >= g[m]
    BY <1>2, <2>1 DEF NoCuenta, Recuento
  <2>3. /\ Niveles \in SUBSET (Nat \ {0}) /\ Bandas \in SUBSET (Nat \ {0})
        /\ Niveles \in SUBSET Nat /\ Bandas \in SUBSET Nat
        /\ OBJETIVO \in Nat /\ EXPLOTA \in Nat /\ GRANDE \in Nat /\ 0 \in Nat
        /\ \A n \in Niveles : n <= OBJETIVO
        /\ \A b \in Bandas : b <= EXPLOTA
        /\ \A b \in Bandas : b <= GRANDE
    <3>1. /\ OBJETIVO \in Nat /\ EXPLOTA \in Nat /\ GRANDE \in Nat /\ EXPLOTA <= GRANDE
          /\ Niveles \subseteq 1 .. OBJETIVO /\ Bandas \subseteq 1 .. EXPLOTA
      BY UmbralesAssumption
    <3> QED
      BY <3>1
  <2>4. /\ r.alcanzan \in [Niveles -> Nat] /\ r.aciertan \in [Niveles -> Nat]
        /\ r.banda \in [Bandas -> Nat] /\ r.explota \in [Bandas -> Nat] /\ r.grande \in [Bandas -> Nat]
    BY DEF Conteos
  <2>5. o.maximo = Subir(g, m, cap) /\ o.vistos = r.vistos \cup {m}
    BY <1>2 DEF Observar, Conteos, Subir
  <2>6. /\ o.llegaron = (IF cap >= OBJETIVO THEN r.llegaron \cup {m} ELSE r.llegaron)
        /\ o.explotaron = (IF cap >= EXPLOTA THEN r.explotaron \cup {m} ELSE r.explotaron)
        /\ o.grandes = (IF cap >= GRANDE THEN r.grandes \cup {m} ELSE r.grandes)
    BY <1>2 DEF Observar, Conteos
  <2>7. /\ o.alcanzan = Cruzados(r.alcanzan, g[m], cap)
        /\ o.banda = Cruzados(r.banda, g[m], cap)
    BY <1>2 DEF Observar, Conteos
  <2>8. /\ o.aciertan = Logro(r.aciertan, cap >= OBJETIVO /\ m \notin r.llegaron, cap)
        /\ o.explota = Logro(r.explota, cap >= EXPLOTA /\ m \notin r.explotaron, cap)
        /\ o.grande = Logro(r.grande, cap >= GRANDE /\ m \notin r.grandes, cap)
    BY <1>2 DEF Observar, Conteos
  <2>9. /\ r.llegaron = Sobre(g, OBJETIVO) /\ r.explotaron = Sobre(g, EXPLOTA)
        /\ r.grandes = Sobre(g, GRANDE)
        /\ \A x \in Mints : x \notin r.vistos => g[x] = 0
        /\ \A n \in Niveles : /\ r.alcanzan[n] = Cardinality(Sobre(g, n))
                              /\ r.aciertan[n] = Cardinality(Sobre(g, OBJETIVO))
        /\ \A b \in Bandas :
             /\ r.banda[b] = Lineas(disco, b) + Cardinality(Sobre(g, b))
             /\ r.explota[b] = Lineas(disco, EXPLOTA) + Cardinality(Sobre(g, EXPLOTA))
             /\ r.grande[b] = Lineas(disco, GRANDE) + Cardinality(Sobre(g, GRANDE))
    BY DEF Recuento
  <2>10. \A x \in Mints : x \notin o.vistos => Subir(g, m, cap)[x] = 0
    BY <2>1, <2>5, <2>9 DEF Subir
  <2> HIDE DEF o, g
  <2>11. /\ o.llegaron = Sobre(Subir(g, m, cap), OBJETIVO) /\ o.explotaron = Sobre(Subir(g, m, cap), EXPLOTA)
         /\ o.grandes = Sobre(Subir(g, m, cap), GRANDE)
    <3>1. \A u \in Nat : Sobre(Subir(g, m, cap), u) = IF cap >= u THEN Sobre(g, u) \cup {m} ELSE Sobre(g, u)
      BY <2>1, <2>2, SobreLema
    <3> QED
      BY <2>3, <2>6, <2>9, <3>1
  <2>12. \A u \in Nat \ {0} :
           /\ Cardinality(Sobre(g, u)) \in Nat
           /\ Cardinality(Sobre(Subir(g, m, cap), u)) = IF g[m] < u /\ u <= cap THEN Cardinality(Sobre(g, u)) + 1
                                         ELSE Cardinality(Sobre(g, u))
    <3> SUFFICES ASSUME NEW u \in Nat \ {0}
                 PROVE  /\ Cardinality(Sobre(g, u)) \in Nat
                        /\ Cardinality(Sobre(Subir(g, m, cap), u)) = IF g[m] < u /\ u <= cap
                             THEN Cardinality(Sobre(g, u)) + 1 ELSE Cardinality(Sobre(g, u))
      OBVIOUS
    <3>1. u \in Nat
      OBVIOUS
    <3>2. /\ Cardinality(Sobre(g, u)) \in Nat
          /\ g[m] < u /\ u <= cap => Cardinality(Sobre(Subir(g, m, cap), u)) = Cardinality(Sobre(g, u)) + 1
          /\ ~ (g[m] < u /\ u <= cap) => Sobre(Subir(g, m, cap), u) = Sobre(g, u)
      BY <2>1, <2>2, <3>1, SobreLema
    <3> QED
      BY <3>2
  <2>13. \A n \in Niveles : o.alcanzan[n] = Cardinality(Sobre(Subir(g, m, cap), n))
    <3>1. \A n \in Niveles : Cruzados(r.alcanzan, g[m], cap)[n] =
             IF g[m] < n /\ n <= cap THEN r.alcanzan[n] + 1 ELSE r.alcanzan[n]
      BY <2>1, <2>4 DEF Cruzados
    <3> QED
      BY <2>3, <2>7, <2>9, <2>12, <3>1
  <2>14. \A b \in Bandas : o.banda[b] = Lineas(disco, b) + Cardinality(Sobre(Subir(g, m, cap), b))
    <3>1. \A b \in Bandas : Cruzados(r.banda, g[m], cap)[b] =
             IF g[m] < b /\ b <= cap THEN r.banda[b] + 1 ELSE r.banda[b]
      BY <2>1, <2>4 DEF Cruzados
    <3>2. \A b \in Bandas : Lineas(disco, b) \in Nat
      BY LineasLema
    <3> QED
      BY <2>3, <2>7, <2>9, <2>12, <3>1, <3>2
  <2>15. \A n \in Niveles : o.aciertan[n] = Cardinality(Sobre(Subir(g, m, cap), OBJETIVO))
    <3>1. \A n \in Niveles : r.aciertan[n] = 0 + Cardinality(Sobre(g, OBJETIVO))
      BY <2>3, <2>9, <2>12
    <3>2. \A n \in Niveles : Logro(r.aciertan, cap >= OBJETIVO /\ m \notin Sobre(g, OBJETIVO), cap)[n] =
             0 + Cardinality(Sobre(Subir(g, m, cap), OBJETIVO))
      BY <2>1, <2>2, <2>3, <2>4, <3>1, LogroLema
    <3>3. Cardinality(Sobre(Subir(g, m, cap), OBJETIVO)) \in Nat
      BY <2>12, UmbralesAssumption
    <3> QED
      BY <2>8, <2>9, <3>2, <3>3
  <2>16. \A b \in Bandas : o.explota[b] = Lineas(disco, EXPLOTA) + Cardinality(Sobre(Subir(g, m, cap), EXPLOTA))
    <3>0. Lineas(disco, EXPLOTA) \in Nat
      BY LineasLema
    <3>1. \A b \in Bandas : r.explota[b] = Lineas(disco, EXPLOTA) + Cardinality(Sobre(g, EXPLOTA))
      BY <2>9
    <3>2. \A b \in Bandas : Logro(r.explota, cap >= EXPLOTA /\ m \notin Sobre(g, EXPLOTA), cap)[b] =
             Lineas(disco, EXPLOTA) + Cardinality(Sobre(Subir(g, m, cap), EXPLOTA))
      BY <2>1, <2>2, <2>3, <2>4, <3>0, <3>1, LogroLema
    <3> QED
      BY <2>8, <2>9, <3>2
  <2>17. \A b \in Bandas : o.grande[b] = Lineas(disco, GRANDE) + Cardinality(Sobre(Subir(g, m, cap), GRANDE))
    <3>0. Lineas(disco, GRANDE) \in Nat
      BY LineasLema
    <3>1. \A b \in Bandas : r.grande[b] = Lineas(disco, GRANDE) + Cardinality(Sobre(g, GRANDE))
      BY <2>9
    <3>2. \A b \in Bandas : Logro(r.grande, cap >= GRANDE /\ m \notin Sobre(g, GRANDE), cap)[b] =
             Lineas(disco, GRANDE) + Cardinality(Sobre(Subir(g, m, cap), GRANDE))
      BY <2>1, <2>2, <2>3, <2>4, <3>0, <3>1, LogroLema
    <3> QED
      BY <2>8, <2>9, <3>2
  <2>18. Recuento(o, disco)
    BY <2>5, <2>10, <2>11, <2>13, <2>14, <2>15, <2>16, <2>17 DEF Recuento
  <2> QED
    BY <2>18 DEF o
<1> QED
  BY <1>1, <1>2

\* The counts read from the corpus are the recount of no peaks on top of it
\* (ingest.py:368-415).
LEMMA RecuentoSembrar ==
    ASSUME NEW disco, IsFiniteSet(disco)
    PROVE  Recuento(Sembrar(disco), disco)
<1>1. \A u \in Nat \ {0} : Sobre(Nada, u) = {} /\ Cardinality(Sobre(Nada, u)) = 0
  <2> SUFFICES ASSUME NEW u \in Nat \ {0} PROVE Sobre(Nada, u) = {}
    BY FS_EmptySet
  <2> QED
    BY DEF Sobre, Nada
<1>2. /\ Niveles \subseteq Nat \ {0} /\ Bandas \subseteq Nat \ {0}
      /\ OBJETIVO \in Nat \ {0} /\ EXPLOTA \in Nat \ {0} /\ GRANDE \in Nat \ {0}
  <2>1. /\ {OBJETIVO, EXPLOTA, GRANDE} \subseteq Nat \ {0}
        /\ Niveles \subseteq 1 .. OBJETIVO /\ Bandas \subseteq 1 .. EXPLOTA
    BY UmbralesAssumption
  <2> QED
    BY <2>1
<1>3. \A u \in Nat \ {0} : Lineas(disco, u) \in Nat
  BY LineasLema
<1>4. Sembrar(disco).maximo = Nada /\ Nada = [m \in Mints |-> 0]
  BY DEF Sembrar, Nada
<1>5. /\ Sembrar(disco).llegaron = {} /\ Sembrar(disco).explotaron = {} /\ Sembrar(disco).grandes = {}
      /\ \A n \in Niveles : Sembrar(disco).alcanzan[n] = 0 /\ Sembrar(disco).aciertan[n] = 0
      /\ \A b \in Bandas : /\ Sembrar(disco).banda[b] = Lineas(disco, b)
                           /\ Sembrar(disco).explota[b] = Lineas(disco, EXPLOTA)
                           /\ Sembrar(disco).grande[b] = Lineas(disco, GRANDE)
  BY DEF Sembrar
<1>6. \A m \in Mints : Sembrar(disco).maximo[m] = 0
  BY <1>4
<1> QED
  BY <1>1, <1>2, <1>3, <1>4, <1>5, <1>6 DEF Recuento

RecuentoInv == Recuento(resultados, sembrado)

\* Only observations and restarts touch the tracker.
LEMMA TrackerCambia ==
    ASSUME TypeOK, Next
    PROVE  \/ UNCHANGED <<resultados, sembrado>>
           \/ /\ sembrado' = sembrado
              /\ \E m \in Mints, cap \in Nat : resultados' = Observar(resultados, m, cap)
           \/ sembrado' = corpus /\ resultados' = Sembrar(corpus)
<1>1. ASSUME NEW m \in Mints, Crear(m)
      PROVE  /\ sembrado' = sembrado
             /\ resultados' = resultados \/ resultados' = Observar(resultados, m, NACIMIENTO)
  BY <1>1 DEF Crear
<1>2. NACIMIENTO \in Nat
  BY UmbralesAssumption
<1>3. ASSUME NEW m \in Mints, NEW l \in Lecturas, OperacionFrenada(m, l)
      PROVE  UNCHANGED <<resultados, sembrado>>
  BY <1>3 DEF OperacionFrenada, SinAnotar, tasas
<1>4. ASSUME NEW m \in Mints, NEW l \in Lecturas,
             OperacionComun(m, l) \/ OperacionGraduaConSitio(m, l)
      PROVE  sembrado' = sembrado /\ l.cap \in Nat /\ resultados' = Observar(resultados, m, l.cap)
  BY <1>4, LecturasAssumption DEF OperacionComun, OperacionGraduaConSitio, Anotar
<1>5. ASSUME NEW m \in Mints, NEW l \in Lecturas, OperacionGraduaEsperando(m, l)
      PROVE  UNCHANGED <<resultados, sembrado>>
  BY <1>5 DEF OperacionGraduaEsperando, SinAnotar, tasas
<1>6. CASE Reanudar
  <2>1. pausa \in [mint : Mints, cap : Nat, viejo : Mints]
    BY <1>6 DEF Reanudar, TypeOK, TipoResto
  <2>2. sembrado' = sembrado /\ resultados' = Observar(resultados, pausa.mint, pausa.cap)
    BY <1>6 DEF Reanudar, Anotar
  <2> QED
    BY <2>1, <2>2
<1>7. CASE Fotografiar
  BY <1>7 DEF Fotografiar, tasas
<1>8. ASSUME NEW m \in Mints, NEW l \in Lecturas, OperarSwap(m, l.cap)
      PROVE  UNCHANGED <<resultados, sembrado>>
  BY <1>8 DEF OperarSwap, tasas
<1>9. CASE Reiniciar
  BY <1>9 DEF Reiniciar
<1> QED
  BY <1>1, <1>2, <1>3, <1>4, <1>5, <1>6, <1>7, <1>8, <1>9 DEF Next

\* Every step keeps the counters a recount.
LEMMA RecuentoPaso ==
    ASSUME TypeOK, RecuentoInv, [Next]_vars
    PROVE  RecuentoInv'
<1>1. resultados \in Conteos /\ IsFiniteSet(sembrado) /\ IsFiniteSet(corpus)
  BY DEF TypeOK, TipoDisco
<1>2. CASE UNCHANGED <<resultados, sembrado>>
  BY <1>2 DEF RecuentoInv
<1>3. ASSUME NEW m \in Mints, NEW cap \in Nat, resultados' = Observar(resultados, m, cap),
             sembrado' = sembrado
      PROVE  RecuentoInv'
  BY <1>1, <1>3, RecuentoObservar DEF RecuentoInv
<1>4. CASE sembrado' = corpus /\ resultados' = Sembrar(corpus)
  BY <1>1, <1>4, RecuentoSembrar DEF RecuentoInv
<1>5. CASE UNCHANGED vars
  BY <1>2, <1>5 DEF vars, tasas
<1> QED
  BY <1>2, <1>3, <1>4, <1>5, TrackerCambia

\* Every counter the worker publishes is the recount of the peaks it stands
\* for, for any mints, thresholds and readings, across restarts with any
\* corpus (ingest.py:479).
THEOREM Spec_ConteoHonesto == Spec => []ConteoHonesto
<1>1. Init => RecuentoInv
  BY RecuentoSembrar, FS_EmptySet DEF Init, RecuentoInv
<1>2. TypeOK /\ RecuentoInv /\ [Next]_vars => RecuentoInv'
  BY RecuentoPaso
<1>3. RecuentoInv => ConteoHonesto
  BY DEF RecuentoInv, Recuento, Sobre, ConteoHonesto, Alcanzaron
<1> QED
  BY <1>1, <1>2, <1>3, Spec_TypeOK, PTL DEF Spec

-----------------------------------------------------------------------------
(* What is followed on PumpSwap                                            *)

\* The queue of graduations holds each token once, all of them graduated, and
\* the one that awaits its place already has it.
ColaInv ==
    /\ \A x, y \in Presentes(orden) : orden[x] = orden[y] => x = y
    /\ Presentes(orden) \subseteq graduados
    /\ pausa # Nadie => orden[pausa.mint] # 0
    /\ SeguidosSonLosUltimos

\* Whoever is new to a memory in order of use shifts the others by one place,
\* and at most one of them falls out.
LEMMA ColaLema ==
    ASSUME NEW cap \in Nat \ {0}, NEW memoria \in Lugares(cap), NEW m \in Mints, memoria[m] = 0,
           \A x, y \in Presentes(memoria) : memoria[x] = memoria[y] => x = y
    PROVE  LET t == Tocar(memoria, m, cap) IN
           /\ \A x, y \in Presentes(t) : t[x] = t[y] => x = y
           /\ Presentes(t) = (Presentes(memoria) \ Expulsados(memoria, m, cap)) \cup {m}
           /\ \A x, y \in Expulsados(memoria, m, cap) : x = y
<1> DEFINE t == Tocar(memoria, m, cap)
<1>1. memoria \in [Mints -> 0 .. cap] /\ cap \in Nat
  BY DEF Lugares
<1>2. t = [x \in Mints |-> IF x = m THEN 1
                           ELSE IF memoria[x] = 0 \/ memoria[x] + 1 > cap THEN 0 ELSE memoria[x] + 1]
  BY <1>1 DEF Tocar
<1> HIDE DEF t
<1>3. Presentes(memoria) \subseteq Mints \ {m} /\ \A x \in Presentes(memoria) : memoria[x] \in 1 .. cap
  BY <1>1 DEF Presentes
<1>4. Presentes(t) = {x \in Presentes(memoria) : memoria[x] + 1 <= cap} \cup {m}
  <2>1. t[m] = 1
    BY <1>2
  <2>2. \A x \in Mints \ {m} : t[x] # 0 <=> x \in Presentes(memoria) /\ memoria[x] + 1 <= cap
    BY <1>1, <1>2 DEF Presentes
  <2> QED
    BY <1>3, <2>1, <2>2 DEF Presentes
<1>5. Expulsados(memoria, m, cap) = {x \in Presentes(memoria) : memoria[x] = cap}
  <2>1. Expulsados(memoria, m, cap) = Presentes(memoria) \ Presentes(t)
    BY DEF Expulsados, t
  <2> QED
    BY <1>1, <1>3, <1>4, <2>1
<1>6. \A x, y \in Presentes(t) : t[x] = t[y] => x = y
  <2> SUFFICES ASSUME NEW x \in Presentes(t), NEW y \in Presentes(t), t[x] = t[y] PROVE x = y
    OBVIOUS
  <2>1. \A z \in Presentes(t) \ {m} : t[z] = memoria[z] + 1 /\ z \in Presentes(memoria) /\ memoria[z] \in 1 .. cap
    BY <1>1, <1>2, <1>3, <1>4
  <2>2. t[m] = 1
    BY <1>2
  <2> QED
    BY <2>1, <2>2
<1> QED
  BY <1>1, <1>3, <1>4, <1>5, <1>6 DEF t

\* Every step keeps what is followed the end of the queue.
LEMMA ColaPaso ==
    ASSUME TypeOK, ColaInv, [Next]_vars
    PROVE  ColaInv'
<1>1. CASE UNCHANGED <<orden, graduados, pausa, vigilados>>
  BY <1>1 DEF ColaInv, SeguidosSonLosUltimos, Presentes
<1>2. ASSUME NEW m \in Mints, NEW l \in Lecturas, OperacionGradua(m, l),
             OperacionGraduaConSitio(m, l) \/ OperacionGraduaEsperando(m, l)
      PROVE  ColaInv'
  <2>1. /\ pausa = Nadie /\ m \notin graduados /\ graduados' = graduados \cup {m}
        /\ orden' = Tocar(orden, m, SWAP_WATCH_CAP)
    BY <1>2 DEF OperacionGradua, OperacionMedida, Operacion, Aviso
  <2>2. orden \in Lugares(SWAP_WATCH_CAP) /\ SWAP_WATCH_CAP \in Nat \ {0} /\ l.cap \in Nat
    BY TopesAssumption, LecturasAssumption DEF TypeOK, TipoMemorias
  <2>3. orden[m] = 0 /\ m \notin Presentes(orden) /\ Presentes(orden) \subseteq Mints
    BY <2>1 DEF ColaInv, Presentes
  <2>4. \A x, y \in Presentes(orden) : orden[x] = orden[y] => x = y
    BY DEF ColaInv
  <2> DEFINE fuera == Expulsados(orden, m, SWAP_WATCH_CAP)
  <2>5. /\ \A x, y \in Presentes(orden') : orden'[x] = orden'[y] => x = y
        /\ Presentes(orden') = (Presentes(orden) \ fuera) \cup {m}
        /\ \A x, y \in fuera : x = y
    BY <2>1, <2>2, <2>3, <2>4, ColaLema
  <2>6. fuera \subseteq Presentes(orden)
    BY DEF Expulsados
  <2>7. vigilados = Presentes(orden)
    BY <2>1 DEF ColaInv, SeguidosSonLosUltimos
  <2>8. Presentes(orden)' = Presentes(orden')
    BY DEF Presentes
  <2>9. orden'[m] # 0
    BY <2>5 DEF Presentes
  <2>10. Presentes(orden') \subseteq graduados'
    BY <2>1, <2>5 DEF ColaInv
  <2>11. CASE OperacionGraduaConSitio(m, l)
    <3>1. vigilados' = vigilados \cup {m} /\ pausa' = Nadie /\ fuera = {}
      BY <2>1, <2>11 DEF OperacionGraduaConSitio
    <3> HIDE DEF fuera
    <3>2. vigilados' = Presentes(orden') \ {}
      BY <2>5, <2>7, <3>1
    <3> QED
      BY <2>5, <2>8, <2>10, <3>1, <3>2 DEF ColaInv, SeguidosSonLosUltimos
  <2>12. CASE OperacionGraduaEsperando(m, l)
    <3>1. PICK viejo \in fuera : /\ vigilados' = vigilados \ {viejo}
                                 /\ pausa' = [mint |-> m, cap |-> l.cap, viejo |-> viejo]
      BY <2>12 DEF OperacionGraduaEsperando
    <3>2. viejo \in Mints
      BY <2>3, <2>6, <3>1
    <3>3. pausa' # Nadie /\ pausa'.mint = m
      BY <2>2, <3>1, <3>2, MintsAssumption
    <3> HIDE DEF fuera
    <3>4. fuera = {viejo}
      BY <2>5, <3>1
    <3>5. vigilados' = Presentes(orden') \ {m}
      BY <2>3, <2>5, <2>7, <3>1, <3>4
    <3> QED
      BY <2>5, <2>8, <2>9, <2>10, <3>3, <3>5 DEF ColaInv, SeguidosSonLosUltimos
  <2> QED
    BY <1>2, <2>11, <2>12
<1>3. CASE Reanudar
  <2>1. /\ pausa # Nadie /\ pausa' = Nadie /\ vigilados' = vigilados \cup {pausa.mint}
        /\ orden' = orden /\ graduados' = graduados
    BY <1>3 DEF Reanudar, Vigilar
  <2>2. pausa.mint \in Presentes(orden)
    BY <1>3, <2>1 DEF ColaInv, Presentes, TypeOK, TipoResto
  <2> QED
    BY <2>1, <2>2 DEF ColaInv, SeguidosSonLosUltimos, Presentes
<1>4. CASE Reiniciar
  <2>1. orden' = Nada /\ vigilados' = {} /\ pausa' = Nadie
    BY <1>4 DEF Reiniciar
  <2>2. Presentes(orden)' = {}
    BY <2>1 DEF Presentes, Nada
  <2> QED
    BY <2>1, <2>2 DEF ColaInv, SeguidosSonLosUltimos
<1>5. ASSUME NEW m \in Mints, NEW l \in Lecturas,
             OperacionGraduaConSitio(m, l) \/ OperacionGraduaEsperando(m, l)
      PROVE  OperacionGradua(m, l)
  BY <1>5 DEF OperacionGraduaConSitio, OperacionGraduaEsperando
<1>6. ASSUME NEW m \in Mints, NEW l \in Lecturas,
             \/ Crear(m) \/ OperacionFrenada(m, l) \/ OperacionComun(m, l) \/ OperarSwap(m, l.cap)
      PROVE  UNCHANGED <<orden, graduados, pausa, vigilados>>
  BY <1>6 DEF Crear, OperacionFrenada, OperacionComun, OperarSwap, graduacion, swap
<1>7. ASSUME NEW m \in Mints, Crear(m)
      PROVE  UNCHANGED <<orden, graduados, pausa, vigilados>>
  BY <1>7 DEF Crear, graduacion, swap
<1>8. CASE Fotografiar \/ UNCHANGED vars
  BY <1>1, <1>8 DEF Fotografiar, vars, graduacion, swap
<1> QED
  BY <1>1, <1>2, <1>3, <1>4, <1>5, <1>6, <1>7, <1>8 DEF Next

\* What is followed on PumpSwap is the end of the queue of graduations, for any
\* capacity, whatever arrives while the eviction of the oldest is awaited
\* (ingest.py:1446-1461).
THEOREM Spec_SeguidosSonLosUltimos == Spec => []SeguidosSonLosUltimos
<1>1. Init => ColaInv
  BY DEF Init, ColaInv, SeguidosSonLosUltimos, Presentes, Nada
<1>2. TypeOK /\ ColaInv /\ [Next]_vars => ColaInv'
  BY ColaPaso
<1>3. ColaInv => SeguidosSonLosUltimos
  BY DEF ColaInv
<1> QED
  BY <1>1, <1>2, <1>3, Spec_TypeOK, PTL DEF Spec

-----------------------------------------------------------------------------
(* Graduations                                                             *)

\* Only tokens seen born trade, so none is born after it graduated; nothing
\* follows the trade that graduates a token on its curve; and the one that
\* awaits is about to be observed with the cap that graduated it.
GraduaInv ==
    /\ Presentes(seguidos) \cup graduados \subseteq conocidos
    /\ graduados \subseteq completas
    /\ pausa # Nadie => pausa.mint \in graduados /\ pausa.cap >= MIN_GRADUACION
    /\ GraduadoReal

\* An observation spoils no graduation, if that of its own token is real.
LEMMA GraduadoObservar ==
    ASSUME NEW r \in Conteos, NEW m \in Mints, NEW cap \in Nat, m \notin r.vistos => r.maximo[m] = 0,
           NEW G \in SUBSET Mints, \A x \in (G \ {m}) \cap r.vistos : r.maximo[x] >= MIN_GRADUACION
    PROVE  /\ \A x \in (G \ {m}) \cap Observar(r, m, cap).vistos :
                 Observar(r, m, cap).maximo[x] >= MIN_GRADUACION
           /\ cap >= MIN_GRADUACION /\ m \in Observar(r, m, cap).vistos =>
                 Observar(r, m, cap).maximo[m] >= MIN_GRADUACION
<1> DEFINE o == Observar(r, m, cap)
<1>1. /\ m \in o.vistos => o.maximo[m] >= cap
      /\ o.vistos \subseteq r.vistos \cup {m}
      /\ \A x \in Mints \ {m} : o.maximo[x] = r.maximo[x]
  BY ObservarCrece
<1>2. o.maximo[m] \in Nat /\ MIN_GRADUACION \in Nat
  BY ObservarTipo, UmbralesAssumption, SMTT(30) DEF Conteos
<1> HIDE DEF o
<1>3. \A x \in (G \ {m}) \cap o.vistos : o.maximo[x] >= MIN_GRADUACION
  BY <1>1
<1>4. cap >= MIN_GRADUACION /\ m \in o.vistos => o.maximo[m] >= MIN_GRADUACION
  BY <1>1, <1>2
<1> QED
  BY <1>3, <1>4 DEF o

\* Every step keeps the graduations real.
LEMMA GraduaPaso ==
    ASSUME TypeOK, RecuentoInv, GraduaInv, [Next]_vars
    PROVE  GraduaInv'
<1>1. /\ resultados \in Conteos /\ graduados \in SUBSET Mints
      /\ \A m \in Mints : m \notin resultados.vistos => resultados.maximo[m] = 0
      /\ seguidos \in Lugares(TRACKED_MINTS_CAP)
  BY DEF TypeOK, TipoDisco, TipoConjuntos, TipoMemorias, RecuentoInv, Recuento
<1>2. CASE UNCHANGED <<seguidos, graduados, conocidos, pausa, resultados>> /\ completas \subseteq completas'
  BY <1>2 DEF GraduaInv, GraduadoReal, Presentes
<1>3. ASSUME NEW m \in Mints, Crear(m)
      PROVE  GraduaInv'
  <2>1. /\ pausa = Nadie /\ m \notin conocidos /\ conocidos' = conocidos \cup {m}
        /\ seguidos' = Tocar(seguidos, m, TRACKED_MINTS_CAP)
        /\ resultados' = resultados \/ resultados' = Observar(resultados, m, NACIMIENTO)
        /\ pausa' = pausa /\ graduados' = graduados /\ completas' = completas
    BY <1>3 DEF Crear, Aviso, graduacion
  <2>2. Presentes(seguidos)' \subseteq Presentes(seguidos) \cup {m}
    BY <2>1, ExpulsadosLema DEF Presentes
  <2>3. m \notin graduados /\ \A x \in graduados \cap resultados.vistos : resultados.maximo[x] >= MIN_GRADUACION
    BY <2>1 DEF GraduaInv, GraduadoReal
  <2>4. \A x \in graduados \cap resultados'.vistos : resultados'.maximo[x] >= MIN_GRADUACION
    <3>1. CASE resultados' = resultados
      BY <2>3, <3>1
    <3>2. CASE resultados' = Observar(resultados, m, NACIMIENTO)
      <4>1. NACIMIENTO \in Nat
        BY UmbralesAssumption
      <4>2. \A x \in (graduados \ {m}) \cap Observar(resultados, m, NACIMIENTO).vistos :
               Observar(resultados, m, NACIMIENTO).maximo[x] >= MIN_GRADUACION
        BY <1>1, <2>3, <4>1, GraduadoObservar
      <4> QED
        BY <2>3, <3>2, <4>2
    <3> QED
      BY <2>1, <3>1, <3>2
  <2> QED
    BY <2>1, <2>2, <2>4 DEF GraduaInv, GraduadoReal
<1>4. ASSUME NEW m \in Mints, NEW l \in Lecturas, OperacionMedida(m, l)
      PROVE  /\ l.cap \in Nat /\ pausa = Nadie /\ m \in conocidos /\ m \notin completas
             /\ m \notin graduados /\ conocidos' = conocidos
             /\ Presentes(seguidos)' \subseteq conocidos
             /\ completas' = (IF EsGraduacion(l) THEN completas \cup {m} ELSE completas)
             /\ \A x \in (graduados \ {m}) \cap Observar(resultados, m, l.cap).vistos :
                   Observar(resultados, m, l.cap).maximo[x] >= MIN_GRADUACION
             /\ \A x \in graduados \cap resultados.vistos : resultados.maximo[x] >= MIN_GRADUACION
  <2>1. /\ l.cap \in Nat /\ pausa = Nadie /\ seguidos[m] # 0 /\ m \notin completas
        /\ conocidos' = conocidos /\ seguidos' = Tocar(seguidos, m, TRACKED_MINTS_CAP)
        /\ completas' = (IF EsGraduacion(l) THEN completas \cup {m} ELSE completas)
    BY <1>4, LecturasAssumption DEF OperacionMedida, Operacion, Aviso
  <2>2. m \in conocidos /\ m \notin graduados
    BY <2>1 DEF GraduaInv, Presentes
  <2>3. Presentes(seguidos)' \subseteq Presentes(seguidos) \cup {m}
    BY <2>1, ExpulsadosLema DEF Presentes
  <2>4. \A x \in graduados \cap resultados.vistos : resultados.maximo[x] >= MIN_GRADUACION
    BY <2>1 DEF GraduaInv, GraduadoReal
  <2>5. \A x \in (graduados \ {m}) \cap Observar(resultados, m, l.cap).vistos :
          Observar(resultados, m, l.cap).maximo[x] >= MIN_GRADUACION
    BY <1>1, <2>1, <2>4, GraduadoObservar
  <2> QED
    BY <2>1, <2>2, <2>3, <2>4, <2>5 DEF GraduaInv
<1>5. ASSUME NEW m \in Mints, NEW l \in Lecturas, OperacionComun(m, l)
      PROVE  GraduaInv'
  <2>1. /\ OperacionMedida(m, l) /\ graduados' = graduados /\ pausa' = pausa
        /\ resultados' = Observar(resultados, m, l.cap)
    BY <1>5 DEF OperacionComun, Anotar
  <2> QED
    BY <1>4, <2>1 DEF GraduaInv, GraduadoReal
<1>6. ASSUME NEW m \in Mints, NEW l \in Lecturas, OperacionGraduaConSitio(m, l)
      PROVE  GraduaInv'
  <2>1. /\ OperacionMedida(m, l) /\ graduados' = graduados \cup {m} /\ pausa' = pausa
        /\ resultados' = Observar(resultados, m, l.cap) /\ EsGraduacion(l)
    BY <1>6 DEF OperacionGraduaConSitio, OperacionGradua, Anotar
  <2>2. l.cap \in Nat /\ l.cap >= MIN_GRADUACION
    BY <1>4, <2>1 DEF EsGraduacion
  <2>3. m \in resultados'.vistos => resultados'.maximo[m] >= MIN_GRADUACION
    BY <1>1, <2>1, <2>2, GraduadoObservar
  <2> QED
    BY <1>4, <2>1, <2>3 DEF GraduaInv, GraduadoReal
<1>7. ASSUME NEW m \in Mints, NEW l \in Lecturas, OperacionGraduaEsperando(m, l)
      PROVE  GraduaInv'
  <2>1. /\ OperacionMedida(m, l) /\ graduados' = graduados \cup {m} /\ resultados' = resultados
        /\ EsGraduacion(l)
        /\ \E viejo \in Mints : pausa' = [mint |-> m, cap |-> l.cap, viejo |-> viejo]
    BY <1>7 DEF OperacionGraduaEsperando, OperacionGradua, SinAnotar, tasas, Expulsados, Presentes
  <2>2. pausa' # Nadie /\ pausa'.mint = m /\ pausa'.cap = l.cap /\ l.cap >= MIN_GRADUACION
    BY <1>4, <2>1, MintsAssumption DEF EsGraduacion
  <2> QED
    BY <1>4, <2>1, <2>2 DEF GraduaInv, GraduadoReal
<1>8. CASE Reanudar
  <2> DEFINE m == pausa.mint
  <2>1. /\ pausa # Nadie /\ pausa' = Nadie /\ resultados' = Observar(resultados, m, pausa.cap)
        /\ UNCHANGED <<seguidos, conocidos, graduados, completas>>
    BY <1>8 DEF Reanudar, Anotar, lanzamiento
  <2>2. m \in Mints /\ pausa.cap \in Nat
    BY <2>1 DEF TypeOK, TipoResto
  <2>3. /\ m \in graduados /\ pausa.cap >= MIN_GRADUACION
        /\ \A x \in (graduados \ {m}) \cap resultados.vistos : resultados.maximo[x] >= MIN_GRADUACION
    BY <2>1 DEF GraduaInv, GraduadoReal
  <2> HIDE DEF m
  <2>4. /\ \A x \in (graduados \ {m}) \cap resultados'.vistos : resultados'.maximo[x] >= MIN_GRADUACION
        /\ m \in resultados'.vistos => resultados'.maximo[m] >= MIN_GRADUACION
    BY <1>1, <2>1, <2>2, <2>3, GraduadoObservar
  <2>5. \A x \in graduados' \cap resultados'.vistos : resultados'.maximo[x] >= MIN_GRADUACION
    BY <2>1, <2>4
  <2> QED
    BY <2>1, <2>5 DEF GraduaInv, GraduadoReal, Presentes
<1>9. CASE Reiniciar
  <2>1. graduados' = {} /\ pausa' = Nadie /\ seguidos' = Nada
    BY <1>9 DEF Reiniciar
  <2>2. Presentes(seguidos)' = {}
    BY <2>1 DEF Presentes, Nada
  <2> QED
    BY <2>1, <2>2 DEF GraduaInv, GraduadoReal
<1>10. ASSUME NEW m \in Mints, NEW l \in Lecturas, OperacionFrenada(m, l)
       PROVE  GraduaInv'
  BY <1>2, <1>10 DEF OperacionFrenada, Operacion, SinAnotar, tasas
<1>11. ASSUME NEW m \in Mints, NEW l \in Lecturas, OperarSwap(m, l.cap)
       PROVE  GraduaInv'
  BY <1>2, <1>11 DEF OperarSwap, lanzamiento, tasas, graduacion
<1>12. CASE Fotografiar \/ UNCHANGED vars
  BY <1>2, <1>12 DEF Fotografiar, vars, lanzamiento, tasas, graduacion
<1> QED
  BY <1>3, <1>5, <1>6, <1>7, <1>8, <1>9, <1>10, <1>11, <1>12 DEF Next

\* A token counts as graduated only if it was once worth what a graduated token
\* is worth, for any readings of its curve (ingest.py:188-195, 868-881).
THEOREM Spec_GraduadoReal == Spec => []GraduadoReal
<1>1. Init => RecuentoInv /\ GraduaInv
  <2>1. Init => RecuentoInv
    BY RecuentoSembrar, FS_EmptySet DEF Init, RecuentoInv
  <2>2. Init => GraduaInv
    BY DEF Init, GraduaInv, GraduadoReal, Presentes, Nada
  <2> QED
    BY <2>1, <2>2
<1>2. TypeOK /\ RecuentoInv /\ GraduaInv /\ [Next]_vars => RecuentoInv' /\ GraduaInv'
  BY RecuentoPaso, GraduaPaso
<1>3. GraduaInv => GraduadoReal
  BY DEF GraduaInv
<1> QED
  BY <1>1, <1>2, <1>3, Spec_TypeOK, PTL DEF Spec

-----------------------------------------------------------------------------
(* The multiples of the ceiling                                            *)

\* A cap the radar remembers is not above the peak it remembers; the base of a
\* stampede is not above its peak, unless it is the cap at birth, taken for
\* granted.
TechoInv ==
    /\ \A m \in Mints : recientes[m] # 0 => capActual[m] <= pico[m]
    /\ \A m \in Mints : base[m] # 0 => estampida[m] # 0
    /\ \A m \in Mints : base[m] <= pico[m] \/ base[m] = NACIMIENTO

\* A trade raises the peak of its token and forgets only peaks of tokens
\* without current cap and without protection (ingest.py:909-926).
LEMMA PicoLema ==
    ASSUME TypeOK, NEW m \in Mints, NEW cap \in Nat, NEW prot, AnotarCap(m, cap, prot)
    PROVE  \E fuera \in SUBSET {x \in Mints \ {m} : recientes[x] = 0 /\ x \notin prot} :
             \A x \in Mints : pico'[x] = IF x \in fuera THEN 0
                                        ELSE IF x = m THEN Mayor(pico[m], cap) ELSE pico[x]
<1>1. pico \in [Mints -> Nat]
  BY DEF TypeOK, TipoCaps
<1>2. CASE cap = 0
  <2>1. \A x \in Mints : pico'[x] = IF x \in {} THEN 0
                                    ELSE IF x = m THEN Mayor(pico[m], cap) ELSE pico[x]
    BY <1>1, <1>2 DEF AnotarCap, Mayor
  <2> WITNESS {} \in SUBSET {x \in Mints \ {m} : recientes[x] = 0 /\ x \notin prot}
  <2> QED
    BY <2>1
<1>3. CASE cap # 0
  <2> DEFINE conPico == [pico EXCEPT ![m] = Mayor(@, cap)]
             sobran == IF Cardinality(Presentes(conPico)) > 2 * TRACKED_MINTS_CAP
                       THEN Olvidables(conPico, m, prot) ELSE {}
  <2>1. PICK fuera \in SUBSET sobran : pico' = [x \in Mints |-> IF x \in fuera THEN 0 ELSE conPico[x]]
    BY <1>3, Zenon DEF AnotarCap
  <2>2. sobran \subseteq {x \in Mints \ {m} : recientes[x] = 0 /\ x \notin prot}
    BY DEF Olvidables, Presentes
  <2>3. \A x \in Mints : conPico[x] = IF x = m THEN Mayor(pico[m], cap) ELSE pico[x]
    BY <1>1
  <2> HIDE DEF conPico, sobran
  <2> QED
    BY <2>1, <2>2, <2>3
<1> QED
  BY <1>2, <1>3

\* Recording a cap keeps every peak above the caps, and above the bases of
\* stampedes that are protected (ingest.py:882-926).
LEMMA TechoAnotar ==
    ASSUME TypeOK, TechoInv, NEW m \in Mints, NEW cap \in Nat, NEW prot, Anotar(m, cap, prot),
           base' \in [Mints -> Nat],
           \A x \in Mints : base'[x] # 0 => x \in prot,
           \A x \in Mints : base'[x] <= pico[x] \/ base'[x] = NACIMIENTO
    PROVE  /\ \A x \in Mints : recientes'[x] # 0 => capActual'[x] <= pico'[x]
           /\ \A x \in Mints : base'[x] <= pico'[x] \/ base'[x] = NACIMIENTO
<1>1. PICK fuera \in SUBSET {x \in Mints \ {m} : recientes[x] = 0 /\ x \notin prot} :
        \A x \in Mints : pico'[x] = IF x \in fuera THEN 0
                                   ELSE IF x = m THEN Mayor(pico[m], cap) ELSE pico[x]
  <2>1. AnotarCap(m, cap, prot)
    BY DEF Anotar
  <2> QED
    BY <2>1, PicoLema
<1>2. /\ pico \in [Mints -> Nat] /\ capActual \in [Mints -> Nat] /\ NACIMIENTO \in Nat
      /\ recientes \in [Mints -> 0 .. TRACKED_MINTS_CAP]
  BY UmbralesAssumption DEF TypeOK, TipoCaps, TipoMemorias, Lugares
<1>3. /\ recientes' = Tocar(recientes, m, TRACKED_MINTS_CAP)
      /\ capActual' = [x \in Mints |->
             IF x = m THEN cap
             ELSE IF x \in Expulsados(recientes, m, TRACKED_MINTS_CAP) THEN 0 ELSE capActual[x]]
  BY DEF Anotar
<1>4. \A x \in Mints \ {m} : recientes[x] = 0 => recientes'[x] = 0
  BY <1>3 DEF Tocar
<1>5. Mayor(pico[m], cap) \in Nat /\ Mayor(pico[m], cap) >= pico[m] /\ Mayor(pico[m], cap) >= cap
  BY <1>2, MenorLema
<1>6. \A x \in Mints : recientes'[x] # 0 => capActual'[x] <= pico'[x]
  <2> SUFFICES ASSUME NEW x \in Mints, recientes'[x] # 0 PROVE capActual'[x] <= pico'[x]
    OBVIOUS
  <2>1. CASE x = m
    BY <1>1, <1>3, <1>5, <2>1
  <2>2. CASE x # m
    <3>1. recientes[x] # 0 /\ x \notin fuera
      BY <1>1, <1>4, <2>2
    <3>2. pico'[x] = pico[x] /\ capActual[x] <= pico[x]
      BY <1>1, <2>2, <3>1 DEF TechoInv
    <3>3. capActual'[x] = 0 \/ capActual'[x] = capActual[x]
      BY <1>3, <2>2
    <3> QED
      BY <1>2, <3>2, <3>3
  <2> QED
    BY <2>1, <2>2
<1>8. \A x \in Mints : base'[x] <= pico'[x] \/ base'[x] = NACIMIENTO
  <2> SUFFICES ASSUME NEW x \in Mints PROVE base'[x] <= pico'[x] \/ base'[x] = NACIMIENTO
    OBVIOUS
  <2>1. CASE x \in fuera
    BY <1>1, <1>2, <2>1
  <2>2. CASE x \notin fuera
    <3>1. pico'[x] \in Nat /\ pico'[x] >= pico[x]
      BY <1>1, <1>2, <1>5, <2>2
    <3> QED
      BY <1>2, <3>1
  <2> QED
    BY <2>1, <2>2
<1> QED
  BY <1>6, <1>8

\* A stampede that is revealed starts from a cap below the peak, or from the
\* one at birth (ingest.py:1045-1046).
LEMMA TechoContar ==
    ASSUME TypeOK, TechoInv, NEW m \in Mints, NEW cap \in Nat, Contar(m, cap)
    PROVE  /\ base' \in [Mints -> Nat]
           /\ \A x \in Mints : base'[x] # 0 => estampida'[x] # 0
           /\ \A x \in Mints : base'[x] <= pico[x] \/ base'[x] = NACIMIENTO
<1>1. /\ pico \in [Mints -> Nat] /\ base \in [Mints -> Nat] /\ estampida \in [Mints -> Nat]
      /\ rafaga \in [Mints -> Nat] /\ NACIMIENTO \in Nat /\ ESTAMPIDA # 0
  BY UmbralesAssumption, TopesAssumption DEF TypeOK, TipoCaps
<1>2. /\ \A x \in Mints : base[x] # 0 => estampida[x] # 0
      /\ \A x \in Mints : base[x] <= pico[x] \/ base[x] = NACIMIENTO
  BY DEF TechoInv
<1>3. base' \in [Mints -> Nat]
  BY ContarTipo
<1>4. CASE UNCHANGED <<estampida, base>>
  BY <1>2, <1>3, <1>4
<1>5. CASE /\ estampida' = [estampida EXCEPT ![m] = ESTAMPIDA]
           /\ base' = [base EXCEPT ![m] = CapDePartida(m, cap)]
  <2>1. CapDePartida(m, cap) <= pico[m] \/ CapDePartida(m, cap) = NACIMIENTO
    BY <1>1 DEF CapDePartida, TechoInv
  <2> QED
    BY <1>1, <1>2, <1>3, <1>5, <2>1
<1>6. CASE /\ base' = base
           /\ estampida' = [estampida EXCEPT ![m] = IF @ = 0 THEN 0 ELSE rafaga[m] + 1]
  BY <1>1, <1>2, <1>3, <1>6
<1> QED
  BY <1>4, <1>5, <1>6 DEF Contar

\* Every step keeps the peaks above the bases.
LEMMA TechoPaso ==
    ASSUME TypeOK, TechoInv, [Next]_vars
    PROVE  TechoInv'
<1>1. CASE UNCHANGED <<recientes, capActual, pico, estampida, base, pausa>>
  BY <1>1 DEF TechoInv
<1>2. ASSUME NEW m \in Mints, NEW l \in Lecturas, Operacion(m, l)
      PROVE  /\ l.cap \in Nat /\ pausa = Nadie
             /\ base' \in [Mints -> Nat]
             /\ \A x \in Mints : base'[x] # 0 => estampida'[x] # 0
             /\ \A x \in Mints : base'[x] <= pico[x] \/ base'[x] = NACIMIENTO
  <2>1. l.cap \in Nat
    BY LecturasAssumption
  <2>2. Contar(m, l.cap) /\ pausa = Nadie
    BY <1>2 DEF Operacion, Aviso
  <2> QED
    BY <2>1, <2>2, TechoContar
<1>3. ASSUME NEW m \in Mints, NEW l \in Lecturas,
             OperacionComun(m, l) \/ OperacionGraduaConSitio(m, l)
      PROVE  TechoInv'
  <2>1. Operacion(m, l) /\ Anotar(m, l.cap, Protegidos') /\ pausa' = pausa
    BY <1>3 DEF OperacionComun, OperacionGraduaConSitio, OperacionGradua, OperacionMedida
  <2>2. /\ l.cap \in Nat /\ pausa = Nadie
        /\ base' \in [Mints -> Nat]
        /\ \A x \in Mints : base'[x] # 0 => estampida'[x] # 0
        /\ \A x \in Mints : base'[x] <= pico[x] \/ base'[x] = NACIMIENTO
    BY <1>2, <2>1
  <2>3. \A x \in Mints : base'[x] # 0 => x \in Protegidos'
    BY <2>2 DEF Protegidos, Presentes
  <2>4. /\ \A x \in Mints : recientes'[x] # 0 => capActual'[x] <= pico'[x]
        /\ \A x \in Mints : base'[x] <= pico'[x] \/ base'[x] = NACIMIENTO
    BY <2>1, <2>2, <2>3, TechoAnotar
  <2> QED
    BY <2>1, <2>2, <2>4 DEF TechoInv
<1>4. ASSUME NEW m \in Mints, NEW l \in Lecturas, OperacionFrenada(m, l)
      PROVE  TechoInv'
  <2>1. Operacion(m, l) /\ UNCHANGED <<recientes, capActual, pico, pausa>>
    BY <1>4 DEF OperacionFrenada, SinAnotar, caps
  <2> QED
    BY <1>2, <2>1 DEF TechoInv
<1>5. ASSUME NEW m \in Mints, NEW l \in Lecturas, OperacionGraduaEsperando(m, l)
      PROVE  TechoInv'
  <2>1. /\ Operacion(m, l) /\ UNCHANGED <<recientes, capActual, pico>>
        /\ \E viejo : pausa' = [mint |-> m, cap |-> l.cap, viejo |-> viejo]
    BY <1>5 DEF OperacionGraduaEsperando, OperacionGradua, OperacionMedida, SinAnotar, caps
  <2> QED
    BY <1>2, <2>1 DEF TechoInv
<1>6. CASE Reanudar
  <2>1. /\ pausa # Nadie /\ pausa' = Nadie /\ Anotar(pausa.mint, pausa.cap, Protegidos)
        /\ base' = base /\ estampida' = estampida
    BY <1>6 DEF Reanudar, lanzamiento
  <2>2. /\ pausa.mint \in Mints /\ pausa.cap \in Nat /\ base' \in [Mints -> Nat]
    BY <2>1 DEF TypeOK, TipoResto, TipoCaps
  <2>3. /\ \A x \in Mints : base'[x] # 0 => x \in Protegidos
        /\ \A x \in Mints : base'[x] <= pico[x] \/ base'[x] = NACIMIENTO
    BY <2>1 DEF TechoInv, Protegidos, Presentes
  <2>4. /\ \A x \in Mints : recientes'[x] # 0 => capActual'[x] <= pico'[x]
        /\ \A x \in Mints : base'[x] <= pico'[x] \/ base'[x] = NACIMIENTO
    BY <2>1, <2>2, <2>3, TechoAnotar
  <2> QED
    BY <2>1, <2>4 DEF TechoInv
<1>7. CASE Reiniciar
  <2>1. /\ recientes' = Nada /\ pico' = Nada /\ base' = Nada /\ pausa' = Nadie
        /\ \A x \in Mints : Nada[x] = 0
    BY <1>7 DEF Reiniciar, Nada
  <2>2. NACIMIENTO \in Nat
    BY UmbralesAssumption
  <2> QED
    BY <2>1, <2>2 DEF TechoInv
<1>8. ASSUME NEW m \in Mints, Crear(m)
      PROVE  TechoInv'
  BY <1>1, <1>8 DEF Crear, caps, graduacion
<1>9. ASSUME NEW m \in Mints, NEW l \in Lecturas, OperarSwap(m, l.cap)
      PROVE  TechoInv'
  BY <1>1, <1>9 DEF OperarSwap, lanzamiento, caps, graduacion
<1>10. CASE Fotografiar \/ UNCHANGED vars
  BY <1>1, <1>10 DEF Fotografiar, vars, lanzamiento, caps, graduacion
<1> QED
  BY <1>3, <1>4, <1>5, <1>6, <1>7, <1>8, <1>9, <1>10 DEF Next

\* No stampede whose base was read adds to the ceiling a multiple below 1, for
\* any readings, evictions and prunings (ingest.py:957, 1046).
THEOREM Spec_TechoSobreBase == Spec => []TechoSobreBase
<1>1. Init => TechoInv
  <2>1. NACIMIENTO \in Nat /\ \A x \in Mints : Nada[x] = 0
    BY UmbralesAssumption DEF Nada
  <2> QED
    BY <2>1 DEF Init, TechoInv
<1>2. TypeOK /\ TechoInv /\ [Next]_vars => TechoInv'
  BY TechoPaso
<1>3. TypeOK /\ TechoInv => TechoSobreBase
  <2> SUFFICES ASSUME TypeOK, TechoInv, NEW m \in Mints, pico[m] # 0
               PROVE  pico[m] >= base[m] \/ base[m] = NACIMIENTO
    BY DEF TechoSobreBase
  <2>1. pico[m] \in Nat /\ base[m] \in Nat /\ NACIMIENTO \in Nat
    BY UmbralesAssumption DEF TypeOK, TipoCaps
  <2> QED
    BY <2>1 DEF TechoInv
<1> QED
  BY <1>1, <1>2, <1>3, Spec_TypeOK, PTL DEF Spec

-----------------------------------------------------------------------------
(* The two memories of a peak                                              *)

SinEmpates(s) == \A x, y \in Mints : s[x] # 0 /\ s[x] = s[y] => x = y
SinHuecos(r) == \A x \in Mints : \A k \in 1 .. r[x] : \E y \in Mints : r[y] = k

\* x is not newer in s than any that is newer than it in r.
TrasLosSuyos(s, r, x) ==
    s[x] # 0 /\ r[x] # 0 => \A y \in Mints : r[y] # 0 /\ r[y] < r[x] => s[y] # 0 /\ s[y] < s[x]
Ordenadas(s, r, salvo) == \A x \in Mints \ salvo : TrasLosSuyos(s, r, x)

EnPausa == IF pausa = Nadie THEN {} ELSE {pausa.mint}

\* A touch, place by place.
LEMMA TocarLugar ==
    ASSUME NEW cap \in Nat \ {0}, NEW memoria \in Lugares(cap), NEW m \in Mints
    PROVE  /\ Tocar(memoria, m, cap)[m] = 1
           /\ \A x \in Mints \ {m} : Tocar(memoria, m, cap)[x] =
                IF memoria[x] = 0 THEN 0
                ELSE IF ~(memoria[m] = 0 \/ memoria[x] < memoria[m]) THEN memoria[x]
                ELSE IF memoria[x] = cap THEN 0 ELSE memoria[x] + 1
<1>1. memoria \in [Mints -> 0 .. cap] /\ cap \in Nat
  BY DEF Lugares
<1>2. Tocar(memoria, m, cap)[m] = 1
  BY DEF Tocar
<1>3. ASSUME NEW x \in Mints \ {m}
      PROVE  Tocar(memoria, m, cap)[x] =
                IF memoria[x] = 0 THEN 0
                ELSE IF ~(memoria[m] = 0 \/ memoria[x] < memoria[m]) THEN memoria[x]
                ELSE IF memoria[x] = cap THEN 0 ELSE memoria[x] + 1
  <2>1. memoria[x] \in 0 .. cap /\ memoria[m] \in 0 .. cap
    BY <1>1
  <2>2. CASE memoria[m] = 0 \/ memoria[x] < memoria[m]
    <3>1. Tocar(memoria, m, cap)[x] =
            IF memoria[x] = 0 \/ memoria[x] + 1 > cap THEN 0 ELSE memoria[x] + 1
      BY <2>2 DEF Tocar
    <3> QED
      BY <1>1, <2>1, <2>2, <3>1
  <2>3. CASE ~(memoria[m] = 0 \/ memoria[x] < memoria[m])
    <3>1. Tocar(memoria, m, cap)[x] = IF memoria[x] = 0 \/ memoria[x] > cap THEN 0 ELSE memoria[x]
      BY <2>3 DEF Tocar
    <3> QED
      BY <1>1, <2>1, <2>3, <3>1
  <2> QED
    BY <2>2, <2>3
<1> QED
  BY <1>2, <1>3

\* A touch keeps the places distinct and the order of the others, all of them
\* behind whom it touches.
LEMMA TocarOrden ==
    ASSUME NEW cap \in Nat \ {0}, NEW s \in Lugares(cap), NEW m \in Mints, SinEmpates(s),
           NEW t, t = Tocar(s, m, cap)
    PROVE  /\ SinEmpates(t)
           /\ \A x \in Mints \ {m} : t[x] # 0 => s[x] # 0 /\ 1 < t[x]
           /\ \A x, y \in Mints \ {m} : t[x] # 0 /\ s[y] # 0 /\ s[y] < s[x] => t[y] # 0 /\ t[y] < t[x]
<1>1. /\ \A x \in Mints : s[x] \in 0 .. cap
      /\ t[m] = 1
      /\ \A x \in Mints \ {m} : t[x] =
                IF s[x] = 0 THEN 0
                ELSE IF ~(s[m] = 0 \/ s[x] < s[m]) THEN s[x]
                ELSE IF s[x] = cap THEN 0 ELSE s[x] + 1
  BY TocarLugar DEF Lugares
<1>2. \A x, y \in Mints : s[x] # 0 /\ s[x] = s[y] => x = y
  BY DEF SinEmpates
<1>3. \A x \in Mints \ {m} : t[x] # 0 => s[x] # 0 /\ 1 < t[x]
  BY <1>1, <1>2
<1>4. \A x, y \in Mints \ {m} : t[x] # 0 /\ s[y] # 0 /\ s[y] < s[x] => t[y] # 0 /\ t[y] < t[x]
  <2> SUFFICES ASSUME NEW x \in Mints \ {m}, NEW y \in Mints \ {m},
                      t[x] # 0, s[y] # 0, s[y] < s[x]
               PROVE  t[y] # 0 /\ t[y] < t[x]
    OBVIOUS
  <2>1. s[x] # s[m] \/ s[m] = 0
    BY <1>2
  <2>2. /\ s[x] \in 0 .. cap /\ s[y] \in 0 .. cap /\ s[m] \in 0 .. cap
        /\ t[x] = IF s[x] = 0 THEN 0
                  ELSE IF ~(s[m] = 0 \/ s[x] < s[m]) THEN s[x]
                  ELSE IF s[x] = cap THEN 0 ELSE s[x] + 1
        /\ t[y] = IF s[y] = 0 THEN 0
                  ELSE IF ~(s[m] = 0 \/ s[y] < s[m]) THEN s[y]
                  ELSE IF s[y] = cap THEN 0 ELSE s[y] + 1
    BY <1>1
  <2> QED
    BY <2>1, <2>2
<1>5. SinEmpates(t)
  <2> SUFFICES ASSUME NEW x \in Mints, NEW y \in Mints, t[x] # 0, t[x] = t[y], x # y PROVE FALSE
    BY DEF SinEmpates
  <2>1. x # m /\ y # m
    BY <1>1, <1>3
  <2>2. s[x] # 0 /\ s[y] # 0 /\ s[x] # s[y]
    BY <1>2, <1>3, <2>1
  <2>3. s[x] < s[y] \/ s[y] < s[x]
    BY <1>1, <2>2
  <2>4. t[x] < t[y] \/ t[y] < t[x]
    BY <1>4, <2>1, <2>2, <2>3
  <2>5. t[x] \in Nat /\ t[y] \in Nat
    BY <1>1, <2>1
  <2> QED
    BY <2>4, <2>5
<1> QED
  BY <1>3, <1>4, <1>5

\* A touch leaves no place empty, and disorders none of the others.
LEMMA TocarHuecos ==
    ASSUME NEW cap \in Nat \ {0}, NEW r \in Lugares(cap), NEW m \in Mints, SinHuecos(r),
           NEW t, t = Tocar(r, m, cap)
    PROVE  /\ SinHuecos(t)
           /\ \A x, y \in Mints \ {m} : t[x] # 0 /\ t[y] # 0 /\ t[y] < t[x] =>
                r[x] # 0 /\ r[y] # 0 /\ r[y] < r[x]
<1>1. /\ \A x \in Mints : r[x] \in 0 .. cap
      /\ t[m] = 1
      /\ \A x \in Mints \ {m} : t[x] =
                IF r[x] = 0 THEN 0
                ELSE IF ~(r[m] = 0 \/ r[x] < r[m]) THEN r[x]
                ELSE IF r[x] = cap THEN 0 ELSE r[x] + 1
  BY TocarLugar DEF Lugares
<1>2. \A x, y \in Mints \ {m} : t[x] # 0 /\ t[y] # 0 /\ t[y] < t[x] =>
         r[x] # 0 /\ r[y] # 0 /\ r[y] < r[x]
  BY <1>1
<1>3. ASSUME NEW x \in Mints, NEW k \in 1 .. t[x] PROVE \E y \in Mints : t[y] = k
  <2>1. CASE k = 1
    BY <1>1, <2>1
  <2>2. CASE k # 1
    <3>1. /\ x # m
          /\ r[x] \in 0 .. cap /\ r[m] \in 0 .. cap
          /\ t[x] = IF r[x] = 0 THEN 0
                    ELSE IF ~(r[m] = 0 \/ r[x] < r[m]) THEN r[x]
                    ELSE IF r[x] = cap THEN 0 ELSE r[x] + 1
      BY <1>1, <2>2
    <3>2. CASE r[m] = 0 \/ k <= r[m]
      <4>1. k - 1 \in 1 .. r[x] /\ k <= cap /\ k - 1 # cap
        BY <2>2, <3>1, <3>2
      <4>2. PICK y \in Mints : r[y] = k - 1
        BY <4>1 DEF SinHuecos
      <4>3. y # m
        BY <3>1, <3>2, <4>1, <4>2
      <4>4. t[y] = k
        BY <1>1, <3>1, <3>2, <4>1, <4>2, <4>3
      <4> QED
        BY <4>4
    <3>3. CASE r[m] # 0 /\ r[m] < k
      <4>1. k \in 1 .. r[x]
        BY <3>1, <3>3
      <4>2. PICK y \in Mints : r[y] = k
        BY <4>1 DEF SinHuecos
      <4>3. y # m /\ ~(r[m] = 0 \/ r[y] < r[m]) /\ r[y] # 0
        BY <3>1, <3>3, <4>1, <4>2
      <4>4. t[y] = k
        BY <1>1, <4>2, <4>3
      <4> QED
        BY <4>4
    <3> QED
      BY <3>1, <3>2, <3>3
  <2> QED
    BY <2>1, <2>2
<1> QED
  BY <1>2, <1>3 DEF SinHuecos

\* Whoever stays in s when s touches m stays in r when r does: the newer than
\* it in r would not fit, with m, in the places before it in s.
LEMMA NoSeExpulsa ==
    ASSUME NEW cap \in Nat \ {0}, NEW s \in Lugares(cap), NEW r \in Lugares(cap),
           SinEmpates(s), SinHuecos(r),
           NEW m \in Mints, NEW x \in Mints, x # m, s[m] = 1, s[x] # 0, r[x] # 0,
           TrasLosSuyos(s, r, x)
    PROVE  Tocar(r, m, cap)[x] # 0
<1> SUFFICES ASSUME Tocar(r, m, cap)[x] = 0 PROVE FALSE
  OBVIOUS
<1>1. /\ cap \in Nat /\ cap # 0
      /\ \A y \in Mints : r[y] \in 0 .. cap /\ s[y] \in 0 .. cap
      /\ \A y, z \in Mints : s[y] # 0 /\ s[y] = s[z] => y = z
  BY DEF Lugares, SinEmpates
<1>2. r[m] \in Nat /\ r[x] \in Nat /\ r[x] = cap /\ r[m] = 0
  <2>1. Tocar(r, m, cap)[x] = IF r[x] = 0 THEN 0
                              ELSE IF ~(r[m] = 0 \/ r[x] < r[m]) THEN r[x]
                              ELSE IF r[x] = cap THEN 0 ELSE r[x] + 1
    BY TocarLugar
  <2>2. r[m] \in 0 .. cap /\ r[x] \in 0 .. cap
    BY <1>1
  <2> QED
    BY <1>1, <2>1, <2>2
<1> DEFINE quien(k) == CHOOSE y \in Mints : r[y] = k
           f == [k \in 1 .. cap |-> IF k = cap THEN 1 ELSE s[quien(k)]]
<1>3. \A k \in 1 .. cap : quien(k) \in Mints /\ r[quien(k)] = k
  BY <1>2 DEF SinHuecos
<1>4. s[x] \in 2 .. cap
  BY <1>1
<1>5. \A k \in 1 .. cap : k # cap => s[quien(k)] \in 1 .. cap - 1
  <2> SUFFICES ASSUME NEW k \in 1 .. cap, k # cap PROVE s[quien(k)] \in 1 .. cap - 1
    OBVIOUS
  <2>1. quien(k) \in Mints /\ r[quien(k)] # 0 /\ r[quien(k)] < r[x]
    BY <1>1, <1>2, <1>3
  <2> HIDE DEF quien
  <2>2. s[quien(k)] # 0 /\ s[quien(k)] < s[x]
    BY <2>1 DEF TrasLosSuyos
  <2> QED
    BY <1>1, <1>4, <2>1, <2>2
<1> HIDE DEF quien
<1>6. f \in [1 .. cap -> 1 .. cap - 1]
  BY <1>4, <1>5
<1>7. \E k, j \in 1 .. cap : k # j /\ f[k] = f[j]
  <2>1. /\ IsFiniteSet(1 .. cap) /\ Cardinality(1 .. cap) = cap
        /\ IsFiniteSet(1 .. cap - 1) /\ Cardinality(1 .. cap - 1) = cap - 1
    <3>1. 1 \in Int /\ cap \in Int /\ cap - 1 \in Int /\ ~(1 > cap)
          /\ (1 > cap - 1 => cap - 1 = 0) /\ (cap - 1) - 1 + 1 = cap - 1 /\ cap - 1 + 1 = cap
      BY <1>1
    <3> QED
      BY <3>1, FS_Interval
  <2>2. Cardinality(1 .. cap - 1) < Cardinality(1 .. cap)
    BY <1>1, <2>1
  <2> DEFINE S == 1 .. cap
             T == 1 .. cap - 1
  <2> HIDE DEF f, S, T
  <2>3. /\ IsFiniteSet(S) /\ IsFiniteSet(T) /\ Cardinality(T) < Cardinality(S)
        /\ f \in [S -> T]
    BY <1>6, <2>1, <2>2 DEF S, T
  <2>4. \E k, j \in S : k # j /\ f[k] = f[j]
    BY <2>3, FS_PigeonHole
  <2> QED
    BY <2>4 DEF S
<1>8. ASSUME NEW k \in 1 .. cap, NEW j \in 1 .. cap, k # cap, f[k] = f[j] PROVE k = j
  <2>1. f[k] = s[quien(k)] /\ s[quien(k)] # 0 /\ quien(k) \in Mints /\ r[quien(k)] = k /\ k # 0
    BY <1>3, <1>5, <1>8
  <2>2. CASE j = cap
    <3>1. s[quien(k)] = s[m]
      BY <1>8, <2>1, <2>2
    <3>2. quien(k) = m
      BY <1>1, <2>1, <3>1
    <3> QED
      BY <1>2, <2>1, <3>2
  <2>3. CASE j # cap
    <3>1. f[j] = s[quien(j)] /\ quien(j) \in Mints /\ r[quien(j)] = j
      BY <1>3, <2>3
    <3>2. quien(k) = quien(j)
      BY <1>1, <1>8, <2>1, <3>1
    <3> QED
      BY <2>1, <3>1, <3>2
  <2> QED
    BY <2>2, <2>3
<1>9. PICK k \in 1 .. cap, j \in 1 .. cap : k # j /\ f[k] = f[j]
  BY <1>7
<1> QED
  BY <1>8, <1>9

\* What the radar forgets of a token, it forgets after it stopped tracking it:
\* the order of the last caps is that of the tracked, so that no token tracked
\* loses its cap, and no peak of one is pruned.  A token without a peak has
\* shown the tracker of outcomes nothing but its birth, and one that the
\* tracker does not know met it full.
OlvidoInv ==
    /\ SinEmpates(seguidos)
    /\ SinHuecos(recientes)
    /\ Ordenadas(seguidos, recientes, EnPausa)
    /\ pausa # Nadie => seguidos[pausa.mint] = 1
    /\ \A x \in Mints : seguidos[x] # 0 \/ recientes[x] # 0 \/ pico[x] # 0 => x \in conocidos
    /\ resultados.vistos \subseteq conocidos
    /\ \A x \in Mints : seguidos[x] # 0 /\ pico[x] # 0 => recientes[x] # 0
    /\ \A x \in resultados.vistos :
         seguidos[x] # 0 /\ pico[x] = 0 => resultados.maximo[x] \in {0, NACIMIENTO}
    /\ \A x \in Mints \ resultados.vistos :
         pico[x] # 0 => Cardinality(resultados.vistos) >= OUTCOME_MEMORY_CAP

\* What an observation does to the peaks of the tracker.
LEMMA ObservarMaximo ==
    ASSUME NEW r \in Conteos, NEW m \in Mints, NEW cap \in Nat
    PROVE  IF NoCuenta(r, m, cap) THEN Observar(r, m, cap) = r
           ELSE /\ Observar(r, m, cap).vistos = r.vistos \cup {m}
                /\ Observar(r, m, cap).maximo[m] = cap
                /\ \A x \in Mints \ {m} : Observar(r, m, cap).maximo[x] = r.maximo[x]
  BY DEF Observar, Conteos

\* Recording a cap moves both peaks of its token alike (ingest.py:882-926).
LEMMA AnotarPicos ==
    ASSUME TypeOK, RecuentoInv, OlvidoInv, PicosConcuerdan,
           NEW m \in Mints, NEW cap \in Nat, NEW prot,
           Anotar(m, cap, prot), seguidos[m] # 0,
           \A x \in Mints : seguidos'[x] # 0 => seguidos[x] # 0,
           \A x \in Mints \ {m} : estampida'[x] = estampida[x],
           \A x \in Mints : estampida'[x] # 0 => x \in prot
    PROVE  /\ \A x \in Mints : pico'[x] # 0 => x = m \/ pico[x] # 0
           /\ resultados'.vistos \subseteq resultados.vistos \cup {m}
           /\ \A x \in resultados'.vistos :
                seguidos'[x] # 0 /\ pico'[x] = 0 => resultados'.maximo[x] \in {0, NACIMIENTO}
           /\ \A x \in Mints \ resultados'.vistos :
                pico'[x] # 0 => Cardinality(resultados'.vistos) >= OUTCOME_MEMORY_CAP
           /\ PicosConcuerdan'
<1> DEFINE o == resultados'
<1>1. PICK fuera \in SUBSET {x \in Mints \ {m} : recientes[x] = 0 /\ x \notin prot} :
        \A x \in Mints : pico'[x] = IF x \in fuera THEN 0
                                   ELSE IF x = m THEN Mayor(pico[m], cap) ELSE pico[x]
  <2>1. AnotarCap(m, cap, prot)
    BY DEF Anotar
  <2> QED
    BY <2>1, PicoLema
<1>2. /\ pico \in [Mints -> Nat] /\ NACIMIENTO \in Nat \ {0}
      /\ resultados \in Conteos /\ resultados.maximo \in [Mints -> Nat]
      /\ resultados.vistos \in SUBSET Mints
      /\ \A x \in Mints : x \notin resultados.vistos => resultados.maximo[x] = 0
      /\ OUTCOME_MEMORY_CAP \in Nat
  BY UmbralesAssumption, TopesAssumption
     DEF TypeOK, TipoCaps, TipoDisco, Conteos, RecuentoInv, Recuento
<1>3. IF NoCuenta(resultados, m, cap) THEN o = resultados
      ELSE /\ o.vistos = resultados.vistos \cup {m}
           /\ o.maximo[m] = cap
           /\ \A x \in Mints \ {m} : o.maximo[x] = resultados.maximo[x]
  BY <1>2, ObservarMaximo DEF Anotar
<1>4. /\ resultados.vistos \subseteq o.vistos /\ o.vistos \subseteq resultados.vistos \cup {m}
      /\ \A x \in Mints \ {m} : o.maximo[x] = resultados.maximo[x]
  BY <1>3
<1>5. /\ m \in resultados.vistos =>
           m \in o.vistos /\ o.maximo[m] = IF cap <= resultados.maximo[m] THEN resultados.maximo[m] ELSE cap
      /\ m \notin resultados.vistos =>
           \/ /\ Cardinality(resultados.vistos) >= OUTCOME_MEMORY_CAP
              /\ o = resultados
           \/ /\ ~ (Cardinality(resultados.vistos) >= OUTCOME_MEMORY_CAP)
              /\ m \in o.vistos /\ o.maximo[m] = cap
  BY <1>3 DEF NoCuenta
<1>6. /\ Cardinality(o.vistos) \in Nat /\ Cardinality(resultados.vistos) \in Nat
      /\ Cardinality(o.vistos) >= Cardinality(resultados.vistos)
  <2>1. IsFiniteSet(o.vistos)
    BY <1>2, <1>4, MintsAssumption, FS_Subset, FS_AddElement
  <2> QED
    BY <1>4, <2>1, FS_Subset, FS_CardinalityType
<1> HIDE DEF o
<1>7. /\ pico'[m] = IF pico[m] < cap THEN cap ELSE pico[m]
      /\ pico[m] \in Nat /\ resultados.maximo[m] \in Nat
  BY <1>1, <1>2 DEF Mayor
<1>8. /\ pico[m] = 0 /\ m \in resultados.vistos => resultados.maximo[m] \in {0, NACIMIENTO}
      /\ m \notin resultados.vistos /\ pico[m] # 0 => Cardinality(resultados.vistos) >= OUTCOME_MEMORY_CAP
      /\ pico[m] # 0 /\ m \in resultados.vistos =>
           \/ pico[m] = resultados.maximo[m]
           \/ pico[m] < NACIMIENTO /\ resultados.maximo[m] = NACIMIENTO
  BY DEF OlvidoInv, PicosConcuerdan
<1>9. \A x \in Mints : pico'[x] # 0 => x = m \/ pico[x] # 0
  BY <1>1
<1>10. ASSUME NEW x \in o.vistos, seguidos'[x] # 0, pico'[x] = 0
       PROVE  o.maximo[x] \in {0, NACIMIENTO}
  <2>1. CASE x = m
    <3>1. pico[m] = 0 /\ cap = 0
      BY <1>2, <1>7, <1>10, <2>1
    <3> QED
      BY <1>2, <1>4, <1>5, <1>7, <1>8, <1>10, <2>1, <3>1
  <2>2. CASE x # m
    <3>1. x \in resultados.vistos /\ seguidos[x] # 0 /\ o.maximo[x] = resultados.maximo[x] /\ x \in Mints
      BY <1>2, <1>4, <1>10, <2>2
    <3>2. pico[x] = 0
      <4>1. pico[x] # 0 => recientes[x] # 0
        BY <3>1 DEF OlvidoInv
      <4> QED
        BY <1>1, <1>10, <2>2, <3>1, <4>1
    <3> QED
      BY <3>1, <3>2 DEF OlvidoInv
  <2> QED
    BY <2>1, <2>2
<1>11. ASSUME NEW x \in Mints \ o.vistos, pico'[x] # 0
       PROVE  Cardinality(o.vistos) >= OUTCOME_MEMORY_CAP
  <2>1. Cardinality(resultados.vistos) >= OUTCOME_MEMORY_CAP
    <3>1. CASE x = m
      BY <1>4, <1>5, <1>11, <3>1
    <3>2. CASE x # m
      BY <1>4, <1>9, <1>11, <3>2 DEF OlvidoInv
    <3> QED
      BY <3>1, <3>2
  <2> QED
    BY <1>2, <1>6, <2>1
<1>12. ASSUME NEW x \in o.vistos, pico'[x] # 0 \/ (estampida'[x] # 0 /\ o.maximo[x] > NACIMIENTO)
       PROVE  \/ pico'[x] = o.maximo[x]
              \/ pico'[x] < NACIMIENTO /\ o.maximo[x] = NACIMIENTO
  <2>1. CASE x = m
    <3>1. CASE m \in resultados.vistos
      BY <1>2, <1>5, <1>7, <1>8, <1>12, <2>1, <3>1
    <3>2. CASE m \notin resultados.vistos
      BY <1>2, <1>4, <1>5, <1>7, <1>8, <1>12, <2>1, <3>2
    <3> QED
      BY <3>1, <3>2
  <2>2. CASE x # m
    <3>1. x \in Mints /\ x \in resultados.vistos /\ o.maximo[x] = resultados.maximo[x] /\ estampida'[x] = estampida[x]
      BY <1>2, <1>4, <1>12, <2>2
    <3>2. CASE pico'[x] # 0
      BY <1>1, <2>2, <3>1, <3>2 DEF PicosConcuerdan
    <3>3. CASE estampida'[x] # 0 /\ o.maximo[x] > NACIMIENTO
      <4>1. pico'[x] = pico[x]
        BY <1>1, <2>2, <3>1, <3>3
      <4> QED
        BY <3>1, <3>3, <4>1 DEF PicosConcuerdan
    <3> QED
      BY <1>12, <3>2, <3>3
  <2> QED
    BY <2>1, <2>2
<1> QED
  BY <1>4, <1>9, <1>10, <1>11, <1>12 DEF PicosConcuerdan, o

\* Recording the cap of a token, touched last among the tracked, keeps what is
\* known of what the radar forgets.
LEMMA AnotarOlvido ==
    ASSUME TypeOK, RecuentoInv, OlvidoInv, PicosConcuerdan,
           NEW m \in Mints, NEW cap \in Nat, NEW prot,
           Anotar(m, cap, prot), seguidos[m] # 0,
           NEW s \in Lugares(TRACKED_MINTS_CAP), seguidos' = s,
           SinEmpates(s), s[m] = 1, Ordenadas(s, recientes, {m}),
           \A x \in Mints : s[x] # 0 => seguidos[x] # 0,
           \A x \in Mints \ {m} : estampida'[x] = estampida[x],
           \A x \in Mints : estampida'[x] # 0 => x \in prot,
           conocidos' = conocidos, pausa' = Nadie
    PROVE  OlvidoInv' /\ PicosConcuerdan'
<1> DEFINE t == Tocar(recientes, m, TRACKED_MINTS_CAP)
<1>1. /\ recientes' = t /\ recientes \in Lugares(TRACKED_MINTS_CAP)
      /\ TRACKED_MINTS_CAP \in Nat \ {0} /\ SinHuecos(recientes)
  BY TopesAssumption DEF Anotar, TypeOK, TipoMemorias, OlvidoInv
<1>2. /\ t \in Lugares(TRACKED_MINTS_CAP) /\ t[m] = 1
      /\ \A x \in Mints \ {m} : t[x] # 0 => recientes[x] # 0
  <2>1. \A x \in Mints \ {m} : recientes[x] = 0 => t[x] = 0
    BY <1>1, TocarLugar
  <2> QED
    BY <1>1, <2>1, TocarLema, TocarLugar
<1>3. /\ SinHuecos(t)
      /\ \A x, y \in Mints \ {m} : t[x] # 0 /\ t[y] # 0 /\ t[y] < t[x] =>
           recientes[x] # 0 /\ recientes[y] # 0 /\ recientes[y] < recientes[x]
  BY <1>1, TocarHuecos
<1>4. ASSUME NEW x \in Mints \ {m}, s[x] # 0, recientes[x] # 0 PROVE t[x] # 0
  <2>1. TrasLosSuyos(s, recientes, x)
    BY DEF Ordenadas
  <2> QED
    BY <1>1, <1>4, <2>1, NoSeExpulsa
<1> HIDE DEF t
<1>5. Ordenadas(s, t, {})
  <2> SUFFICES ASSUME NEW x \in Mints, s[x] # 0, t[x] # 0, NEW y \in Mints, t[y] # 0, t[y] < t[x]
               PROVE  s[y] # 0 /\ s[y] < s[x]
    BY DEF Ordenadas, TrasLosSuyos
  <2>1. s[x] \in Nat /\ s[y] \in Nat /\ t[x] \in Nat /\ t[y] \in Nat
    BY <1>2 DEF Lugares
  <2>2. x # m
    BY <1>2, <2>1
  <2>3. CASE y = m
    <3>1. s[x] # 1
      BY <2>2 DEF SinEmpates
    <3> QED
      BY <2>1, <2>3, <3>1
  <2>4. CASE y # m
    <3>1. recientes[x] # 0 /\ recientes[y] # 0 /\ recientes[y] < recientes[x]
      BY <1>3, <2>2, <2>4
    <3>2. TrasLosSuyos(s, recientes, x)
      BY <2>2 DEF Ordenadas
    <3> QED
      BY <3>1, <3>2 DEF TrasLosSuyos
  <2> QED
    BY <2>3, <2>4
<1>6. /\ \A x \in Mints : pico'[x] # 0 => x = m \/ pico[x] # 0
      /\ resultados'.vistos \subseteq resultados.vistos \cup {m}
      /\ \A x \in resultados'.vistos :
           s[x] # 0 /\ pico'[x] = 0 => resultados'.maximo[x] \in {0, NACIMIENTO}
      /\ \A x \in Mints \ resultados'.vistos :
           pico'[x] # 0 => Cardinality(resultados'.vistos) >= OUTCOME_MEMORY_CAP
      /\ PicosConcuerdan'
  BY AnotarPicos
<1>7. /\ \A x \in Mints : s[x] # 0 \/ t[x] # 0 \/ pico'[x] # 0 => x \in conocidos
      /\ resultados'.vistos \subseteq conocidos
  <2>1. /\ \A x \in Mints : seguidos[x] # 0 \/ recientes[x] # 0 \/ pico[x] # 0 => x \in conocidos
        /\ resultados.vistos \subseteq conocidos
    BY DEF OlvidoInv
  <2> QED
    BY <1>2, <1>6, <2>1
<1>8. \A x \in Mints : s[x] # 0 /\ pico'[x] # 0 => t[x] # 0
  <2>1. \A x \in Mints : seguidos[x] # 0 /\ pico[x] # 0 => recientes[x] # 0
    BY DEF OlvidoInv
  <2> QED
    BY <1>2, <1>4, <1>6, <2>1
<1>9. seguidos' = s /\ recientes' = t /\ conocidos' = conocidos /\ pausa' = Nadie
  BY <1>1
<1>10. EnPausa' = {}
  BY <1>9 DEF EnPausa
<1> QED
  BY <1>3, <1>5, <1>6, <1>7, <1>8, <1>9, <1>10 DEF OlvidoInv

\* Touching a tracked token, or a new one, keeps the order of the tracked
\* behind that of the last caps, but for the one touched.
LEMMA TocarSeguidos ==
    ASSUME TypeOK, OlvidoInv, pausa = Nadie, NEW m \in Mints,
           NEW s, s = Tocar(seguidos, m, TRACKED_MINTS_CAP)
    PROVE  /\ s \in Lugares(TRACKED_MINTS_CAP) /\ s[m] = 1
           /\ SinEmpates(s)
           /\ \A x \in Mints \ {m} : s[x] # 0 => seguidos[x] # 0
           /\ Ordenadas(s, recientes, {m})
<1>1. /\ seguidos \in Lugares(TRACKED_MINTS_CAP) /\ TRACKED_MINTS_CAP \in Nat \ {0}
      /\ SinEmpates(seguidos) /\ Ordenadas(seguidos, recientes, {})
  BY TopesAssumption DEF TypeOK, TipoMemorias, OlvidoInv, EnPausa
<1>2. s \in Lugares(TRACKED_MINTS_CAP) /\ s[m] = 1
  BY <1>1, TocarLema, TocarLugar
<1>3. /\ SinEmpates(s)
      /\ \A x \in Mints \ {m} : s[x] # 0 => seguidos[x] # 0 /\ 1 < s[x]
      /\ \A x, y \in Mints \ {m} :
           s[x] # 0 /\ seguidos[y] # 0 /\ seguidos[y] < seguidos[x] => s[y] # 0 /\ s[y] < s[x]
  BY <1>1, TocarOrden
<1>4. Ordenadas(s, recientes, {m})
  <2> SUFFICES ASSUME NEW x \in Mints \ {m}, s[x] # 0, recientes[x] # 0,
                      NEW y \in Mints, recientes[y] # 0, recientes[y] < recientes[x]
               PROVE  s[y] # 0 /\ s[y] < s[x]
    BY DEF Ordenadas, TrasLosSuyos
  <2>1. CASE y = m
    BY <1>2, <1>3, <2>1
  <2>2. CASE y # m
    BY <1>1, <1>3, <2>2 DEF Ordenadas, TrasLosSuyos
  <2> QED
    BY <2>1, <2>2
<1> QED
  BY <1>2, <1>3, <1>4

\* A trade changes the bursts of its token only (ingest.py:1018-1048).
LEMMA ContarSuyo ==
    ASSUME TypeOK, NEW m \in Mints, NEW cap, Contar(m, cap)
    PROVE  \A x \in Mints \ {m} : estampida'[x] = estampida[x]
<1>1. estampida \in [Mints -> Nat]
  BY DEF TypeOK, TipoCaps
<1>2. CASE UNCHANGED estampida
  BY <1>2
<1>3. ASSUME NEW n, estampida' = [estampida EXCEPT ![m] = n]
      PROVE  \A x \in Mints \ {m} : estampida'[x] = estampida[x]
  BY <1>1, <1>3
<1> QED
  BY <1>2, <1>3 DEF Contar

\* A burst of a token that is tracked finds its peaks in agreement.
LEMMA RafagaPicos ==
    ASSUME OlvidoInv, PicosConcuerdan, NEW m \in Mints, seguidos[m] # 0,
           UNCHANGED <<pico, resultados>>,
           \A x \in Mints \ {m} : estampida'[x] = estampida[x],
           resultados.vistos \subseteq Mints, resultados.maximo \in [Mints -> Nat], NACIMIENTO \in Nat
    PROVE  PicosConcuerdan'
<1> SUFFICES ASSUME NEW x \in resultados.vistos,
                    pico[x] # 0 \/ (estampida'[x] # 0 /\ resultados.maximo[x] > NACIMIENTO)
             PROVE  \/ pico[x] = resultados.maximo[x]
                    \/ pico[x] < NACIMIENTO /\ resultados.maximo[x] = NACIMIENTO
  BY DEF PicosConcuerdan
<1>1. CASE x # m
  BY <1>1 DEF PicosConcuerdan
<1>2. CASE x = m
  <2>1. pico[m] = 0 => resultados.maximo[m] \in {0, NACIMIENTO}
    BY <1>2 DEF OlvidoInv
  <2>2. pico[m] # 0
    BY <1>2, <2>1
  <2> QED
    BY <1>2, <2>2 DEF PicosConcuerdan
<1> QED
  BY <1>1, <1>2

\* Every step keeps the peaks in agreement.
LEMMA OlvidoPaso ==
    ASSUME TypeOK, RecuentoInv, TechoInv, OlvidoInv, PicosConcuerdan, [Next]_vars
    PROVE  OlvidoInv' /\ PicosConcuerdan'
<1>1. /\ resultados.vistos \subseteq Mints /\ resultados.maximo \in [Mints -> Nat]
      /\ resultados \in Conteos /\ NACIMIENTO \in Nat
      /\ seguidos \in Lugares(TRACKED_MINTS_CAP)
  BY UmbralesAssumption DEF TypeOK, TipoDisco, TipoMemorias, Conteos
<1>2. ASSUME UNCHANGED <<seguidos, recientes, pausa, pico, conocidos, resultados>>
      PROVE  OlvidoInv'
  <2>1. EnPausa' = EnPausa
    BY <1>2 DEF EnPausa
  <2> QED
    BY <1>2, <2>1 DEF OlvidoInv
<1>3. CASE UNCHANGED <<seguidos, recientes, pausa, pico, conocidos, resultados, estampida>>
  BY <1>2, <1>3 DEF PicosConcuerdan
<1>4. ASSUME NEW m \in Mints, Crear(m)
      PROVE  OlvidoInv' /\ PicosConcuerdan'
  <2>1. /\ pausa = Nadie /\ pausa' = Nadie
        /\ m \notin conocidos /\ conocidos' = conocidos \cup {m}
        /\ seguidos' = Tocar(seguidos, m, TRACKED_MINTS_CAP)
        /\ resultados' = resultados \/ resultados' = Observar(resultados, m, NACIMIENTO)
        /\ UNCHANGED <<recientes, pico, estampida>>
    BY <1>4 DEF Crear, Aviso, caps, graduacion
  <2> DEFINE s == Tocar(seguidos, m, TRACKED_MINTS_CAP)
  <2>2. /\ s \in Lugares(TRACKED_MINTS_CAP) /\ s[m] = 1
        /\ SinEmpates(s)
        /\ \A x \in Mints \ {m} : s[x] # 0 => seguidos[x] # 0
        /\ Ordenadas(s, recientes, {m})
    BY <2>1, TocarSeguidos
  <2>3. /\ \A x \in Mints : seguidos[x] # 0 \/ recientes[x] # 0 \/ pico[x] # 0 => x \in conocidos
        /\ resultados.vistos \subseteq conocidos
        /\ m \notin resultados.vistos /\ recientes[m] = 0 /\ pico[m] = 0
    BY <2>1 DEF OlvidoInv
  <2> HIDE DEF s
  <2>4. Ordenadas(s, recientes, {})
    BY <2>2, <2>3 DEF Ordenadas, TrasLosSuyos
  <2>5. /\ resultados.vistos \subseteq resultados'.vistos
        /\ resultados'.vistos \subseteq resultados.vistos \cup {m}
        /\ \A x \in Mints \ {m} : resultados'.maximo[x] = resultados.maximo[x]
        /\ m \in resultados'.vistos => resultados'.maximo[m] = NACIMIENTO
    BY <1>1, <2>1, <2>3, ObservarMaximo
  <2>6. \A x \in resultados'.vistos :
          s[x] # 0 /\ pico[x] = 0 => resultados'.maximo[x] \in {0, NACIMIENTO}
    <3>1. \A x \in resultados.vistos :
            seguidos[x] # 0 /\ pico[x] = 0 => resultados.maximo[x] \in {0, NACIMIENTO}
      BY DEF OlvidoInv
    <3> QED
      BY <1>1, <2>2, <2>3, <2>5, <3>1
  <2>7. \A x \in Mints \ resultados'.vistos :
          pico[x] # 0 => Cardinality(resultados'.vistos) >= OUTCOME_MEMORY_CAP
    <3> SUFFICES ASSUME NEW x \in Mints \ resultados'.vistos, pico[x] # 0
                 PROVE  Cardinality(resultados'.vistos) >= OUTCOME_MEMORY_CAP
      OBVIOUS
    <3>1. Cardinality(resultados.vistos) >= OUTCOME_MEMORY_CAP
      BY <2>5 DEF OlvidoInv
    <3>2. IsFiniteSet(resultados'.vistos)
      BY <1>1, <2>5, MintsAssumption, FS_Subset, FS_AddElement
    <3>3. /\ Cardinality(resultados.vistos) \in Nat /\ Cardinality(resultados'.vistos) \in Nat
          /\ Cardinality(resultados.vistos) <= Cardinality(resultados'.vistos)
      BY <2>5, <3>2, FS_Subset, FS_CardinalityType
    <3>4. OUTCOME_MEMORY_CAP \in Nat
      BY TopesAssumption
    <3> QED
      BY <3>1, <3>3, <3>4
  <2>8. \A x \in Mints : s[x] # 0 \/ recientes[x] # 0 \/ pico[x] # 0 => x \in conocidos'
    BY <2>1, <2>2, <2>3
  <2>9. \A x \in Mints : s[x] # 0 /\ pico[x] # 0 => recientes[x] # 0
    BY <2>2, <2>3 DEF OlvidoInv
  <2>10. EnPausa' = {} /\ seguidos' = s /\ resultados'.vistos \subseteq conocidos'
    BY <2>1, <2>3, <2>5 DEF EnPausa, s
  <2>11. SinHuecos(recientes)
    BY DEF OlvidoInv
  <2>12. OlvidoInv'
    BY <2>1, <2>2, <2>4, <2>6, <2>7, <2>8, <2>9, <2>10, <2>11 DEF OlvidoInv
  <2>13. PicosConcuerdan'
    BY <1>1, <2>1, <2>3, <2>5 DEF PicosConcuerdan
  <2> QED
    BY <2>12, <2>13
<1>5. ASSUME NEW m \in Mints, NEW l \in Lecturas, Operacion(m, l)
      PROVE  /\ pausa = Nadie /\ seguidos[m] # 0 /\ conocidos' = conocidos
             /\ l.cap \in Nat
             /\ \A x \in Mints \ {m} : estampida'[x] = estampida[x]
  <2>1. Contar(m, l.cap)
    BY <1>5 DEF Operacion
  <2> QED
    BY <1>5, <2>1, ContarSuyo, LecturasAssumption DEF Operacion, Aviso
<1>6. ASSUME NEW m \in Mints, NEW l \in Lecturas,
             OperacionComun(m, l) \/ OperacionGraduaConSitio(m, l)
      PROVE  OlvidoInv' /\ PicosConcuerdan'
  <2>1. /\ Operacion(m, l) /\ Anotar(m, l.cap, Protegidos') /\ pausa' = pausa
        /\ seguidos' = Tocar(seguidos, m, TRACKED_MINTS_CAP)
    BY <1>6 DEF OperacionComun, OperacionGraduaConSitio, OperacionGradua, OperacionMedida
  <2>2. /\ pausa = Nadie /\ seguidos[m] # 0 /\ conocidos' = conocidos
        /\ l.cap \in Nat
        /\ \A x \in Mints \ {m} : estampida'[x] = estampida[x]
    BY <1>5, <2>1
  <2> DEFINE s == Tocar(seguidos, m, TRACKED_MINTS_CAP)
  <2>3. /\ s \in Lugares(TRACKED_MINTS_CAP) /\ s[m] = 1
        /\ SinEmpates(s)
        /\ \A x \in Mints \ {m} : s[x] # 0 => seguidos[x] # 0
        /\ Ordenadas(s, recientes, {m})
    BY <2>2, TocarSeguidos
  <2>4. \A x \in Mints : estampida'[x] # 0 => x \in Protegidos'
    BY DEF Protegidos, Presentes
  <2>5. seguidos' = s /\ pausa' = Nadie /\ \A x \in Mints : s[x] # 0 => seguidos[x] # 0
    BY <2>1, <2>2, <2>3
  <2> HIDE DEF s
  <2> QED
    BY <2>1, <2>2, <2>3, <2>4, <2>5, AnotarOlvido
<1>7. ASSUME NEW m \in Mints, NEW l \in Lecturas, OperacionFrenada(m, l)
      PROVE  OlvidoInv' /\ PicosConcuerdan'
  <2>1. /\ Operacion(m, l)
        /\ UNCHANGED <<seguidos, recientes, pausa, pico, resultados>>
    BY <1>7 DEF OperacionFrenada, SinAnotar, caps, tasas
  <2>2. /\ seguidos[m] # 0 /\ conocidos' = conocidos
        /\ \A x \in Mints \ {m} : estampida'[x] = estampida[x]
    BY <1>5, <2>1
  <2>3. PicosConcuerdan'
    BY <1>1, <2>1, <2>2, RafagaPicos
  <2> QED
    BY <1>2, <2>1, <2>2, <2>3
<1>8. ASSUME NEW m \in Mints, NEW l \in Lecturas, OperacionGraduaEsperando(m, l)
      PROVE  OlvidoInv' /\ PicosConcuerdan'
  <2>1. /\ Operacion(m, l) /\ UNCHANGED <<recientes, pico, resultados>>
        /\ \E viejo \in Mints : pausa' = [mint |-> m, cap |-> l.cap, viejo |-> viejo]
        /\ seguidos' = Tocar(seguidos, m, TRACKED_MINTS_CAP)
    BY <1>8 DEF OperacionGraduaEsperando, OperacionGradua, OperacionMedida, SinAnotar, caps, tasas,
                Expulsados, Presentes
  <2>2. /\ pausa = Nadie /\ seguidos[m] # 0 /\ conocidos' = conocidos /\ l.cap \in Nat
        /\ \A x \in Mints \ {m} : estampida'[x] = estampida[x]
    BY <1>5, <2>1
  <2> DEFINE s == Tocar(seguidos, m, TRACKED_MINTS_CAP)
  <2>3. /\ s \in Lugares(TRACKED_MINTS_CAP) /\ s[m] = 1
        /\ SinEmpates(s)
        /\ \A x \in Mints \ {m} : s[x] # 0 => seguidos[x] # 0
        /\ Ordenadas(s, recientes, {m})
    BY <2>2, TocarSeguidos
  <2>4. seguidos' = s /\ \A x \in Mints : s[x] # 0 => seguidos[x] # 0
    BY <2>1, <2>2, <2>3
  <2> HIDE DEF s
  <2>5. pausa' # Nadie /\ pausa'.mint = m
    BY <2>1, <2>2, MintsAssumption
  <2>6. EnPausa' = {m}
    BY <2>5 DEF EnPausa
  <2>7. OlvidoInv'
    <3>1. /\ SinHuecos(recientes) /\ resultados.vistos \subseteq conocidos
          /\ \A x \in Mints : s[x] # 0 \/ recientes[x] # 0 \/ pico[x] # 0 => x \in conocidos
          /\ \A x \in Mints : s[x] # 0 /\ pico[x] # 0 => recientes[x] # 0
      BY <2>4 DEF OlvidoInv
    <3>2. \A x \in resultados.vistos :
            s[x] # 0 /\ pico[x] = 0 => resultados.maximo[x] \in {0, NACIMIENTO}
      BY <1>1, <2>4 DEF OlvidoInv
    <3>3. \A x \in Mints \ resultados.vistos :
            pico[x] # 0 => Cardinality(resultados.vistos) >= OUTCOME_MEMORY_CAP
      BY DEF OlvidoInv
    <3>4. /\ seguidos' = s /\ recientes' = recientes /\ pico' = pico
          /\ resultados' = resultados /\ conocidos' = conocidos
      BY <2>1, <2>2, <2>4
    <3> QED
      BY <2>3, <2>5, <2>6, <3>1, <3>2, <3>3, <3>4 DEF OlvidoInv
  <2>8. PicosConcuerdan'
    BY <1>1, <2>1, <2>2, RafagaPicos
  <2> QED
    BY <2>7, <2>8
<1>9. CASE Reanudar
  <2>1. /\ pausa # Nadie /\ pausa' = Nadie /\ Anotar(pausa.mint, pausa.cap, Protegidos)
        /\ UNCHANGED <<seguidos, estampida, conocidos>>
    BY <1>9 DEF Reanudar, lanzamiento
  <2>2. /\ pausa.mint \in Mints /\ pausa.cap \in Nat
        /\ seguidos[pausa.mint] = 1 /\ SinEmpates(seguidos)
        /\ Ordenadas(seguidos, recientes, {pausa.mint})
    BY <2>1 DEF TypeOK, TipoResto, OlvidoInv, EnPausa
  <2>3. \A x \in Mints : estampida'[x] # 0 => x \in Protegidos
    BY <2>1 DEF Protegidos, Presentes
  <2> DEFINE m == pausa.mint
             cap == pausa.cap
  <2>4. /\ m \in Mints /\ cap \in Nat
        /\ Anotar(m, cap, Protegidos) /\ seguidos[m] # 0 /\ seguidos[m] = 1
        /\ SinEmpates(seguidos) /\ Ordenadas(seguidos, recientes, {m})
        /\ seguidos' = seguidos
        /\ \A x \in Mints \ {m} : estampida'[x] = estampida[x]
    BY <2>1, <2>2
  <2> HIDE DEF m, cap
  <2> QED
    BY <1>1, <2>1, <2>3, <2>4, AnotarOlvido
<1>10. CASE Reiniciar
  <2>1. /\ seguidos' = Nada /\ recientes' = Nada /\ pico' = Nada /\ pausa' = Nadie
        /\ resultados' = Sembrar(corpus) /\ conocidos' = {}
        /\ \A x \in Mints : Nada[x] = 0
    BY <1>10 DEF Reiniciar, Nada
  <2>2. resultados'.vistos = {}
    BY <2>1 DEF Sembrar
  <2>3. SinEmpates(Nada) /\ SinHuecos(Nada) /\ Ordenadas(Nada, Nada, {})
    BY <2>1 DEF SinEmpates, SinHuecos, Ordenadas, TrasLosSuyos
  <2>4. EnPausa' = {}
    BY <2>1 DEF EnPausa
  <2> QED
    BY <2>1, <2>2, <2>3, <2>4 DEF OlvidoInv, PicosConcuerdan
<1>11. ASSUME NEW m \in Mints, NEW l \in Lecturas, OperarSwap(m, l.cap)
       PROVE  OlvidoInv' /\ PicosConcuerdan'
  BY <1>3, <1>11 DEF OperarSwap, lanzamiento, caps, tasas, graduacion
<1>12. CASE Fotografiar \/ UNCHANGED vars
  BY <1>3, <1>12 DEF Fotografiar, vars, lanzamiento, caps, tasas, graduacion
<1> QED
  BY <1>4, <1>6, <1>7, <1>8, <1>9, <1>10, <1>11, <1>12 DEF Next

\* The two memories of a peak agree while the radar keeps it, but for one below
\* the cap at birth, and it keeps those of the stampedes, for any trades, evictions, prunings and capacities
\* (ingest.py:882-926).
THEOREM Spec_PicosConcuerdan == Spec => []PicosConcuerdan
<1>1. Init => RecuentoInv /\ TechoInv /\ OlvidoInv /\ PicosConcuerdan
  <2> SUFFICES ASSUME Init PROVE RecuentoInv /\ TechoInv /\ OlvidoInv /\ PicosConcuerdan
    OBVIOUS
  <2>1. RecuentoInv
    BY RecuentoSembrar, FS_EmptySet DEF Init, RecuentoInv
  <2>2. /\ seguidos = Nada /\ recientes = Nada /\ pico = Nada /\ pausa = Nadie /\ base = Nada
        /\ resultados.vistos = {} /\ \A x \in Mints : Nada[x] = 0
    BY DEF Init, Nada, Sembrar
  <2>3. NACIMIENTO \in Nat
    BY UmbralesAssumption
  <2>4. TechoInv
    BY <2>2, <2>3 DEF TechoInv
  <2>5. SinEmpates(Nada) /\ SinHuecos(Nada) /\ Ordenadas(Nada, Nada, {}) /\ EnPausa = {}
    BY <2>2 DEF SinEmpates, SinHuecos, Ordenadas, TrasLosSuyos, EnPausa
  <2>6. OlvidoInv /\ PicosConcuerdan
    BY <2>2, <2>5 DEF OlvidoInv, PicosConcuerdan
  <2> QED
    BY <2>1, <2>4, <2>6
<1>2. TypeOK /\ RecuentoInv /\ TechoInv /\ OlvidoInv /\ PicosConcuerdan /\ [Next]_vars
        => RecuentoInv' /\ TechoInv' /\ OlvidoInv' /\ PicosConcuerdan'
  BY RecuentoPaso, TechoPaso, OlvidoPaso
<1> QED
  BY <1>1, <1>2, Spec_TypeOK, PTL DEF Spec

=============================================================================
