--------------------------- MODULE AutoStopProofs ---------------------------
(***************************************************************************)
(* Machine-checked proofs about the automatic stop, for any tokens, prices, *)
(* rules and caps: the types, that the trailing goes ahead of the stop, and *)
(* that a closed position is never touched again.                          *)
(***************************************************************************)
EXTENDS AutoStop, FiniteSetTheorems, SequenceTheorems, TLAPS

\* Why the trailing goes ahead: the peak is never below the entry.
PicoInv == \A i \in Creadas : posiciones[i].entrada <= posiciones[i].pico

-----------------------------------------------------------------------------

\* A good read keeps the type and does not lower the peak.
LEMMA LeidaLema ==
    ASSUME NEW p \in Posicion, NEW c \in Caps
    PROVE  /\ Leida(p, c) \in Posicion
           /\ Leida(p, c).entrada = p.entrada
           /\ Leida(p, c).pico >= p.pico
           /\ Leida(p, c).cierre = p.cierre
<1> DEFINE k == IF c > p.pico THEN c ELSE p.pico
<1>1. p.pico \in Caps /\ p.pico \in Nat /\ c \in Nat
  BY CapsAssumption DEF Posicion
<1>2. k \in Caps /\ k >= p.pico
  BY <1>1
<1>3. Leida(p, c) = [p EXCEPT !.fallos = 0, !.ultima = c, !.pico = k]
  BY DEF Leida, Posicion
<1>4. 0 \in 0 .. FALLOS_PARA_AVISAR
  BY TopesAssumption
<1> HIDE DEF k
<1> QED
  <2>1. Leida(p, c) \in Posicion
    <3>1. Leida(p, c) = [mint |-> p.mint, entrada |-> p.entrada, pico |-> k, ultima |-> c,
                         trailing |-> p.trailing, stop |-> p.stop, fallos |-> 0,
                         cierre |-> p.cierre]
      BY <1>3 DEF Posicion
    <3> QED
      BY <1>2, <1>4, <3>1 DEF Posicion
  <2>2. Leida(p, c).entrada = p.entrada /\ Leida(p, c).pico = k /\ Leida(p, c).cierre = p.cierre
    BY <1>3 DEF Posicion
  <2> QED
    BY <1>2, <2>1, <2>2

\* A failed reading moves neither the entry nor the peak (auto.py:215-231).
LEMMA FalladaLema ==
    ASSUME NEW p \in Posicion
    PROVE  /\ Fallada(p) \in Posicion
           /\ Fallada(p).entrada = p.entrada /\ Fallada(p).pico = p.pico
  BY TopesAssumption DEF Fallada, Posicion

\* A position is born with its peak at its entry.
LEMMA NuevaLema ==
    ASSUME NEW m \in Mints, NEW c \in Caps, NEW r \in Reglas
    PROVE  Nueva(m, c, r) \in Posicion /\ Nueva(m, c, r).entrada = Nueva(m, c, r).pico
  BY ReglasAssumption, TopesAssumption DEF Nueva, Posicion

\* Closing keeps the type and the peak.
LEMMA CierreLema ==
    ASSUME NEW p \in Posicion, NEW x \in {"vendida", "graduada"}
    PROVE  /\ [p EXCEPT !.cierre = x] \in Posicion
           /\ [p EXCEPT !.cierre = x].entrada = p.entrada
           /\ [p EXCEPT !.cierre = x].pico = p.pico
  BY DEF Posicion

\* The two rules, without the state: of a price below the peak, if the peak is
\* not below the entry and the trailing's threshold is not above the stop's, a
\* fall that fires the stop fires the trailing (auto.py:89-104).
LEMMA CaePctLema ==
    ASSUME NEW e \in Nat, NEW k \in Nat, NEW u \in Nat, NEW t \in 1 .. 99, NEW s \in 1 .. 99,
           e <= k, t <= s, CaePct(e, u, s)
    PROVE  CaePct(k, u, t)
<1>1. (e - u) * 100 >= s * e
  BY DEF CaePct
<1>2. s * e >= t * e
  OBVIOUS
<1>3. PICK d \in Nat : k = e + d
  <2>1. k - e \in Nat /\ k = e + (k - e)
    OBVIOUS
  <2> QED
    BY <2>1
<1>4. 100 * d >= t * d
  OBVIOUS
<1>5. t * k = t * e + t * d
  BY <1>3
<1>6. (k - u) * 100 = (e - u) * 100 + 100 * d
  BY <1>3
<1> QED
  BY <1>1, <1>2, <1>4, <1>5, <1>6 DEF CaePct

-----------------------------------------------------------------------------

\* While a round is on, the object it is at exists, and rewriting it with
\* another position keeps the list well typed.
LEMMA ActualLema ==
    ASSUME TypeOK, fase # "dormida"
    PROVE  /\ Actual \in Creadas
           /\ posiciones[Actual] \in Posicion
           /\ posiciones[Actual].mint \in Mints
           /\ Tail(ronda) \in Seq(Creadas)
<1>1. ronda \in Seq(Creadas) /\ ronda # <<>> /\ posiciones \in Seq(Posicion)
  BY DEF TypeOK
<1>2. Head(ronda) \in Creadas /\ Tail(ronda) \in Seq(Creadas)
  BY <1>1, HeadTailProperties
<1>3. posiciones[Actual] \in Posicion
  BY <1>1, <1>2, ElementOfSeq DEF Actual, Creadas
<1> QED
  BY <1>2, <1>3 DEF Actual, Posicion

\* Writing the position in turn touches no other.
LEMMA TocarLema ==
    ASSUME TypeOK, fase # "dormida", NEW p \in Posicion,
           posiciones' = [posiciones EXCEPT ![Actual] = p]
    PROVE  /\ posiciones' \in Seq(Posicion)
           /\ Len(posiciones') = Len(posiciones)
           /\ Creadas' = Creadas
           /\ \A i \in Creadas : posiciones'[i] = IF i = Actual THEN p ELSE posiciones[i]
<1>1. Actual \in 1 .. Len(posiciones) /\ posiciones \in Seq(Posicion)
  BY ActualLema DEF TypeOK, Creadas
<1> QED
  BY <1>1, ExceptSeq DEF Creadas

\* Going on to the next object of the round.
LEMMA SiguienteLema ==
    ASSUME TypeOK, fase # "dormida", Siguiente, Creadas' = Creadas
    PROVE  /\ ronda' \in Seq(Creadas')
           /\ fase' \in Fases
           /\ fase' = "dormida" <=> ronda' = <<>>
           /\ oferta' = 0
  BY ActualLema DEF Siguiente, Fases

\* Every step keeps the types.
LEMMA TypeOK_Step == TypeOK /\ [Next]_vars => TypeOK'
<1> SUFFICES ASSUME TypeOK, [Next]_vars PROVE TypeOK'
  OBVIOUS
<1> USE MintsAssumption, CapsAssumption, TopesAssumption DEF TypeOK, Creadas, Fases, SinAlta, Ninguna
<1>1. CASE EmpezarVuelta
  <2> DEFINE n == Cardinality({m \in Mints : vigiladas[m] # Ninguna})
             quienes == {vigiladas[m] : m \in Mints} \ {Ninguna}
  <2>1. n \in Nat
    BY FS_Subset, FS_CardinalityType
  <2>2. PICK orden \in [1 .. n -> Ids] :
          {orden[k] : k \in DOMAIN orden} = quienes /\ ronda' = orden
    BY <1>1 DEF EmpezarVuelta
  <2>3. quienes \subseteq Creadas /\ quienes # {}
    <3>1. PICK m \in Mints : vigiladas[m] # Ninguna
      BY <1>1 DEF EmpezarVuelta
    <3>2. vigiladas[m] \in quienes
      BY <3>1
    <3>3. \A k \in Mints : vigiladas[k] \in Creadas \cup {Ninguna}
      BY DEF TypeOK
    <3>4. quienes \subseteq Creadas
      BY <3>3
    <3> QED
      BY <3>2, <3>4
  <2>4. orden \in Seq(Creadas) /\ orden # <<>>
    <3>1. \A k \in 1 .. n : orden[k] \in Creadas
      BY <2>2, <2>3
    <3>2. orden \in [1 .. n -> Creadas]
      BY <2>2, <3>1
    <3>3. 1 .. n # {}
      <4>1. PICK x \in quienes : TRUE
        BY <2>3
      <4>2. DOMAIN orden = 1 .. n
        BY <2>2
      <4>3. x \in {orden[k] : k \in DOMAIN orden}
        BY <2>2, <4>1
      <4> HIDE DEF n, quienes
      <4> QED
        BY <4>2, <4>3
    <3>4. orden \in Seq(Creadas)
      <4>1. orden \in UNION {[1 .. k -> Creadas] : k \in Nat}
        BY <2>1, <3>2
      <4> QED
        BY <4>1, SeqDef, Zenon
    <3>5. DOMAIN orden # {}
      BY <2>2, <3>3
    <3>6. DOMAIN <<>> = {}
      OBVIOUS
    <3> QED
      BY <3>4, <3>5, <3>6
  <2> HIDE DEF n, quienes
  <2> QED
    BY <1>1, <2>2, <2>4 DEF EmpezarVuelta, cadena
<1>2. CASE SaltarCerrada
  BY <1>2, SMTT(30) DEF SaltarCerrada, PorLeer, Siguiente, Intacto, Actual, bucle, cadena
<1>3. CASE LeerTranquila
  <2>1. fase # "dormida"
    BY <1>3 DEF LeerTranquila, PorLeer
  <2> DEFINE q == Leida(posiciones[Actual], cap[posiciones[Actual].mint])
  <2>2. q \in Posicion
    BY <2>1, ActualLema, LeidaLema
  <2>3. posiciones' = [posiciones EXCEPT ![Actual] = q]
    BY <1>3 DEF LeerTranquila
  <2> HIDE DEF q
  <2>4. posiciones' \in Seq(Posicion) /\ Len(posiciones') = Len(posiciones) /\ Creadas' = Creadas
    BY <2>1, <2>2, <2>3, TocarLema
  <2> QED
    BY <1>3, <2>1, <2>4, SiguienteLema DEF LeerTranquila, PorLeer, Intacto, cadena
<1>4. CASE LeerYDisparar
  <2>1. fase # "dormida"
    BY <1>4 DEF LeerYDisparar, PorLeer
  <2> DEFINE q == Leida(posiciones[Actual], cap[posiciones[Actual].mint])
  <2>2. q \in Posicion
    BY <2>1, ActualLema, LeidaLema
  <2>3. posiciones' = [posiciones EXCEPT ![Actual] = q]
    BY <1>4 DEF LeerYDisparar
  <2> HIDE DEF q
  <2>4. posiciones' \in Seq(Posicion) /\ Len(posiciones') = Len(posiciones) /\ Creadas' = Creadas
    BY <2>1, <2>2, <2>3, TocarLema
  <2> QED
    BY <1>4, <2>1, <2>4, ActualLema DEF LeerYDisparar, PorLeer, Intacto, cadena
<1>5. CASE LeerGraduada
  <2>1. fase # "dormida"
    BY <1>5 DEF LeerGraduada, PorLeer
  <2> DEFINE q == [posiciones[Actual] EXCEPT !.cierre = "graduada"]
  <2>2. q \in Posicion
    BY <2>1, ActualLema, CierreLema
  <2>3. posiciones' = [posiciones EXCEPT ![Actual] = q]
    BY <1>5 DEF LeerGraduada
  <2> HIDE DEF q
  <2>4. posiciones' \in Seq(Posicion) /\ Len(posiciones') = Len(posiciones) /\ Creadas' = Creadas
    BY <2>1, <2>2, <2>3, TocarLema
  <2> QED
    BY <1>5, <2>1, <2>4, SiguienteLema DEF LeerGraduada, PorLeer, Intacto, cadena
<1>6. CASE LeerFallida
  <2>1. fase # "dormida"
    BY <1>6 DEF LeerFallida, PorLeer
  <2> DEFINE q == Fallada(posiciones[Actual])
  <2>2. q \in Posicion
    BY <2>1, ActualLema, FalladaLema
  <2>3. posiciones' = [posiciones EXCEPT ![Actual] = q]
    BY <1>6 DEF LeerFallida
  <2> HIDE DEF q
  <2>4. posiciones' \in Seq(Posicion) /\ Len(posiciones') = Len(posiciones) /\ Creadas' = Creadas
    BY <2>1, <2>2, <2>3, TocarLema
  <2> QED
    BY <1>6, <2>1, <2>4, SiguienteLema DEF LeerFallida, PorLeer, Intacto, cadena
<1>7. CASE PrepararVenta
  <2>1. fase = "prepara" /\ posiciones[Actual].mint \in Mints
    BY <1>7, ActualLema DEF PrepararVenta
  <2>2. oferta' \in Caps
    BY <1>7, <2>1 DEF PrepararVenta
  <2> QED
    BY <1>7, <2>1, <2>2 DEF PrepararVenta, Intacto, cadena
<1>8. CASE FirmarVenta
  BY <1>8 DEF FirmarVenta, PorLeer, Siguiente, Intacto, Actual, FirmaAdmite, bucle, cadena
<1>9. CASE EnviarVenta
  <2>1. fase # "dormida"
    BY <1>9 DEF EnviarVenta
  <2> DEFINE q == [posiciones[Actual] EXCEPT !.cierre = "vendida"]
  <2>2. q \in Posicion
    BY <2>1, ActualLema, CierreLema
  <2>3. posiciones' = [posiciones EXCEPT ![Actual] = q]
    BY <1>9 DEF EnviarVenta
  <2> HIDE DEF q
  <2>4. posiciones' \in Seq(Posicion) /\ Len(posiciones') = Len(posiciones) /\ Creadas' = Creadas
    BY <2>1, <2>2, <2>3, TocarLema
  <2> QED
    <3> DEFINE m == posiciones[Actual].mint
    <3>1. m \in Mints /\ enVuelo[m] < MaxEnVuelo
      BY <1>9, <2>1, ActualLema DEF EnviarVenta
    <3>2. enVuelo' = [enVuelo EXCEPT ![m] = enVuelo[m] + 1]
      BY <1>9 DEF EnviarVenta
    <3> HIDE DEF m
    <3>3. enVuelo' \in [Mints -> 0 .. MaxEnVuelo]
      BY <3>1, <3>2
    <3> QED
      BY <1>9, <2>1, <2>4, <3>3, SiguienteLema DEF EnviarVenta
<1>10. CASE EnvioPerdido
  <2>1. fase = "envia" /\ posiciones[Actual].mint \in Mints
    BY <1>10, ActualLema DEF EnvioPerdido
  <2>2. enVuelo' \in [Mints -> 0 .. MaxEnVuelo]
    <3> DEFINE m == posiciones[Actual].mint
    <3>1. enVuelo[m] < MaxEnVuelo /\ m \in Mints
      BY <1>10, <2>1 DEF EnvioPerdido
    <3>2. enVuelo' = enVuelo \/ enVuelo' = [enVuelo EXCEPT ![m] = enVuelo[m] + 1]
      BY <1>10 DEF EnvioPerdido
    <3>3. enVuelo \in [Mints -> 0 .. MaxEnVuelo] /\ enVuelo[m] + 1 \in 0 .. MaxEnVuelo
      BY <3>1 DEF TypeOK
    <3> HIDE DEF m
    <3> QED
      BY <3>1, <3>2, <3>3
  <2>3. Creadas' = Creadas
    BY <1>10 DEF EnvioPerdido
  <2> QED
    BY <1>10, <2>1, <2>2, <2>3, SiguienteLema DEF EnvioPerdido
<1>11. CASE VentaFallida
  BY <1>11 DEF VentaFallida, PorLeer, Siguiente, Intacto, Actual, FirmaAdmite, bucle, cadena
<1>12. ASSUME NEW m \in Mints, NEW r \in Reglas, VigilarLeer(m, r) PROVE TypeOK'
  BY <1>12 DEF VigilarLeer, bucle, cadena
<1>13. CASE VigilarInsertar
  <2>1. alta \in [mint : Mints, cap : Caps, regla : Reglas]
    BY <1>13 DEF VigilarInsertar
  <2> DEFINE q == Nueva(alta.mint, alta.cap, alta.regla)
  <2>2. q \in Posicion
    BY <2>1, NuevaLema
  <2>3. posiciones' = Append(posiciones, q) /\ Len(posiciones) < MaxAltas
    BY <1>13 DEF VigilarInsertar
  <2> HIDE DEF q
  <2>4. posiciones' \in Seq(Posicion) /\ Len(posiciones') = Len(posiciones) + 1
    BY <2>2, <2>3, AppendProperties
  <2>5. Creadas' = 1 .. Len(posiciones) + 1 /\ Creadas = 1 .. Len(posiciones) /\ Len(posiciones) \in Nat
    BY <2>4
  <2>6. Creadas \subseteq Creadas' /\ Len(posiciones) + 1 \in Creadas'
    BY <2>5
  <2>7. ronda \in Seq(Creadas')
    BY <2>6, SeqDef
  <2>8. vigiladas' \in [Mints -> Creadas' \cup {Ninguna}]
    BY <1>13, <2>6 DEF VigilarInsertar
  <2> QED
    BY <1>13, <2>3, <2>4, <2>5, <2>6, <2>7, <2>8 DEF VigilarInsertar, bucle, cadena
<1>14. CASE VigilarRechazar
  BY <1>14 DEF VigilarRechazar, bucle, cadena
<1>15. ASSUME NEW m \in Mints, Cancelar(m) PROVE TypeOK'
  BY <1>15 DEF Cancelar, bucle, cadena
<1>16. ASSUME NEW m \in Mints, NEW n \in Caps, OperarComprar(m, n) PROVE TypeOK'
  <2>1. queda' \in 0 .. MaxDiario
    <3>1. queda \in 0 .. MaxDiario /\ n \in Nat
      BY CapsAssumption DEF TypeOK
    <3>2. n <= queda /\ queda' = queda - n
      BY <1>16 DEF OperarComprar, FirmaAdmite
    <3> QED
      BY <3>1, <3>2
  <2>2. saldo' \in [Mints -> BOOLEAN]
    BY <1>16 DEF OperarComprar
  <2> QED
    BY <1>16, <2>1, <2>2 DEF OperarComprar, bucle, cadena
<1>17. ASSUME NEW m \in Mints, OperarVender(m) PROVE TypeOK'
  <2>1. queda' \in 0 .. MaxDiario
    <3>1. queda \in 0 .. MaxDiario /\ cap[m] \in Nat
      BY CapsAssumption DEF TypeOK
    <3>2. cap[m] <= queda /\ queda' = queda - cap[m]
      BY <1>17 DEF OperarVender, FirmaAdmite
    <3> QED
      BY <3>1, <3>2
  <2>2. enVuelo' \in [Mints -> 0 .. MaxEnVuelo]
    BY <1>17 DEF OperarVender
  <2> QED
    BY <1>17, <2>1, <2>2 DEF OperarVender, bucle, cadena
<1>18. CASE Reiniciar
  BY <1>18 DEF Reiniciar, bucle, cadena
<1>19. ASSUME NEW m \in Mints, NEW c \in Caps, MoverPrecio(m, c) PROVE TypeOK'
  BY <1>19 DEF MoverPrecio, SinTocarApi, bucle, cadena
<1>20. ASSUME NEW m \in Mints, Graduar(m) PROVE TypeOK'
  BY <1>20 DEF Graduar, SinTocarApi, bucle, cadena
<1>21. ASSUME NEW m \in Mints, DecidirVenta(m) PROVE TypeOK'
  <2>1. enVuelo' \in [Mints -> 0 .. MaxEnVuelo]
    BY <1>21 DEF DecidirVenta
  <2>2. saldo' \in [Mints -> BOOLEAN]
    BY <1>21 DEF DecidirVenta
  <2> QED
    BY <1>21, <2>1, <2>2 DEF DecidirVenta, SinTocarApi, bucle, cadena
<1>25. ASSUME NEW m \in Mints, CambiarAdmitida(m) PROVE TypeOK'
  BY <1>25 DEF CambiarAdmitida, SinTocarApi, bucle
<1>22. CASE FirmanteCambia
  BY <1>22 DEF FirmanteCambia, SinTocarApi, bucle, cadena
<1>23. CASE Medianoche
  BY <1>23 DEF Medianoche, SinTocarApi, bucle, cadena
<1>24. CASE UNCHANGED vars
  BY <1>24 DEF vars, bucle, cadena
<1> QED
  BY <1>1, <1>2, <1>3, <1>4, <1>5, <1>6, <1>7, <1>8, <1>9, <1>10, <1>11, <1>12, <1>13, <1>14, <1>15, <1>16, <1>17, <1>18, <1>19, <1>20, <1>21, <1>22, <1>23, <1>24, <1>25
  DEF Next, Vuelta, Peticiones, Entorno

\* Every variable keeps its type, for any tokens, prices, rules and bounds.
THEOREM Spec_TypeOK == Spec => []TypeOK
<1>1. Init => TypeOK
  BY MintsAssumption, CapsAssumption, TopesAssumption, EmptySeq
  DEF Init, TypeOK, Creadas, Fases, SinAlta, Ninguna
<1> QED
  BY <1>1, TypeOK_Step, PTL DEF Spec

-----------------------------------------------------------------------------

\* What a step may do to the list of objects: nothing, append a new one whose
\* peak is its entry, or rewrite one keeping its entry and not lowering its peak.
CambioPermitido ==
    \/ posiciones' = posiciones
    \/ \E q \in Posicion : posiciones' = Append(posiciones, q) /\ q.entrada = q.pico
    \/ \E i \in Creadas, q \in Posicion :
          /\ posiciones' = [posiciones EXCEPT ![i] = q]
          /\ q.entrada = posiciones[i].entrada
          /\ q.pico >= posiciones[i].pico

\* Every step makes one of the changes above.
LEMMA CambioLema == TypeOK /\ [Next]_vars => CambioPermitido
<1> SUFFICES ASSUME TypeOK, [Next]_vars PROVE CambioPermitido
  OBVIOUS
<1>1. CASE LeerTranquila \/ LeerYDisparar
  <2>1. fase # "dormida"
    BY <1>1 DEF LeerTranquila, LeerYDisparar, PorLeer
  <2> DEFINE q == Leida(posiciones[Actual], cap[posiciones[Actual].mint])
  <2>2. q \in Posicion /\ q.entrada = posiciones[Actual].entrada /\ q.pico >= posiciones[Actual].pico
    BY <2>1, ActualLema, LeidaLema DEF TypeOK
  <2>3. posiciones' = [posiciones EXCEPT ![Actual] = q]
    BY <1>1 DEF LeerTranquila, LeerYDisparar
  <2> HIDE DEF q
  <2> QED
    BY <2>1, <2>2, <2>3, ActualLema DEF CambioPermitido
<1>2. CASE LeerFallida
  <2>1. fase # "dormida"
    BY <1>2 DEF LeerFallida, PorLeer
  <2> DEFINE q == Fallada(posiciones[Actual])
  <2>2. /\ q \in Posicion /\ q.entrada = posiciones[Actual].entrada
        /\ q.pico >= posiciones[Actual].pico
    <3>1. posiciones[Actual] \in Posicion /\ posiciones[Actual].pico \in Nat
      BY <2>1, ActualLema, CapsAssumption DEF Posicion
    <3>2. q \in Posicion /\ q.entrada = posiciones[Actual].entrada /\ q.pico = posiciones[Actual].pico
      BY <3>1, FalladaLema
    <3> QED
      BY <3>1, <3>2
  <2>3. posiciones' = [posiciones EXCEPT ![Actual] = q]
    BY <1>2 DEF LeerFallida
  <2> HIDE DEF q
  <2> QED
    BY <2>1, <2>2, <2>3, ActualLema DEF CambioPermitido
<1>3. CASE LeerGraduada \/ EnviarVenta
  <2>1. fase # "dormida"
    BY <1>3 DEF LeerGraduada, EnviarVenta, PorLeer
  <2>2. PICK x \in {"vendida", "graduada"} :
          posiciones' = [posiciones EXCEPT ![Actual] = [posiciones[Actual] EXCEPT !.cierre = x]]
    BY <1>3 DEF LeerGraduada, EnviarVenta
  <2> DEFINE q == [posiciones[Actual] EXCEPT !.cierre = x]
  <2>3. /\ q \in Posicion /\ q.entrada = posiciones[Actual].entrada
        /\ q.pico >= posiciones[Actual].pico
    <3>1. posiciones[Actual] \in Posicion /\ posiciones[Actual].pico \in Nat
      BY <2>1, ActualLema, CapsAssumption DEF Posicion
    <3>2. q \in Posicion /\ q.entrada = posiciones[Actual].entrada /\ q.pico = posiciones[Actual].pico
      BY <3>1, CierreLema
    <3> QED
      BY <3>1, <3>2
  <2>4. posiciones' = [posiciones EXCEPT ![Actual] = q]
    BY <2>2
  <2> HIDE DEF q
  <2> QED
    BY <2>1, <2>3, <2>4, ActualLema DEF CambioPermitido
<1>4. CASE VigilarInsertar
  <2>1. alta \in [mint : Mints, cap : Caps, regla : Reglas]
    BY <1>4 DEF VigilarInsertar, TypeOK
  <2> QED
    BY <1>4, <2>1, NuevaLema DEF VigilarInsertar, CambioPermitido
<1>5. CASE posiciones' = posiciones
  BY <1>5 DEF CambioPermitido
<1>6. \/ LeerTranquila \/ LeerYDisparar \/ LeerFallida
      \/ LeerGraduada \/ EnviarVenta \/ VigilarInsertar \/ posiciones' = posiciones
  BY DEF Next, Vuelta, Peticiones, Entorno, vars, EmpezarVuelta, SaltarCerrada, PrepararVenta,
         FirmarVenta, EnvioPerdido, VentaFallida, VigilarLeer, VigilarRechazar, Cancelar,
         OperarComprar, OperarVender, Reiniciar, MoverPrecio, Graduar, DecidirVenta,
         CambiarAdmitida, FirmanteCambia, Medianoche, SinTocarApi
<1> QED
  BY <1>1, <1>2, <1>3, <1>4, <1>5, <1>6

\* No step brings a peak below its entry.
LEMMA Pico_Step == TypeOK /\ PicoInv /\ [Next]_vars => PicoInv'
<1> SUFFICES ASSUME TypeOK, PicoInv, [Next]_vars PROVE PicoInv'
  OBVIOUS
<1>1. posiciones \in Seq(Posicion) /\ Creadas = 1 .. Len(posiciones) /\ Len(posiciones) \in Nat
  BY DEF TypeOK, Creadas
<1>2. \A p \in Posicion : p.entrada \in Nat /\ p.pico \in Nat
  BY CapsAssumption DEF Posicion
<1>3. CASE posiciones' = posiciones
  BY <1>3 DEF PicoInv, Creadas
<1>4. ASSUME NEW q \in Posicion, posiciones' = Append(posiciones, q), q.entrada = q.pico
      PROVE  PicoInv'
  <2>1. /\ Creadas' = 1 .. Len(posiciones) + 1
        /\ \A i \in Creadas : posiciones'[i] = posiciones[i]
        /\ posiciones'[Len(posiciones) + 1] = q
    BY <1>1, <1>4, AppendProperties DEF Creadas
  <2> QED
    BY <1>1, <1>2, <1>4, <2>1 DEF PicoInv
<1>5. ASSUME NEW i \in Creadas, NEW q \in Posicion,
             posiciones' = [posiciones EXCEPT ![i] = q],
             q.entrada = posiciones[i].entrada, q.pico >= posiciones[i].pico
      PROVE  PicoInv'
  <2>1. Creadas' = Creadas /\ \A j \in Creadas : posiciones'[j] = IF j = i THEN q ELSE posiciones[j]
    BY <1>1, <1>5, ExceptSeq DEF Creadas
  <2>2. posiciones[i] \in Posicion
    BY <1>1, ElementOfSeq
  <2> QED
    BY <1>2, <1>5, <2>1, <2>2 DEF PicoInv
<1> QED
  BY <1>3, <1>4, <1>5, CambioLema DEF CambioPermitido

\* Every peak is at or above its entry, for
\* every price path (auto.py:89-104).
THEOREM Spec_PicoInv == Spec => []PicoInv
<1>1. Init => PicoInv
  BY DEF Init, PicoInv, Creadas
<1> QED
  BY <1>1, Pico_Step, Spec_TypeOK, PTL DEF Spec

\* The trailing always goes ahead of the stop loss (auto.py:71-73, 89-104), for
\* every price path, every pair of thresholds and every history of requests.
THEOREM Spec_TrailingSubsume == Spec => []TrailingSubsume
<1>1. TypeOK /\ PicoInv => TrailingSubsume
  <2> SUFFICES ASSUME TypeOK, PicoInv, NEW i \in Creadas,
                      posiciones[i].trailing > 0, posiciones[i].trailing <= posiciones[i].stop,
                      DisparaStop(posiciones[i])
               PROVE  DisparaTrailing(posiciones[i])
    BY DEF TrailingSubsume
  <2>1. posiciones[i] \in Posicion
    BY ElementOfSeq DEF TypeOK, Creadas
  <2>2. /\ posiciones[i].entrada \in Nat /\ posiciones[i].pico \in Nat
        /\ posiciones[i].ultima \in Nat
    BY <2>1, CapsAssumption DEF Posicion
  <2>4. posiciones[i].trailing \in 1 .. 99 /\ posiciones[i].stop \in 1 .. 99
    <3>1. posiciones[i].trailing \in 0 .. 99 /\ posiciones[i].stop \in 0 .. 99
      BY <2>1 DEF Posicion
    <3> QED
      BY <3>1
  <2>3. posiciones[i].entrada <= posiciones[i].pico
    BY DEF PicoInv
  <2> QED
    BY <2>2, <2>3, <2>4, CaePctLema DEF DisparaStop, DisparaTrailing
<1> QED
  BY <1>1, Spec_TypeOK, Spec_PicoInv, PTL

-----------------------------------------------------------------------------

\* Why a closed position is left alone: from the read that fires a rule to the
\* answer of the send, across three awaits, the object in turn is open.
EnVentaAbierta == fase \in {"prepara", "firma", "envia"} => Abierta(Actual)

\* What a step may do to the list of objects: nothing, append one, or rewrite
\* the open one in turn.
EscrituraPermitida ==
    \/ posiciones' = posiciones
    \/ \E q \in Posicion : posiciones' = Append(posiciones, q)
    \/ /\ fase # "dormida" /\ Abierta(Actual)
       /\ \E q \in Posicion : posiciones' = [posiciones EXCEPT ![Actual] = q]

\* Every step makes one of the changes above.
LEMMA EscrituraLema == TypeOK /\ EnVentaAbierta /\ [Next]_vars => EscrituraPermitida
<1> SUFFICES ASSUME TypeOK, EnVentaAbierta, [Next]_vars PROVE EscrituraPermitida
  OBVIOUS
<1>1. ASSUME fase # "dormida", Abierta(Actual), NEW q \in Posicion,
             posiciones' = [posiciones EXCEPT ![Actual] = q]
      PROVE  EscrituraPermitida
  BY <1>1 DEF EscrituraPermitida
<1>2. CASE LeerTranquila \/ LeerYDisparar
  <2>1. fase # "dormida" /\ Abierta(Actual)
    BY <1>2 DEF LeerTranquila, LeerYDisparar, PorLeer
  <2> DEFINE q == Leida(posiciones[Actual], cap[posiciones[Actual].mint])
  <2>2. q \in Posicion
    BY <2>1, ActualLema, LeidaLema DEF TypeOK
  <2>3. posiciones' = [posiciones EXCEPT ![Actual] = q]
    BY <1>2 DEF LeerTranquila, LeerYDisparar
  <2> HIDE DEF q
  <2> QED
    BY <1>1, <2>1, <2>2, <2>3
<1>3. CASE LeerFallida
  <2>1. fase # "dormida" /\ Abierta(Actual)
    BY <1>3 DEF LeerFallida, PorLeer
  <2> DEFINE q == Fallada(posiciones[Actual])
  <2>2. q \in Posicion
    BY <2>1, ActualLema, FalladaLema
  <2>3. posiciones' = [posiciones EXCEPT ![Actual] = q]
    BY <1>3 DEF LeerFallida
  <2> HIDE DEF q
  <2> QED
    BY <1>1, <2>1, <2>2, <2>3
<1>4. CASE LeerGraduada \/ EnviarVenta
  <2>1. fase # "dormida" /\ Abierta(Actual)
    BY <1>4 DEF LeerGraduada, EnviarVenta, PorLeer, EnVentaAbierta
  <2>2. PICK x \in {"vendida", "graduada"} :
          posiciones' = [posiciones EXCEPT ![Actual] = [posiciones[Actual] EXCEPT !.cierre = x]]
    BY <1>4 DEF LeerGraduada, EnviarVenta
  <2> DEFINE q == [posiciones[Actual] EXCEPT !.cierre = x]
  <2>3. q \in Posicion
    BY <2>1, ActualLema, CierreLema
  <2>4. posiciones' = [posiciones EXCEPT ![Actual] = q]
    BY <2>2
  <2> HIDE DEF q
  <2> QED
    BY <1>1, <2>1, <2>3, <2>4
<1>5. CASE VigilarInsertar
  <2>1. alta \in [mint : Mints, cap : Caps, regla : Reglas]
    BY <1>5 DEF VigilarInsertar, TypeOK
  <2> QED
    BY <1>5, <2>1, NuevaLema DEF VigilarInsertar, EscrituraPermitida
<1>6. CASE posiciones' = posiciones
  BY <1>6 DEF EscrituraPermitida
<1>7. \/ LeerTranquila \/ LeerYDisparar \/ LeerFallida
      \/ LeerGraduada \/ EnviarVenta \/ VigilarInsertar \/ posiciones' = posiciones
  BY DEF Next, Vuelta, Peticiones, Entorno, vars, EmpezarVuelta, SaltarCerrada, PrepararVenta,
         FirmarVenta, EnvioPerdido, VentaFallida, VigilarLeer, VigilarRechazar, Cancelar,
         OperarComprar, OperarVender, Reiniciar, MoverPrecio, Graduar, DecidirVenta,
         CambiarAdmitida, FirmanteCambia, Medianoche, SinTocarApi
<1> QED
  BY <1>2, <1>3, <1>4, <1>5, <1>6, <1>7

\* The objects there were and that no step rewrites stay as they were.
LEMMA ConservaLema ==
    ASSUME TypeOK, EscrituraPermitida, NEW i \in Creadas, ~Abierta(i) \/ (fase # "dormida" => i # Actual)
    PROVE  posiciones'[i] = posiciones[i]
<1>1. posiciones \in Seq(Posicion) /\ i \in 1 .. Len(posiciones)
  BY DEF TypeOK, Creadas
<1>2. CASE posiciones' = posiciones
  BY <1>2
<1>3. ASSUME NEW q \in Posicion, posiciones' = Append(posiciones, q) PROVE posiciones'[i] = posiciones[i]
  BY <1>1, <1>3, AppendProperties
<1>4. ASSUME fase # "dormida", Abierta(Actual), NEW q \in Posicion,
             posiciones' = [posiciones EXCEPT ![Actual] = q]
      PROVE  posiciones'[i] = posiciones[i]
  <2>1. i # Actual
    BY <1>4
  <2> QED
    BY <1>1, <1>4, <2>1, TocarLema
<1> QED
  BY <1>2, <1>3, <1>4 DEF EscrituraPermitida

\* The object in turn stays open until its sale is answered, whatever the
\* handlers do during the awaits.
LEMMA EnVenta_Step == TypeOK /\ EnVentaAbierta /\ [Next]_vars => EnVentaAbierta'
<1> SUFFICES ASSUME TypeOK, EnVentaAbierta, [Next]_vars PROVE EnVentaAbierta'
  OBVIOUS
<1>1. CASE UNCHANGED <<posiciones, ronda, fase>>
  BY <1>1 DEF EnVentaAbierta, Abierta, Actual
<1>2. CASE fase' \in {"dormida", "lee"}
  BY <1>2 DEF EnVentaAbierta
<1>3. CASE LeerYDisparar
  <2>1. fase # "dormida" /\ Abierta(Actual)
    BY <1>3 DEF LeerYDisparar, PorLeer
  <2> DEFINE q == Leida(posiciones[Actual], cap[posiciones[Actual].mint])
  <2>2. q \in Posicion /\ q.cierre = posiciones[Actual].cierre
    BY <2>1, ActualLema, LeidaLema DEF TypeOK
  <2>3. posiciones' = [posiciones EXCEPT ![Actual] = q] /\ ronda' = ronda
    BY <1>3 DEF LeerYDisparar
  <2> HIDE DEF q
  <2>4. posiciones'[Actual] = q
    BY <2>1, <2>2, <2>3, ActualLema, TocarLema
  <2> QED
    BY <2>1, <2>2, <2>3, <2>4 DEF EnVentaAbierta, Abierta, Actual
<1>4. CASE PrepararVenta \/ FirmarVenta
  BY <1>4 DEF PrepararVenta, FirmarVenta, EnVentaAbierta, Abierta, Actual
<1>5. CASE VigilarInsertar
  <2>1. UNCHANGED <<ronda, fase>>
    BY <1>5 DEF VigilarInsertar, bucle
  <2>2. SUFFICES ASSUME fase \in {"prepara", "firma", "envia"} PROVE posiciones'[Actual].cierre = "abierta"
    BY <2>1 DEF EnVentaAbierta, Abierta, Actual
  <2>3. Actual \in Creadas /\ Abierta(Actual) /\ posiciones \in Seq(Posicion)
    BY <2>2, ActualLema DEF EnVentaAbierta, TypeOK
  <2>4. alta \in [mint : Mints, cap : Caps, regla : Reglas]
    BY <1>5 DEF VigilarInsertar, TypeOK
  <2> DEFINE q == Nueva(alta.mint, alta.cap, alta.regla)
  <2>5. q \in Posicion /\ posiciones' = Append(posiciones, q)
    BY <1>5, <2>4, NuevaLema DEF VigilarInsertar
  <2> HIDE DEF q
  <2>6. posiciones'[Actual] = posiciones[Actual]
    BY <2>3, <2>5, AppendProperties DEF Creadas
  <2> QED
    BY <2>3, <2>6 DEF Abierta
<1>6. \/ UNCHANGED <<posiciones, ronda, fase>> \/ fase' \in {"dormida", "lee"}
      \/ LeerYDisparar \/ PrepararVenta \/ FirmarVenta \/ VigilarInsertar
  BY DEF Next, Vuelta, Peticiones, Entorno, vars, bucle, EmpezarVuelta, SaltarCerrada, LeerTranquila,
         LeerGraduada, LeerFallida, EnviarVenta, EnvioPerdido, VentaFallida, Siguiente, VigilarLeer,
         VigilarRechazar, Cancelar, OperarComprar, OperarVender, Reiniciar, MoverPrecio, Graduar,
         DecidirVenta, CambiarAdmitida, FirmanteCambia, Medianoche, SinTocarApi
<1> QED
  BY <1>1, <1>2, <1>3, <1>4, <1>5, <1>6

\* From the read that fires a rule to the answer of the send the object in turn
\* is open, for any requests and restarts in between (auto.py:190-246).
THEOREM Spec_EnVentaAbierta == Spec => []EnVentaAbierta
<1>1. Init => EnVentaAbierta
  BY DEF Init, EnVentaAbierta
<1> QED
  BY <1>1, EnVenta_Step, Spec_TypeOK, PTL DEF Spec

\* A closed position is never read, sold or reopened: neither by a later round
\* nor by the rest of the one that closed it (auto.py:211).
THEOREM Spec_CerradaNoCambia == Spec => CerradaNoCambia
<1>1. TypeOK /\ EnVentaAbierta /\ [Next]_vars
        => [\A i \in Creadas : ~Abierta(i) => posiciones'[i] = posiciones[i]]_vars
  <2> SUFFICES ASSUME TypeOK, EnVentaAbierta, [Next]_vars, NEW i \in Creadas, ~Abierta(i)
               PROVE  posiciones'[i] = posiciones[i]
    OBVIOUS
  <2> QED
    BY EscrituraLema, ConservaLema
<1> QED
  BY <1>1, Spec_TypeOK, Spec_EnVentaAbierta, PTL DEF Spec, CerradaNoCambia

=============================================================================
