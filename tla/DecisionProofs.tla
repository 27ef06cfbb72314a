---------------------------- MODULE DecisionProofs ----------------------------
(***************************************************************************)
(* Machine-checked proofs about the components that risk money, for any    *)
(* decisions, limits, prices, strategies and chance:                       *)
(*                                                                         *)
(*   - the ledger of orders implements what it promises, one landing per   *)
(*     decision (Ordenes refines UnaVez);                                  *)
(*   - a day loses no more than its limit, and no position is left open    *)
(*     past its time or once it has given back what it had won;            *)
(*   - the books of the simulator balance, it never spends what it has     *)
(*     not, and a round trip on the curve gains at most the rounding;      *)
(*   - the metrics of a run agree with its trades and with each other;     *)
(*   - nothing that is computed about a moment looks at a later one.       *)
(***************************************************************************)
EXTENDS Ordenes, Riesgo, Backtest, Series, PlieguesProofs, SequenceTheorems

-----------------------------------------------------------------------------
(* The ledger of orders                                                    *)

\* Why a decision lands once: a second attempt exists only after the first one
\* failed or was never sent, and no third one ever does.
LibroDe(k) ==
    /\ estado[k] = "ninguno" <=> veces[k] = 0
    /\ \A i \in Intentos : vuelo[k][i] # "no" => i <= veces[k]
    /\ k \in permiso => veces[k] # 0 /\ vuelo[k][veces[k]] = "no"
    /\ <<k, "failed">> \in noticias => \E i \in Intentos : vuelo[k][i] = "fallo"
    /\ veces[k] = 1 /\ estado[k] = "failed" => k \notin permiso
    /\ veces[k] = 2 \/ (veces[k] = 1 /\ estado[k] = "failed") =>
          vuelo[k][1] \in {"no", "fallo"}

LibroInv == \A k \in Claves : LibroDe(k)

OrdInv == OrdenesTypeOK /\ LibroInv

\* The attempts of a decision.
LEMMA IntentosLema ==
    /\ MAX_RETRIES \in Nat
    /\ Intentos \subseteq 1 .. 3 /\ 1 \in Intentos
    /\ \A n \in 0 .. MAX_RETRIES : n # 0 => n \in Intentos /\ n \in 1 .. 2
    /\ \A n \in 0 .. MAX_RETRIES : n + 1 \in 1 .. MAX_RETRIES => n \in 0 .. 1
BY OrdenesAssumption DEF Intentos

LEMMA Ord_Init == InitOrdenes => OrdInv
<1> SUFFICES ASSUME InitOrdenes PROVE OrdInv
  OBVIOUS
<1>1. OrdenesTypeOK
  <2>1. 0 \in 0 .. MAX_RETRIES /\ 0 \in Nat
    BY IntentosLema
  <2>2. veces \in [Claves -> 0 .. MAX_RETRIES]
    BY <2>1 DEF InitOrdenes
  <2>3. vuelo \in [Claves -> [Intentos -> Destino]]
    BY DEF InitOrdenes, Destino
  <2> QED
    BY <2>1, <2>2, <2>3 DEF InitOrdenes, OrdenesTypeOK
<1>2. LibroInv
  BY DEF InitOrdenes, LibroInv, LibroDe
<1> QED
  BY <1>1, <1>2 DEF OrdInv

\* A mark changes the state of a decision that is in the ledger.
LEMMA MarkLema ==
    ASSUME OrdenesTypeOK, NEW k \in Claves, NEW e \in OrderStatus, mark(k, e)
    PROVE  /\ estado' \in [Claves -> OrderStatus \cup {"ninguno"}]
           /\ \A j \in Claves : estado'[j] = "ninguno" <=> estado[j] = "ninguno"
           /\ \A j \in Claves : j # k => estado'[j] = estado[j]
           /\ estado'[k] # "ninguno" => estado'[k] = e
BY DEF mark, OrdenesTypeOK, OrderStatus

LEMMA Reservar_Inv ==
    ASSUME OrdInv, NEW k \in Claves, Reservar(k) PROVE OrdInv'
<1> USE DEF OrdInv, OrdenesTypeOK
<1>0. veces[k] \in 0 .. MAX_RETRIES /\ LibroDe(k)
  BY DEF LibroInv
<1>1. veces[k] + 1 \in 1 .. MAX_RETRIES /\ (estado[k] = "ninguno" => veces[k] = 0)
  <2>1. CASE estado[k] = "ninguno"
    BY <1>0, <2>1, OrdenesAssumption DEF LibroDe
  <2>2. CASE Reintentable(k)
    BY <1>0, <2>2, OrdenesAssumption DEF LibroDe, Reintentable
  <2> QED
    BY <2>1, <2>2 DEF Reservar, reserve
<1>2. estado' = [estado EXCEPT ![k] = "reserved"]
  BY DEF Reservar, reserve
<1>3. veces' = [veces EXCEPT ![k] = veces[k] + 1]
  <2>1. CASE estado[k] = "ninguno"
    <3>1. veces[k] + 1 = 1
      BY <1>1, <2>1
    <3> QED
      BY <3>1, <2>1 DEF Reservar, reserve
  <2>2. CASE estado[k] # "ninguno"
    BY <2>2 DEF Reservar, reserve
  <2> QED
    BY <2>1, <2>2
<1>4. permiso' = permiso \cup {k} /\ UNCHANGED <<vuelo, noticias, firmadas, gastado, vivo>>
  BY DEF Reservar
<1>5. estado' \in [Claves -> OrderStatus \cup {"ninguno"}]
  BY <1>2 DEF OrderStatus
<1>6. veces' \in [Claves -> 0 .. MAX_RETRIES]
  BY <1>1, <1>3, IntentosLema
<1>7. OrdenesTypeOK'
  BY <1>4, <1>5, <1>6
<1>8. LibroInv'
  <2> SUFFICES ASSUME NEW j \in Claves
               PROVE  LibroDe(j)'
    BY DEF LibroInv
  <2>1. CASE j # k
    BY <1>2, <1>3, <1>4, <2>1 DEF LibroInv, LibroDe
  <2>2. CASE j = k
    <3>1. veces'[k] = veces[k] + 1 /\ estado'[k] = "reserved" /\ veces[k] \in 0 .. 1
      <4>1. veces[k] \in 0 .. 1
        BY <1>0, <1>1, IntentosLema
      <4>2. veces'[k] = veces[k] + 1
        BY <1>3
      <4> QED
        BY <1>2, <4>1, <4>2
    <3>2. \A i \in Intentos : vuelo[k][i] # "no" => i <= veces[k]
      BY DEF LibroInv, LibroDe
    <3>3. vuelo[k][veces[k] + 1] = "no" /\ veces[k] + 1 \in Intentos
      BY <3>1, <3>2, <1>1, IntentosLema
    <3>4. \A i \in Intentos : vuelo[k][i] # "no" => i <= veces[k] + 1
      BY <3>1, <3>2, IntentosLema
    <3>5. veces[k] + 1 = 2 => vuelo[k][1] \in {"no", "fallo"}
      <4> SUFFICES ASSUME veces[k] + 1 = 2 PROVE vuelo[k][1] \in {"no", "fallo"}
        OBVIOUS
      <4>1. veces[k] = 1 /\ estado[k] # "ninguno"
        BY <1>0, <3>1 DEF LibroDe
      <4>2. estado[k] = "failed"
        BY <4>1 DEF Reservar, reserve, Reintentable
      <4> QED
        BY <1>0, <4>1, <4>2 DEF LibroDe
    <3>6. <<k, "failed">> \in noticias => \E i \in Intentos : vuelo[k][i] = "fallo"
      BY DEF LibroInv, LibroDe
    <3> QED
      BY <1>4, <2>2, <3>1, <3>3, <3>4, <3>5, <3>6 DEF LibroDe
  <2> QED
    BY <2>1, <2>2
<1> QED
  BY <1>7, <1>8

LEMMA Desistir_Inv ==
    ASSUME OrdInv, NEW k \in Claves, Desistir(k) PROVE OrdInv'
<1> USE DEF OrdInv
<1>1. permiso' = permiso \ {k} /\ k \in permiso
      /\ UNCHANGED <<veces, vuelo, noticias, firmadas, gastado, vivo>>
  BY DEF Desistir
<1>2. PICK e \in {"cancelled", "failed"} : mark(k, e)
  BY DEF Desistir
<1>3. e \in OrderStatus
  BY DEF OrderStatus
<1>4. OrdenesTypeOK'
  BY <1>1, <1>2, <1>3, MarkLema DEF OrdenesTypeOK
<1>5. LibroInv'
  <2> SUFFICES ASSUME NEW j \in Claves PROVE LibroDe(j)'
    BY DEF LibroInv
  <2>1. LibroDe(j) /\ (estado'[j] = "ninguno" <=> estado[j] = "ninguno")
    BY <1>2, <1>3, MarkLema DEF LibroInv
  <2>2. CASE j # k
    BY <1>1, <1>2, <1>3, <2>1, <2>2, MarkLema DEF LibroDe
  <2>3. CASE j = k
    BY <1>1, <2>1, <2>3 DEF LibroDe
  <2> QED
    BY <2>2, <2>3
<1> QED
  BY <1>4, <1>5

LEMMA Enviar_Inv ==
    ASSUME OrdInv, NEW k \in Claves, Enviar(k) PROVE OrdInv'
<1> USE DEF OrdInv
<1>1. permiso' = permiso \ {k} /\ k \in permiso /\ UNCHANGED <<estado, veces, vivo>>
      /\ vuelo' = [vuelo EXCEPT ![k][veces[k]] = "viaja"]
      /\ noticias' = noticias \cup {<<k, "submitted">>}
  BY DEF Enviar, libro
<1>2. LibroDe(k) /\ veces[k] \in Intentos /\ veces[k] \in 1 .. 2
  BY <1>1, IntentosLema DEF LibroInv, LibroDe, OrdenesTypeOK
<1>3. vuelo' \in [Claves -> [Intentos -> Destino]]
  BY <1>1, <1>2 DEF OrdenesTypeOK, Destino
<1>4. firmadas' \subseteq Claves /\ gastado' \in Nat
  BY OrdenesAssumption DEF Enviar, OrdenesTypeOK
<1>5. OrdenesTypeOK'
  BY <1>1, <1>3, <1>4 DEF OrdenesTypeOK
<1>6. LibroInv'
  <2> SUFFICES ASSUME NEW j \in Claves PROVE LibroDe(j)'
    BY DEF LibroInv
  <2>1. LibroDe(j) /\ veces[j] \in Nat /\ vuelo \in [Claves -> [Intentos -> Destino]]
    BY DEF LibroInv, OrdenesTypeOK
  <2>2. CASE j # k
    <3>1. vuelo'[j] = vuelo[j] /\ (<<j, "failed">> \in noticias' => <<j, "failed">> \in noticias)
      BY <1>1, <2>1, <2>2
    <3> QED
      BY <1>1, <2>1, <2>2, <3>1 DEF LibroDe
  <2>3. CASE j = k
    <3>1. /\ vuelo'[k][veces[k]] = "viaja" /\ vuelo[k][veces[k]] = "no"
          /\ \A i \in Intentos : i # veces[k] => vuelo'[k][i] = vuelo[k][i]
      BY <1>1, <1>2, <2>1 DEF LibroDe
    <3>2. k \notin permiso' /\ (<<k, "failed">> \in noticias' => <<k, "failed">> \in noticias)
      BY <1>1
    <3>3. \A i \in Intentos : vuelo'[k][i] # "no" => i <= veces[k]
      BY <1>2, <3>1 DEF LibroDe
    <3>4. <<k, "failed">> \in noticias => \E i \in Intentos : vuelo'[k][i] = "fallo"
      BY <1>2, <3>1 DEF LibroDe
    <3>5. veces[k] = 2 => vuelo'[k][1] \in {"no", "fallo"}
      BY <1>2, <3>1, IntentosLema DEF LibroDe
    <3>6. ~ (veces[k] = 1 /\ estado[k] = "failed")
      BY <1>1, <1>2 DEF LibroDe
    <3> QED
      BY <1>1, <1>2, <2>3, <3>2, <3>3, <3>4, <3>5, <3>6 DEF LibroDe
  <2> QED
    BY <2>2, <2>3
<1> QED
  BY <1>5, <1>6

LEMMA Cadena_Inv ==
    ASSUME OrdInv, NEW k \in Claves, NEW i \in Intentos, Cadena(k, i) PROVE OrdInv'
<1> USE DEF OrdInv
<1>1. UNCHANGED <<estado, veces, permiso, firmadas, gastado, vivo>> /\ vuelo[k][i] = "viaja"
  BY DEF Cadena, libro
<1>2. PICK d \in {"llego", "fallo"} :
        /\ vuelo' = [vuelo EXCEPT ![k][i] = d]
        /\ noticias' = noticias \cup {<<k, IF d = "llego" THEN "confirmed" ELSE "failed">>}
  BY DEF Cadena
<1>3. vuelo' \in [Claves -> [Intentos -> Destino]]
  BY <1>2 DEF OrdenesTypeOK, Destino
<1>4. OrdenesTypeOK'
  BY <1>1, <1>2, <1>3 DEF OrdenesTypeOK
<1>5. LibroInv'
  <2> SUFFICES ASSUME NEW j \in Claves PROVE LibroDe(j)'
    BY DEF LibroInv
  <2>1. LibroDe(j) /\ vuelo \in [Claves -> [Intentos -> Destino]]
    BY DEF LibroInv, OrdenesTypeOK
  <2>2. CASE j # k
    <3>1. vuelo'[j] = vuelo[j] /\ (<<j, "failed">> \in noticias' => <<j, "failed">> \in noticias)
      BY <1>2, <2>1, <2>2
    <3> QED
      BY <1>1, <2>1, <3>1 DEF LibroDe
  <2>3. CASE j = k
    <3>1. vuelo'[k][i] = d /\ \A n \in Intentos : n # i => vuelo'[k][n] = vuelo[k][n]
      BY <1>2, <2>1
    <3>2. \A n \in Intentos : vuelo'[k][n] # "no" => n <= veces[k]
      BY <1>1, <2>1, <2>3, <3>1 DEF LibroDe
    <3>3. k \in permiso => veces[k] # 0 /\ vuelo'[k][veces[k]] = "no"
      <4> SUFFICES ASSUME k \in permiso PROVE veces[k] # 0 /\ vuelo'[k][veces[k]] = "no"
        OBVIOUS
      <4>1. veces[k] # 0 /\ vuelo[k][veces[k]] = "no"
        BY <2>1, <2>3 DEF LibroDe
      <4>2. veces[k] \in Intentos /\ veces[k] # i
        BY <1>1, <4>1, IntentosLema DEF OrdenesTypeOK
      <4> QED
        BY <3>1, <4>1, <4>2
    <3>4. <<k, "failed">> \in noticias' => \E n \in Intentos : vuelo'[k][n] = "fallo"
      <4>1. CASE d = "fallo"
        BY <3>1, <4>1
      <4>2. CASE d = "llego"
        <5>1. <<k, "failed">> \in noticias' => <<k, "failed">> \in noticias
          BY <1>2, <4>2
        <5> QED
          BY <1>1, <2>1, <2>3, <3>1, <5>1 DEF LibroDe
      <4> QED
        BY <4>1, <4>2
    <3>5. veces[k] = 2 \/ (veces[k] = 1 /\ estado[k] = "failed") => vuelo'[k][1] = vuelo[k][1]
      BY <1>1, <2>1, <2>3, <3>1, IntentosLema DEF LibroDe
    <3> QED
      BY <1>1, <2>1, <2>3, <3>2, <3>3, <3>4, <3>5 DEF LibroDe
  <2> QED
    BY <2>2, <2>3
<1> QED
  BY <1>4, <1>5

\* Whatever the caller is told, and however late.
LEMMA Marcas_Inv ==
    ASSUME OrdInv, NEW k \in Claves, Avisar(k) \/ Vencer(k) PROVE OrdInv'
<1> USE DEF OrdInv
<1>1. UNCHANGED <<veces, permiso, vuelo, noticias, firmadas, gastado, vivo>>
  BY DEF Avisar, Vencer, fuera
<1>2. PICK e \in OrderStatus : mark(k, e) /\ (e = "failed" => <<k, "failed">> \in noticias)
  BY DEF Avisar, Vencer, OrderStatus
<1>3. OrdenesTypeOK'
  BY <1>1, <1>2, MarkLema DEF OrdenesTypeOK
<1>4. LibroInv'
  <2> SUFFICES ASSUME NEW j \in Claves PROVE LibroDe(j)'
    BY DEF LibroInv
  <2>1. LibroDe(j) /\ (estado'[j] = "ninguno" <=> estado[j] = "ninguno")
    BY <1>2, MarkLema DEF LibroInv
  <2>2. CASE j # k
    BY <1>1, <1>2, <2>1, <2>2, MarkLema DEF LibroDe
  <2>3. CASE j = k
    <3> SUFFICES ASSUME veces[k] = 1, estado'[k] = "failed"
                 PROVE  k \notin permiso /\ vuelo[k][1] \in {"no", "fallo"}
      BY <1>1, <2>1, <2>3 DEF LibroDe
    <3>1. e = "failed" \/ estado[k] = "failed"
      BY <1>2, MarkLema
    <3>2. CASE e = "failed"
      <4>1. PICK i \in Intentos : vuelo[k][i] = "fallo"
        BY <1>2, <2>1, <2>3, <3>2 DEF LibroDe
      <4>2. i = 1
        BY <2>1, <2>3, <4>1, IntentosLema DEF LibroDe
      <4> QED
        BY <2>1, <2>3, <4>1, <4>2 DEF LibroDe
    <3>3. CASE estado[k] = "failed"
      BY <2>1, <2>3, <3>3 DEF LibroDe
    <3> QED
      BY <3>1, <3>2, <3>3
  <2> QED
    BY <2>2, <2>3
<1> QED
  BY <1>3, <1>4

LEMMA Ord_Step == OrdInv /\ [NextOrdenes]_varsOrdenes => OrdInv'
<1> SUFFICES ASSUME OrdInv, [NextOrdenes]_varsOrdenes PROVE OrdInv'
  OBVIOUS
<1>1. CASE Activar
  <2>1. UNCHANGED <<estado, veces, permiso, vuelo, noticias, firmadas, gastado>> /\ vivo' \in BOOLEAN
    BY <1>1 DEF Activar, can_enable_live, libro
  <2> QED
    BY <2>1 DEF OrdInv, OrdenesTypeOK, LibroInv, LibroDe
<1>2. CASE UNCHANGED varsOrdenes
  BY <1>2 DEF varsOrdenes, libro, fuera, OrdInv, OrdenesTypeOK, LibroInv, LibroDe
<1> QED
  BY <1>1, <1>2, Reservar_Inv, Desistir_Inv, Enviar_Inv, Cadena_Inv, Marcas_Inv DEF NextOrdenes

\* Every variable of the ledger and of what surrounds it keeps its type.
THEOREM Ordenes_TypeOK == SpecOrdenes => []OrdenesTypeOK
<1>1. OrdInv => OrdenesTypeOK
  BY DEF OrdInv
<1> QED
  BY <1>1, Ord_Init, Ord_Step, PTL DEF SpecOrdenes

-----------------------------------------------------------------------------
(* What the ledger promises                                                *)

\* At most one of the attempts of a decision lands.
UnaLlegada == \A k \in Claves : \A i, j \in Llegan(k) : i = j

LEMMA UnaLlegadaLema == OrdInv => UnaLlegada
<1> SUFFICES ASSUME OrdInv, NEW k \in Claves, NEW i \in Llegan(k), NEW j \in Llegan(k)
             PROVE  i = j
  BY DEF UnaLlegada
<1>1. i \in Intentos /\ j \in Intentos /\ vuelo[k][i] = "llego" /\ vuelo[k][j] = "llego"
  BY DEF Llegan
<1>2. LibroDe(k) /\ veces[k] \in 0 .. MAX_RETRIES
  BY DEF OrdInv, LibroInv, OrdenesTypeOK
<1>3. i <= veces[k] /\ j <= veces[k] /\ veces[k] \in 1 .. 2
  <2>1. i <= veces[k] /\ j <= veces[k]
    BY <1>1, <1>2 DEF LibroDe
  <2>2. i \in 1 .. 3
    BY <1>1, IntentosLema
  <2>3. MAX_RETRIES \in 1 .. 2
    BY OrdenesAssumption
  <2> QED
    BY <1>2, <2>1, <2>2, <2>3
<1>4. veces[k] = 2 => i # 1 /\ j # 1
  BY <1>1, <1>2 DEF LibroDe
<1> QED
  BY <1>1, <1>3, <1>4, IntentosLema

\* A step that lands nothing is a stutter of the promise; one that lands an
\* attempt carries the decision out.
LEMMA Promesa_Step ==
    ASSUME OrdInv, UnaLlegada', [NextOrdenes]_varsOrdenes
    PROVE  [Promesa!Next]_<<{k \in Claves : Llegan(k) # {}},
                            [k \in Claves |-> Cardinality(Llegan(k)) * IMPORTE]>>
<1>1. ASSUME \A k \in Claves : Llegan(k)' = Llegan(k)
      PROVE  UNCHANGED <<{k \in Claves : Llegan(k) # {}},
                         [k \in Claves |-> Cardinality(Llegan(k)) * IMPORTE]>>
  BY <1>1
<1>2. ASSUME NEW k \in Claves, NEW i \in Intentos, Cadena(k, i)
      PROVE  (\A j \in Claves : Llegan(j)' = Llegan(j)) \/ Promesa!Hacer(k)
  <2>1. vuelo[k][i] = "viaja" /\ vuelo \in [Claves -> [Intentos -> Destino]]
    BY <1>2 DEF Cadena, OrdInv, OrdenesTypeOK
  <2>2. CASE vuelo' = [vuelo EXCEPT ![k][i] = "fallo"]
    BY <2>1, <2>2 DEF Llegan
  <2>3. CASE vuelo' = [vuelo EXCEPT ![k][i] = "llego"]
    <3>1. \A j \in Claves : j # k => Llegan(j)' = Llegan(j)
      BY <2>1, <2>3 DEF Llegan
    <3>2. Llegan(k)' = Llegan(k) \cup {i} /\ i \notin Llegan(k)
      BY <2>1, <2>3 DEF Llegan
    <3>3. \A n \in Llegan(k)' : n = i
      BY <3>2 DEF UnaLlegada
    <3>4. Llegan(k) = {} /\ Llegan(k)' = {i}
      BY <3>2, <3>3
    <3>5. Cardinality({i}) * IMPORTE = IMPORTE
      <4>1. Cardinality({i}) = 1 /\ IMPORTE \in Nat
        BY FS_Singleton, OrdenesAssumption
      <4> QED
        BY <4>1
    <3> QED
      <4> DEFINE hechas == {j \in Claves : Llegan(j) # {}}
                 gasto == [j \in Claves |-> Cardinality(Llegan(j)) * IMPORTE]
      <4>1. k \notin hechas /\ hechas' = hechas \cup {k}
        BY <3>1, <3>4
      <4>2. gasto' = [gasto EXCEPT ![k] = IMPORTE]
        BY <3>1, <3>4, <3>5
      <4> QED
        BY <4>1, <4>2 DEF Promesa!Hacer
  <2> QED
    BY <1>2, <2>2, <2>3 DEF Cadena
<1>3. ASSUME NEW k \in Claves, Enviar(k)
      PROVE  \A j \in Claves : Llegan(j)' = Llegan(j)
  <2>1. veces[k] \in Intentos /\ vuelo[k][veces[k]] = "no"
        /\ vuelo \in [Claves -> [Intentos -> Destino]]
    BY <1>3, IntentosLema DEF Enviar, OrdInv, LibroInv, LibroDe, OrdenesTypeOK
  <2>2. vuelo' = [vuelo EXCEPT ![k][veces[k]] = "viaja"]
    BY <1>3 DEF Enviar
  <2> QED
    BY <2>1, <2>2 DEF Llegan
<1>4. ASSUME UNCHANGED vuelo PROVE \A j \in Claves : Llegan(j)' = Llegan(j)
  BY <1>4 DEF Llegan
<1>5. \/ UNCHANGED vuelo
      \/ \E k \in Claves : Enviar(k) \/ \E i \in Intentos : Cadena(k, i)
  BY DEF NextOrdenes, Activar, Reservar, Desistir, Avisar, Vencer, varsOrdenes, fuera
<1> QED
  BY <1>1, <1>2, <1>3, <1>4, <1>5 DEF Promesa!Next

\* "Impide que una decision produzca dos ordenes" (orders.py:56): the ledger
\* implements the abstract promise, for any decisions, amounts and order of
\* what its caller hears.
THEOREM Ordenes_UnaPorDecision == SpecOrdenes => UnaPorDecision
<1>1. InitOrdenes => Promesa!Init
  <2> SUFFICES ASSUME InitOrdenes PROVE Promesa!Init
    OBVIOUS
  <2>1. \A k \in Claves : Llegan(k) = {}
    BY DEF InitOrdenes, Llegan
  <2>2. Cardinality({}) * IMPORTE = 0
    BY FS_EmptySet, OrdenesAssumption
  <2> QED
    BY <2>1, <2>2 DEF Promesa!Init
<1> QED
  BY <1>1, Ord_Init, Ord_Step, UnaLlegadaLema, Promesa_Step, PTL DEF SpecOrdenes, UnaPorDecision, Promesa!Spec

-----------------------------------------------------------------------------
(* Numbers                                                                 *)

\* The quotient of two naturals.
LEMMA DivLema ==
    ASSUME NEW a \in Nat, NEW b \in Nat \ {0}
    PROVE  /\ a \div b \in Nat
           /\ b * (a \div b) <= a
           /\ a < b * (a \div b) + b
OBVIOUS

\* The product of two naturals.
LEMMA PorLema == ASSUME NEW a \in Nat, NEW b \in Nat PROVE a * b \in Nat
OBVIOUS

\* A larger factor makes a larger product.
LEMMA CreceLema ==
    ASSUME NEW a \in Nat, NEW b \in Int, NEW c \in Int, b <= c PROVE a * b <= a * c
<1>1. PICK d \in Nat : c = b + d
  <2>1. c - b \in Nat /\ c = b + (c - b)
    OBVIOUS
  <2> QED
    BY <2>1
<1>2. a * c = a * b + a * d /\ a * d \in Nat /\ a * b \in Int
  BY <1>1
<1> QED
  BY <1>2

\* A positive factor may be taken off both sides.
LEMMA QuitaLema ==
    ASSUME NEW a \in Nat \ {0}, NEW b \in Int, NEW c \in Int, a * b <= a * c PROVE b <= c
<1> SUFFICES ASSUME c + 1 <= b PROVE FALSE
  OBVIOUS
<1>1. a * (c + 1) <= a * b
  BY CreceLema
<1>2. a * (c + 1) = a * c + a /\ a * c \in Int /\ a * b \in Int
  OBVIOUS
<1> QED
  BY <1>1, <1>2

\* A part of n is not more than n.
LEMMA ParteLema ==
    ASSUME NEW n \in Nat, NEW a \in Nat, NEW b \in Nat \ {0}, a <= b
    PROVE  (n * a) \div b \in Nat /\ (n * a) \div b <= n
<1> DEFINE q == (n * a) \div b
<1>1. q \in Nat /\ b * q <= n * a
  BY PorLema, DivLema
<1>2. n * a <= n * b /\ n * b = b * n
  BY CreceLema
<1> HIDE DEF q
<1>3. b * q <= b * n
  BY <1>1, <1>2
<1>4. q <= n
  BY <1>1, <1>3, QuitaLema
<1> QED
  BY <1>1, <1>4 DEF q

\* The least of six naturals is one, and not more than the first.
LEMMA MinimoLema ==
    ASSUME NEW a \in Nat, NEW b \in Nat, NEW c \in Nat, NEW d \in Nat, NEW e \in Nat, NEW f \in Nat
    PROVE  Minimo({a, b, c, d, e, f}) \in Nat /\ Minimo({a, b, c, d, e, f}) <= a
<1> DEFINE S == {a, b, c, d, e, f}
<1>1. \E x \in S : \A y \in S : x <= y
  OBVIOUS
<1>2. Minimo(S) \in S /\ \A y \in S : Minimo(S) <= y
  BY <1>1, Zenon DEF Minimo
<1>3. a \in S /\ S \subseteq Nat
  OBVIOUS
<1> HIDE DEF S
<1>4. Minimo(S) \in Nat /\ Minimo(S) <= a
  BY <1>2, <1>3
<1> QED
  BY <1>4 DEF S

-----------------------------------------------------------------------------
(* The day of an account                                                   *)

\* Why a day is bounded: what it has lost, and what the open position may lose
\* down to its stop, are together within the limit; the position has its unit
\* of rounding set aside.
Reservadas == abiertas - (IF Ocupado THEN 1 ELSE 0)

DiaInv ==
    /\ capital = EQUITY + dia
    /\ Reservadas \in Nat
    /\ puesto.tamano * puesto.parada - 100 * dia
          <= PERDIDA_DIA * EQUITY + 100 * (peorHueco + Reservadas)

\* Why a position is closed in time: the two stops that let it live past its
\* time fire once each.
Prorrogas == (IF puesto.parcial THEN 1 ELSE 0) + (IF puesto.armada THEN 1 ELSE 0)

PuestoInv ==
    /\ puesto.edad < PLAZO + Prorrogas
    /\ puesto.favorable > 0 => puesto.retorno > 0

RiesgoInv == RiesgoTypeOK /\ DiaInv /\ PuestoInv

\* The limits are naturals.
LEMMA LimitesLema ==
    /\ EQUITY \in Nat /\ RIESGO \in Nat /\ POR_TOKEN \in Nat /\ PERDIDA_DIA \in 1 .. 100
    /\ RESERVA \in Nat /\ MAX_EXPUESTO \in Nat /\ MAX_ORDER \in Nat /\ MIN_ORDER \in Nat \ {0}
    /\ LIQUIDEZ_PCT \in Nat /\ PLAZO \in Nat \ {0} /\ TOMA \in 1 .. 100 /\ TRAILING \in 1 .. 100
    /\ SOFT \in Nat /\ RIESGO <= 100 * PERDIDA_DIA
BY RiesgoAssumption, LimitesAssumption

\* What a position is opened with.
LEMMA EntradaLema ==
    ASSUME NEW e \in Entradas
    PROVE  /\ e.parada \in 1 .. 100 /\ e.liquidez \in Nat /\ e.volatilidad \in Nat
           /\ e.confianza \in 0 .. 100 /\ e.correlada \in Nat /\ e.salida \in Nat
BY RiesgoAssumption

\* What one trade may lose down to its stop is the risk of a trade.
LEMMA PresupuestoLema ==
    ASSUME capital \in Int, NEW e \in Entradas
    PROVE  /\ Modulado(e) \in Nat
           /\ (100 * e.parada) * Modulado(e) <= Mayor(0, capital) * RIESGO
<1> DEFINE a == Mayor(0, capital) * RIESGO
           b == 100 * e.parada
<1>1. a \in Nat /\ b \in Nat \ {0}
  <2>1. Mayor(0, capital) \in Nat
    BY DEF Mayor
  <2> QED
    BY <2>1, PorLema, LimitesLema, EntradaLema
<1> HIDE DEF a, b
<1>2. a \div b \in Nat /\ b * (a \div b) <= a
  BY <1>1, DivLema
<1>3. Presupuesto(e) = a \div b
  BY DEF Presupuesto, a, b
<1>4. Modulado(e) \in Nat /\ Modulado(e) <= Presupuesto(e)
  <2>1. /\ Presupuesto(e) \in Nat /\ e.confianza \in Nat /\ 100 + e.volatilidad \in Nat \ {0}
        /\ e.confianza <= 100 + e.volatilidad
    BY <1>2, <1>3, EntradaLema
  <2> QED
    BY <2>1, ParteLema DEF Modulado
<1>5. b * Modulado(e) <= b * Presupuesto(e)
  BY <1>1, <1>2, <1>3, <1>4, CreceLema
<1>6. b * Modulado(e) <= a
  BY <1>1, <1>2, <1>3, <1>4, <1>5
<1> QED
  BY <1>4, <1>6 DEF a, b

\* Every constraint is a natural, and the first one is not more than what is
\* left after the losses of the day.
LEMMA TamanoLema ==
    ASSUME RiesgoTypeOK, NEW e \in Entradas, TrasPerdidas(Modulado(e)) \in Nat
    PROVE  /\ size_position(e) \in Nat
           /\ size_position(e) <= TrasPerdidas(Modulado(e))
<1> DEFINE n == TrasPerdidas(Modulado(e))
<1>1. capital \in Int /\ puesto.tamano \in Nat
  BY DEF RiesgoTypeOK
<1>2. PorToken \in Nat
  <2>1. Mayor(0, capital) * POR_TOKEN \in Nat
    <3>1. Mayor(0, capital) \in Nat
      BY <1>1 DEF Mayor
    <3> QED
      BY <3>1, PorLema, LimitesLema
  <2> QED
    BY <2>1, DivLema DEF PorToken
<1>3. Correlado(n, e) \in Nat /\ Correlado(n, e) <= n
  <2> DEFINE p == Mayor(1, PorToken)
  <2>1. p \in Nat \ {0} /\ p + e.correlada \in Nat \ {0} /\ p <= p + e.correlada
    BY <1>2, EntradaLema DEF Mayor
  <2> HIDE DEF p, n
  <2>2. (n * p) \div (p + e.correlada) \in Nat /\ (n * p) \div (p + e.correlada) <= n
    BY <2>1, ParteLema DEF n
  <2> QED
    BY <2>2 DEF Correlado, p
<1>4. Mayor(0, MAX_EXPUESTO - puesto.tamano) \in Nat
  BY <1>1, LimitesLema DEF Mayor
<1>5. (e.liquidez * LIQUIDEZ_PCT) \div 100 \in Nat
  BY EntradaLema, LimitesLema, PorLema, DivLema
<1>6. Mayor(0, capital - puesto.tamano - RESERVA - e.salida) \in Nat
  BY <1>1, EntradaLema, LimitesLema DEF Mayor
<1>7. Minimo(constraints(e)) \in Nat /\ Minimo(constraints(e)) <= Correlado(n, e)
  BY <1>2, <1>3, <1>4, <1>5, <1>6, LimitesLema, MinimoLema DEF constraints
<1> QED
  BY <1>3, <1>7, LimitesLema DEF size_position

\* What a position may lose down to its stop fits in what is left of the day:
\* in profit, the risk of a trade is within the limit; in loss, the size has
\* shrunk by as much as was lost of it.
LEMMA CabeLema ==
    ASSUME RiesgoTypeOK, DiaInv, NEW e \in Entradas, can_open(e)
    PROVE  /\ size_position(e) \in Nat \ {0}
           /\ size_position(e) * e.parada - 100 * dia <= PERDIDA_DIA * EQUITY
<1> DEFINE s == e.parada
           m == Modulado(e)
           n == TrasPerdidas(m)
           z == size_position(e)
           c == Mayor(0, capital)
           d == dia
           lim == PERDIDA_DIA * Mayor(1, capital)
<1>0. /\ capital \in Int /\ d \in Int /\ capital = EQUITY + d
      /\ s \in Nat \ {0}
      /\ m \in Nat /\ (100 * s) * m <= c * RIESGO
      /\ c \in Nat
  BY PresupuestoLema, EntradaLema DEF RiesgoTypeOK, DiaInv, Mayor
<1>1. c * RIESGO <= c * (100 * PERDIDA_DIA)
  BY <1>0, LimitesLema, CreceLema
<1>2. s * m <= PERDIDA_DIA * c /\ s * m \in Nat
  <2>1. PERDIDA_DIA * c \in Nat /\ s * m \in Nat /\ c * RIESGO \in Nat
    BY <1>0, LimitesLema, PorLema
  <2>2. (100 * s) * m = 100 * (s * m) /\ c * (100 * PERDIDA_DIA) = 100 * (PERDIDA_DIA * c)
    BY <1>0, LimitesLema
  <2> HIDE DEF s, m, c
  <2> QED
    BY <1>0, <1>1, <2>1, <2>2
<1>3. CASE d >= 0
  <2>1. n = m
    BY <1>0, <1>3 DEF TrasPerdidas
  <2>2. z \in Nat \ {0} /\ z <= m
    BY <1>0, <2>1, TamanoLema DEF can_open
  <2>3. s * z <= s * m /\ s * z \in Nat /\ s * z = z * s
    BY <1>0, <2>2, CreceLema, PorLema
  <2>4. PERDIDA_DIA * c <= PERDIDA_DIA * (EQUITY + d)
    <3>1. c = EQUITY + d
      BY <1>0, <1>3, LimitesLema DEF Mayor
    <3> QED
      BY <3>1, <1>0, LimitesLema
  <2>5. PERDIDA_DIA * (EQUITY + d) = PERDIDA_DIA * EQUITY + PERDIDA_DIA * d
    BY <1>0, LimitesLema
  <2>6. d * PERDIDA_DIA <= d * 100 /\ d * PERDIDA_DIA = PERDIDA_DIA * d
    BY <1>0, <1>3, LimitesLema, CreceLema
  <2>7. PERDIDA_DIA * EQUITY \in Nat /\ PERDIDA_DIA * d \in Nat /\ PERDIDA_DIA * c \in Nat
    BY <1>0, <1>3, LimitesLema, PorLema
  <2> HIDE DEF s, m, n, z, c, d
  <2>8. z * s - 100 * d <= PERDIDA_DIA * EQUITY
    BY <1>0, <1>2, <2>3, <2>4, <2>5, <2>6, <2>7
  <2> QED
    BY <2>2, <2>8 DEF s, z, d
<1>4. CASE d < 0
  <2> DEFINE resto == lim + 100 * d
  <2>1. lim \in Nat \ {0} /\ PERDIDA_DIA * c <= lim
    <3>1. Mayor(1, capital) \in Nat \ {0} /\ c <= Mayor(1, capital)
      BY <1>0 DEF Mayor
    <3> QED
      BY <3>1, <1>0, LimitesLema, CreceLema
  <2>2. resto \in Nat
    <3>1. "daily_loss" \notin kill_switches
      BY DEF can_open
    <3>2. ~(-d * 100 > lim)
      BY <3>1 DEF kill_switches, PorCuenta
    <3> HIDE DEF lim
    <3> QED
      BY <3>2, <2>1, <1>0
  <2>3. n = (m * resto) \div lim
    <3>1. Mayor(0, resto) = resto
      BY <2>2 DEF Mayor
    <3> QED
      BY <3>1, <1>4 DEF TrasPerdidas
  <2> HIDE DEF lim, resto, s, m, n, c
  <2>4. n \in Nat /\ lim * n <= m * resto
    BY <2>1, <2>2, <2>3, <1>0, PorLema, DivLema
  <2>5. s * n <= resto
    <3>1. s * (lim * n) <= s * (m * resto)
      BY <1>0, <2>1, <2>2, <2>4, CreceLema
    <3>2. s * (lim * n) = lim * (s * n)
      BY <1>0, <2>1, <2>4
    <3>3. s * (m * resto) = resto * (s * m)
      BY <1>0, <2>2
    <3>4. resto * (s * m) <= resto * lim
      <4>1. s * m <= lim
        <5>1. PERDIDA_DIA * c \in Nat
          BY <1>0, LimitesLema, PorLema
        <5> QED
          BY <5>1, <1>2, <2>1
      <4> QED
        BY <4>1, <1>2, <2>1, <2>2, CreceLema
    <3>5. resto * lim = lim * resto
      BY <2>1, <2>2
    <3>6. s * n \in Nat /\ resto * lim \in Nat /\ resto * (s * m) \in Nat /\ lim * (s * n) \in Nat
      BY <1>0, <1>2, <2>1, <2>2, <2>4, PorLema
    <3>7. lim * (s * n) <= lim * resto
      BY <3>1, <3>2, <3>3, <3>4, <3>5, <3>6
    <3> QED
      BY <3>6, <3>7, <2>1, <2>2, QuitaLema
  <2>6. z \in Nat \ {0} /\ z <= n
    BY <2>4, TamanoLema DEF can_open, n, m
  <2> HIDE DEF z
  <2>7. s * z <= s * n /\ s * z = z * s /\ s * n \in Nat
    BY <1>0, <2>4, <2>6, CreceLema, PorLema
  <2>8. capital > 0
    <3>1. SUFFICES ASSUME capital <= 0 PROVE FALSE
      BY <1>0
    <3>2. c = 0
      BY <3>1, <1>0 DEF c, Mayor
    <3>3. s * m <= 0
      BY <1>2, <3>2, LimitesLema
    <3>4. m = 0
      BY <1>0, <3>3
    <3>5. n = 0
      BY <2>3, <2>1, <2>2, <3>4
    <3> QED
      BY <2>6, <3>5
  <2>9. lim <= PERDIDA_DIA * EQUITY
    <3>1. Mayor(1, capital) = capital /\ capital <= EQUITY
      BY <1>0, <1>4, <2>8, LimitesLema DEF Mayor
    <3> QED
      BY <3>1, <1>0, LimitesLema, CreceLema DEF lim
  <2>10. PERDIDA_DIA * EQUITY \in Nat
    BY LimitesLema, PorLema
  <2>11. z * s - 100 * d <= PERDIDA_DIA * EQUITY
    BY <1>0, <2>1, <2>5, <2>6, <2>7, <2>9, <2>10 DEF resto
  <2> QED
    BY <2>6, <2>11 DEF s, z, d
<1> QED
  BY <1>0, <1>3, <1>4


LEMMA Riesgo_Init == InitRiesgo => RiesgoInv
<1> SUFFICES ASSUME InitRiesgo PROVE RiesgoInv
  OBVIOUS
<1>1. RiesgoTypeOK
  BY LimitesLema DEF InitRiesgo, RiesgoTypeOK, Vacio
<1>2. PERDIDA_DIA * EQUITY \in Nat
  BY LimitesLema, PorLema
<1>3. DiaInv
  BY <1>2, LimitesLema DEF InitRiesgo, DiaInv, Vacio, Ocupado, Reservadas
<1>4. PuestoInv
  BY LimitesLema DEF InitRiesgo, PuestoInv, Prorrogas, Vacio
<1> QED
  BY <1>1, <1>3, <1>4 DEF RiesgoInv

\* Opening fills the room that CabeLema measures.
LEMMA Abrir_Inv == ASSUME RiesgoInv, Abrir PROVE RiesgoInv'
<1> USE DEF RiesgoInv
<1>1. PICK e \in Entradas :
        can_open(e) /\ puesto' = [Vacio EXCEPT !.tamano = size_position(e), !.parada = e.parada]
  BY DEF Abrir
<1>2. /\ size_position(e) \in Nat \ {0} /\ e.parada \in 1 .. 100
      /\ size_position(e) * e.parada - 100 * dia <= PERDIDA_DIA * EQUITY
  BY <1>1, CabeLema, EntradaLema
<1>3. UNCHANGED <<disparados, mercado, capital, cumbre, dia, racha, peorHueco>> /\ abiertas' = abiertas + 1
  BY DEF Abrir, maquinaria
<1>4. /\ puesto'.tamano = size_position(e) /\ puesto'.parada = e.parada /\ puesto'.retorno = 0
      /\ puesto'.favorable = 0 /\ puesto'.edad = 0 /\ ~puesto'.parcial /\ ~puesto'.armada
  BY <1>1 DEF Vacio
<1>5. RiesgoTypeOK'
  <2> HIDE DEF RiesgoInv
  <2> DEFINE z == size_position(e)
  <2>1. puesto' = [tamano |-> z, parada |-> e.parada, retorno |-> 0, favorable |-> 0, edad |-> 0,
                   parcial |-> FALSE, armada |-> FALSE]
    BY <1>1 DEF Vacio
  <2>2. z \in Nat /\ e.parada \in 0 .. 100
    BY <1>2
  <2> HIDE DEF z
  <2>3. puesto' \in [tamano : Nat, parada : 0 .. 100, retorno : Int, favorable : Nat,
                     edad : Nat, parcial : BOOLEAN, armada : BOOLEAN]
    BY <2>1, <2>2
  <2>4. RiesgoTypeOK
    BY DEF RiesgoInv
  <2> QED
    BY <1>3, <2>3, <2>4 DEF RiesgoTypeOK
<1>6. DiaInv'
  <2>1. Ocupado' /\ ~Ocupado
    BY <1>1, <1>2, <1>4, RiesgoAssumption DEF Ocupado, can_open
  <2>2. Reservadas' = abiertas /\ abiertas \in Nat /\ peorHueco \in Nat
    BY <1>3, <2>1 DEF Reservadas, RiesgoTypeOK
  <2>3. capital' = EQUITY + dia'
    BY <1>3 DEF DiaInv
  <2>4. PERDIDA_DIA * EQUITY \in Nat /\ size_position(e) * e.parada \in Nat /\ dia \in Int
    BY <1>2, LimitesLema, PorLema DEF RiesgoTypeOK
  <2>5. size_position(e) * e.parada - 100 * dia <= PERDIDA_DIA * EQUITY + 100 * (peorHueco + abiertas)
    BY <1>2, <2>2, <2>4
  <2> QED
    BY <1>3, <1>4, <2>2, <2>3, <2>5 DEF DiaInv
<1>7. PuestoInv'
  BY <1>4, LimitesLema DEF PuestoInv, Prorrogas
<1> QED
  BY <1>5, <1>6, <1>7

\* What a tick makes of the position before a stop is applied.
Vista1(r) == [puesto EXCEPT !.retorno = r, !.favorable = Mayor(@, r), !.edad = Menor(@ + 1, PLAZO + 3)]

LEMMA VistaLema ==
    ASSUME RiesgoInv, NEW r \in Retornos
    PROVE  /\ r \in Int
           /\ Vista1(r) \in [tamano : Nat, parada : 0 .. 100, retorno : Int, favorable : Nat,
                             edad : Nat, parcial : BOOLEAN, armada : BOOLEAN]
           /\ Vista1(r).tamano = puesto.tamano /\ Vista1(r).parada = puesto.parada
           /\ Vista1(r).parcial = puesto.parcial /\ Vista1(r).armada = puesto.armada
           /\ Vista1(r).retorno = r
           /\ Vista1(r).edad <= puesto.edad + 1
<1>1. r \in Int
  BY RiesgoAssumption
<1>2. /\ puesto \in [tamano : Nat, parada : 0 .. 100, retorno : Int, favorable : Nat,
                     edad : Nat, parcial : BOOLEAN, armada : BOOLEAN]
  BY DEF RiesgoInv, RiesgoTypeOK
<1>3. Mayor(puesto.favorable, r) \in Nat
  BY <1>1, <1>2 DEF Mayor
<1>4. Menor(puesto.edad + 1, PLAZO + 3) \in Nat /\ Menor(puesto.edad + 1, PLAZO + 3) <= puesto.edad + 1
  BY <1>2, LimitesLema DEF Menor
<1> DEFINE k == Mayor(puesto.favorable, r)
           n == Menor(puesto.edad + 1, PLAZO + 3)
<1>5. Vista1(r) = [puesto EXCEPT !.retorno = r, !.favorable = k, !.edad = n]
  BY DEF Vista1
<1>6. k \in Nat /\ n \in Nat /\ n <= puesto.edad + 1 /\ k >= r
  BY <1>1, <1>2, <1>3, <1>4 DEF Mayor
<1> HIDE DEF k, n
<1>7. /\ Vista1(r) \in [tamano : Nat, parada : 0 .. 100, retorno : Int, favorable : Nat,
                          edad : Nat, parcial : BOOLEAN, armada : BOOLEAN]
      /\ Vista1(r).tamano = puesto.tamano /\ Vista1(r).parada = puesto.parada
      /\ Vista1(r).parcial = puesto.parcial /\ Vista1(r).armada = puesto.armada
      /\ Vista1(r).retorno = r /\ Vista1(r).edad = n /\ Vista1(r).favorable = k
  BY <1>1, <1>2, <1>5, <1>6
<1> QED
  BY <1>1, <1>6, <1>7

\* What closing a part adds to the account.
LEMMA LiquidarLema ==
    ASSUME RiesgoInv, NEW r \in Retornos, NEW f \in {25, 100}, Liquidar(Vista1(r), f),
           f = 25 => r > 0
    PROVE  /\ capital' \in Int /\ cumbre' \in Int /\ dia' \in Int /\ racha' \in Nat /\ peorHueco' \in Nat
           /\ capital' = EQUITY + dia'
           /\ peorHueco' >= peorHueco
           /\ f = 25 => dia' >= dia
           /\ -100 * dia' <= puesto.tamano * puesto.parada - 100 * dia + 100 + 100 * (peorHueco' - peorHueco)
<1> DEFINE p == Vista1(r)
           q == Resultado(p, f)
           t == puesto.tamano
           s == puesto.parada
           a == (t * s) \div 100 + 1
<1>1. /\ t \in Nat /\ s \in Nat /\ r \in Int /\ p.tamano = t /\ p.parada = s /\ p.retorno = r
      /\ capital \in Int /\ cumbre \in Int /\ dia \in Int /\ racha \in Nat /\ peorHueco \in Nat
      /\ capital = EQUITY + dia
  BY VistaLema DEF RiesgoInv, RiesgoTypeOK, DiaInv
<1>2. q \in Int /\ (f = 25 => q \in Nat)
  <2>1. (t * r * f) \div 10000 \in Int
    BY <1>1
  <2>2. ASSUME f = 25 PROVE (t * r * f) \div 10000 \in Nat
    <3>1. t * r \in Nat
      BY <1>1, <2>2, PorLema
    <3>2. (t * r) * 25 \in Nat
      BY <3>1, PorLema
    <3> QED
      BY <3>2, <2>2, DivLema
  <2> QED
    BY <1>1, <2>1, <2>2 DEF Resultado
<1>3. a \in Nat /\ 100 * a <= t * s + 100
  BY <1>1, PorLema, DivLema
<1>4. /\ capital' = capital + q /\ cumbre' = Mayor(cumbre, capital + q) /\ dia' = dia + q
      /\ racha' = (IF q < 0 THEN racha + 1 ELSE 0)
      /\ peorHueco' = peorHueco + Mayor(0, -q - a)
  BY <1>1 DEF Liquidar
<1> HIDE DEF p, q, a
<1>5. Mayor(0, -q - a) \in Nat /\ -q - a <= Mayor(0, -q - a)
  BY <1>2, <1>3 DEF Mayor
<1>6. Mayor(cumbre, capital + q) \in Int
  BY <1>1, <1>2 DEF Mayor
<1>7. t * s \in Nat
  BY <1>1, PorLema
<1> HIDE DEF t, s
<1>8. -100 * dia' <= t * s - 100 * dia + 100 + 100 * (peorHueco' - peorHueco)
  BY <1>1, <1>2, <1>3, <1>4, <1>5, <1>7
<1>9. capital' = EQUITY + dia'
  BY <1>1, <1>2, <1>4, LimitesLema
<1> QED
  BY <1>1, <1>2, <1>4, <1>5, <1>6, <1>8, <1>9 DEF t, s

\* What stops the trade is what the order of the stops says.
LEMMA ParadaLema ==
    ASSUME NEW p \in [tamano : Nat, parada : 0 .. 100, retorno : Int, favorable : Nat,
                      edad : Nat, parcial : BOOLEAN, armada : BOOLEAN],
           NEW senal \in Senales
    PROVE  LET s == evaluate_stops(p, senal)
           IN  /\ s.fraccion # 100 /\ p.favorable > 0 => p.retorno > 0
               /\ s.fraccion = 25 => p.retorno > 0 /\ ~p.parcial
               /\ s.fraccion = 0 /\ s.tipo = "break_even" => p.parcial /\ ~p.armada
               /\ s.fraccion = 0 /\ s.tipo # "break_even" => p.edad < PLAZO
<1>1. ASSUME p.favorable > 0, ~Devuelto(p) PROVE p.retorno > 0
  <2>1. /\ p.favorable \in Nat /\ p.retorno \in Int
    OBVIOUS
  <2>2. TRAILING * p.favorable <= 100 * p.favorable
    <3>1. p.favorable * TRAILING <= p.favorable * 100
      BY <2>1, LimitesLema, CreceLema
    <3>2. p.favorable * TRAILING = TRAILING * p.favorable /\ p.favorable * 100 = 100 * p.favorable
      BY <2>1, LimitesLema
    <3> QED
      BY <3>1, <3>2
  <2>3. ~((p.favorable - p.retorno) * 100 >= TRAILING * p.favorable)
    BY <1>1 DEF Devuelto
  <2>4. TRAILING * p.favorable \in Int
    BY <2>1, LimitesLema
  <2> QED
    BY <2>1, <2>2, <2>3, <2>4
<1>2. p.edad \in Nat /\ p.retorno \in Int /\ TOMA \in 1 .. 100 /\ PLAZO \in Nat
  BY LimitesLema
<1>3. ASSUME p.retorno >= TOMA PROVE p.retorno > 0
  BY <1>2, <1>3
<1>4. ASSUME ~(p.edad >= PLAZO) PROVE p.edad < PLAZO
  BY <1>2, <1>4
<1> DEFINE s == evaluate_stops(p, senal)
<1>5. s.fraccion # 100 => ~Devuelto(p)
  BY DEF evaluate_stops, Parada
<1>6. s.fraccion = 25 => p.retorno >= TOMA /\ ~p.parcial
  BY DEF evaluate_stops, Parada, NINGUNA
<1>7. s.fraccion = 0 /\ s.tipo = "break_even" => p.parcial /\ ~p.armada
  BY DEF evaluate_stops, Parada, NINGUNA
<1>8. s.fraccion = 0 /\ s.tipo # "break_even" => ~(p.edad >= PLAZO)
  BY DEF evaluate_stops, Parada, NINGUNA
<1> HIDE DEF s
<1>9. /\ s.fraccion # 100 /\ p.favorable > 0 => p.retorno > 0
      /\ s.fraccion = 25 => p.retorno > 0 /\ ~p.parcial
      /\ s.fraccion = 0 /\ s.tipo = "break_even" => p.parcial /\ ~p.armada
      /\ s.fraccion = 0 /\ s.tipo # "break_even" => p.edad < PLAZO
  BY <1>1, <1>3, <1>4, <1>5, <1>6, <1>7, <1>8
<1> QED
  BY <1>9 DEF s

\* A tick closes the position, closes a quarter of it, or leaves it.
LEMMA Tick_Inv == ASSUME RiesgoInv, Tick PROVE RiesgoInv'
<1> DEFINE Puestos == [tamano : Nat, parada : 0 .. 100, retorno : Int, favorable : Nat,
                       edad : Nat, parcial : BOOLEAN, armada : BOOLEAN]
           t == puesto.tamano
           s == puesto.parada
<1>1. PICK r \in Retornos, senal \in Senales :
        LET p == Vista1(r)
            x == evaluate_stops(p, senal)
        IN  \/ /\ x.fraccion = 100
               /\ Liquidar(p, 100)
               /\ puesto' = Vacio
            \/ /\ x.fraccion = 25
               /\ Liquidar(p, 25)
               /\ puesto' = [p EXCEPT !.parcial = TRUE, !.tamano = @ - (@ \div 4)]
            \/ /\ x.fraccion = 0
               /\ puesto' = [p EXCEPT !.armada = @ \/ x.tipo = "break_even"]
               /\ UNCHANGED <<capital, cumbre, dia, racha, peorHueco>>
  BY DEF Tick, Vista1
<1> DEFINE p == Vista1(r)
           x == evaluate_stops(p, senal)
<1>2. UNCHANGED <<disparados, mercado, abiertas>> /\ Ocupado
  BY DEF Tick, maquinaria
<1>3. /\ r \in Int /\ p \in Puestos /\ p.tamano = t /\ p.parada = s
      /\ p.parcial = puesto.parcial /\ p.armada = puesto.armada /\ p.retorno = r
      /\ p.edad <= puesto.edad + 1
  BY VistaLema
<1>4. /\ x.fraccion # 100 /\ p.favorable > 0 => p.retorno > 0
      /\ x.fraccion = 25 => p.retorno > 0 /\ ~p.parcial
      /\ x.fraccion = 0 /\ x.tipo = "break_even" => p.parcial /\ ~p.armada
      /\ x.fraccion = 0 /\ x.tipo # "break_even" => p.edad < PLAZO
  BY <1>3, ParadaLema
<1>5. /\ RiesgoTypeOK /\ DiaInv /\ PuestoInv
      /\ t \in Nat \ {0} /\ s \in Nat /\ capital \in Int /\ dia \in Int /\ abiertas \in Nat
      /\ peorHueco \in Nat /\ puesto.edad \in Nat /\ puesto \in Puestos
      /\ PERDIDA_DIA * EQUITY \in Nat /\ t * s \in Nat
  <2>1. RiesgoTypeOK /\ DiaInv /\ PuestoInv
    BY DEF RiesgoInv
  <2>2. /\ t \in Nat \ {0} /\ s \in Nat /\ capital \in Int /\ dia \in Int /\ abiertas \in Nat
        /\ peorHueco \in Nat /\ puesto.edad \in Nat /\ puesto \in Puestos
    BY <1>2, <2>1 DEF RiesgoTypeOK, Ocupado
  <2> QED
    BY <2>1, <2>2, LimitesLema, PorLema
<1>6. Reservadas = abiertas - 1 /\ Reservadas \in Nat
  BY <1>2, <1>5 DEF Reservadas, DiaInv
<1> HIDE DEF p, x, Puestos
<1>7. CASE x.fraccion = 100
  <2>1. Liquidar(p, 100) /\ puesto' = Vacio
    BY <1>1, <1>7 DEF p, x
  <2>2. /\ capital' \in Int /\ cumbre' \in Int /\ dia' \in Int /\ racha' \in Nat /\ peorHueco' \in Nat
        /\ capital' = EQUITY + dia'
        /\ -100 * dia' <= t * s - 100 * dia + 100 + 100 * (peorHueco' - peorHueco)
    BY <2>1, LiquidarLema DEF p
  <2>3. puesto' \in Puestos /\ puesto'.tamano = 0 /\ puesto'.parada = 0 /\ puesto'.favorable = 0
        /\ puesto'.edad = 0 /\ ~puesto'.parcial /\ ~puesto'.armada
    BY <2>1 DEF Vacio, Puestos
  <2>4. RiesgoTypeOK'
    BY <1>2, <1>5, <2>2, <2>3 DEF RiesgoTypeOK, Puestos
  <2>5. DiaInv'
    <3>1. ~Ocupado'
      BY <2>3 DEF Ocupado
    <3>2. Reservadas' = abiertas
      BY <1>2, <1>5, <3>1 DEF Reservadas
    <3>3. t * s - 100 * dia <= PERDIDA_DIA * EQUITY + 100 * (peorHueco + (abiertas - 1))
      BY <1>5, <1>6 DEF DiaInv
    <3> DEFINE w == t * s
               k == PERDIDA_DIA * EQUITY
               d == dia'
               h == peorHueco'
    <3>4. w \in Nat /\ k \in Nat /\ d \in Int /\ h \in Nat
      BY <1>5, <2>2
    <3>5. w - 100 * dia <= k + 100 * (peorHueco + (abiertas - 1))
      BY <3>3
    <3>6. -100 * d <= w - 100 * dia + 100 + 100 * (h - peorHueco)
      BY <2>2
    <3>7. dia \in Int /\ peorHueco \in Nat /\ abiertas \in Nat
      BY <1>5
    <3> HIDE DEF w, k, d, h
    <3>8. 0 - 100 * d <= k + 100 * (h + abiertas)
      BY <3>4, <3>5, <3>6, <3>7
    <3>9. 0 * 0 - 100 * dia' <= PERDIDA_DIA * EQUITY + 100 * (peorHueco' + Reservadas')
      BY <3>2, <3>8 DEF k, d, h
    <3> QED
      BY <1>5, <2>2, <2>3, <3>2, <3>9 DEF DiaInv
  <2>6. PuestoInv'
    BY <2>3, LimitesLema DEF PuestoInv, Prorrogas
  <2> QED
    BY <2>4, <2>5, <2>6 DEF RiesgoInv
<1>8. CASE x.fraccion = 25
  <2> DEFINE u == t - (t \div 4)
  <2>1. Liquidar(p, 25) /\ puesto' = [p EXCEPT !.parcial = TRUE, !.tamano = u]
    BY <1>1, <1>3, <1>8 DEF p, x
  <2>2. /\ capital' \in Int /\ cumbre' \in Int /\ dia' \in Int /\ racha' \in Nat /\ peorHueco' \in Nat
        /\ capital' = EQUITY + dia' /\ peorHueco' >= peorHueco /\ dia' >= dia
    BY <1>3, <1>4, <1>8, <2>1, LiquidarLema DEF p
  <2>3. u \in Nat \ {0} /\ u <= t
    BY <1>5, DivLema
  <2> HIDE DEF u
  <2>4. /\ puesto' \in Puestos /\ puesto'.tamano = u /\ puesto'.parada = s
        /\ puesto'.favorable = p.favorable /\ puesto'.retorno = p.retorno /\ puesto'.edad = p.edad
        /\ puesto'.parcial /\ puesto'.armada = puesto.armada
    BY <1>3, <2>1, <2>3 DEF Puestos
  <2>5. RiesgoTypeOK'
    BY <1>2, <1>5, <2>2, <2>4 DEF RiesgoTypeOK, Puestos
  <2>6. DiaInv'
    <3>1. Ocupado'
      BY <2>3, <2>4 DEF Ocupado
    <3>2. Reservadas' = Reservadas
      BY <1>2, <3>1 DEF Reservadas
    <3>3. u * s <= t * s /\ u * s \in Nat
      <4>1. s * u <= s * t /\ s * u \in Nat
        BY <1>5, <2>3, CreceLema, PorLema
      <4>2. s * u = u * s /\ s * t = t * s
        BY <1>5, <2>3
      <4> QED
        BY <4>1, <4>2
    <3>4. t * s - 100 * dia <= PERDIDA_DIA * EQUITY + 100 * (peorHueco + Reservadas)
      BY <1>5 DEF DiaInv
    <3> HIDE DEF t, s
    <3>5. u * s - 100 * dia' <= PERDIDA_DIA * EQUITY + 100 * (peorHueco' + Reservadas)
      BY <1>5, <1>6, <2>2, <3>3, <3>4
    <3> QED
      BY <1>6, <2>2, <2>4, <3>2, <3>5 DEF DiaInv
  <2>7. PuestoInv'
    <3>1. ~puesto.parcial
      BY <1>3, <1>4, <1>8
    <3>2. Prorrogas' = Prorrogas + 1 /\ Prorrogas \in Nat
      BY <2>4, <3>1 DEF Prorrogas
    <3>3. puesto'.edad < PLAZO + Prorrogas'
      <4>1. p.edad \in Nat
        BY <1>3 DEF Puestos
      <4> QED
        BY <1>3, <1>5, <2>4, <3>2, <4>1, LimitesLema DEF PuestoInv
    <3> QED
      BY <1>4, <1>8, <2>4, <3>3 DEF PuestoInv
  <2> QED
    BY <2>5, <2>6, <2>7 DEF RiesgoInv
<1>9. CASE x.fraccion = 0
  <2> DEFINE b == p.armada \/ x.tipo = "break_even"
  <2>1. /\ puesto' = [p EXCEPT !.armada = b]
        /\ UNCHANGED <<capital, cumbre, dia, racha, peorHueco>>
    BY <1>1, <1>9 DEF p, x
  <2>2. b \in BOOLEAN
    OBVIOUS
  <2>3. b = (puesto.armada \/ x.tipo = "break_even")
    BY <1>3
  <2> HIDE DEF b
  <2>4. /\ puesto' \in Puestos /\ puesto'.tamano = t /\ puesto'.parada = s
        /\ puesto'.favorable = p.favorable /\ puesto'.retorno = p.retorno /\ puesto'.edad = p.edad
        /\ puesto'.parcial = puesto.parcial /\ puesto'.armada = b
    BY <1>3, <2>1, <2>2 DEF Puestos
  <2>5. RiesgoTypeOK'
    BY <1>2, <1>5, <2>1, <2>4 DEF RiesgoTypeOK, Puestos
  <2>6. DiaInv'
    <3>1. Ocupado' /\ Reservadas' = Reservadas
      BY <1>2, <2>4 DEF Ocupado, Reservadas
    <3> QED
      BY <1>5, <2>1, <2>4, <3>1 DEF DiaInv
  <2>7. PuestoInv'
    <3>0. p.edad \in Nat
      BY <1>3 DEF Puestos
    <3>1. CASE x.tipo = "break_even"
      <4>1. ~puesto.armada /\ puesto'.armada
        BY <1>3, <1>4, <1>9, <2>3, <2>4, <3>1
      <4>2. Prorrogas' = Prorrogas + 1 /\ Prorrogas \in Nat
        BY <2>4, <4>1 DEF Prorrogas
      <4>3. puesto'.edad < PLAZO + Prorrogas'
        BY <1>3, <1>5, <2>4, <3>0, <4>2, LimitesLema DEF PuestoInv
      <4> QED
        BY <1>4, <1>9, <2>4, <4>3 DEF PuestoInv
    <3>2. CASE x.tipo # "break_even"
      <4>1. Prorrogas' \in Nat
        BY DEF Prorrogas
      <4>2. puesto'.edad < PLAZO + Prorrogas'
        BY <1>4, <1>9, <2>4, <3>0, <3>2, <4>1, LimitesLema
      <4> QED
        BY <1>4, <1>9, <2>4, <4>2 DEF PuestoInv
    <3> QED
      BY <3>1, <3>2
  <2> QED
    BY <2>5, <2>6, <2>7 DEF RiesgoInv
<1> QED
  BY <1>1, <1>7, <1>8, <1>9 DEF p, x

\* Every step keeps the invariant.
LEMMA Riesgo_Step == RiesgoInv /\ [NextRiesgo]_varsRiesgo => RiesgoInv'
<1> SUFFICES ASSUME RiesgoInv, [NextRiesgo]_varsRiesgo PROVE RiesgoInv'
  OBVIOUS
<1> USE DEF RiesgoInv
<1>1. ASSUME UNCHANGED <<cuentaRiesgo, puesto, peorHueco>>,
             disparados' \subseteq KillSwitch, mercado' \subseteq KillSwitch
      PROVE  RiesgoInv'
  <2>1. UNCHANGED <<capital, cumbre, dia, racha, abiertas, puesto, peorHueco>>
    BY <1>1 DEF cuentaRiesgo
  <2>2. RiesgoTypeOK'
    BY <1>1, <2>1 DEF RiesgoTypeOK
  <2>3. DiaInv' /\ PuestoInv'
    BY <2>1 DEF DiaInv, PuestoInv, Reservadas, Ocupado, Prorrogas
  <2> QED
    BY <2>2, <2>3
<1>2. CASE UNCHANGED varsRiesgo
  <2>1. UNCHANGED <<disparados, mercado, cuentaRiesgo, puesto, peorHueco>>
    BY <1>2 DEF varsRiesgo, maquinaria
  <2> QED
    BY <1>1, <2>1 DEF RiesgoTypeOK
<1>3. CASE Salud
  <2>1. Averias \subseteq KillSwitch
    BY RiesgoAssumption
  <2>2. mercado' \subseteq KillSwitch /\ UNCHANGED <<disparados, cuentaRiesgo, puesto, peorHueco>>
    BY <1>3, <2>1 DEF Salud
  <2> QED
    BY <1>1, <2>2 DEF RiesgoTypeOK
<1>4. CASE \E s \in Manuales : trip(s) \/ \E operador \in BOOLEAN : reset(s, operador)
  <2>1. Manuales \subseteq KillSwitch
    BY RiesgoAssumption
  <2>2. disparados' \subseteq KillSwitch /\ UNCHANGED <<mercado, cuentaRiesgo, puesto, peorHueco>>
    BY <1>4, <2>1 DEF trip, reset, RiesgoTypeOK
  <2> QED
    BY <1>1, <2>2 DEF RiesgoTypeOK
<1>5. CASE Abrir
  BY <1>5, Abrir_Inv
<1>6. CASE Tick
  BY <1>6, Tick_Inv
<1> QED
  BY <1>2, <1>3, <1>4, <1>5, <1>6 DEF NextRiesgo

LEMMA Riesgo_Inv == SpecRiesgo => []RiesgoInv
BY Riesgo_Init, Riesgo_Step, PTL DEF SpecRiesgo

\* Every variable of the risk engine and of the account keeps its type.
THEOREM Riesgo_TypeOK == SpecRiesgo => []RiesgoTypeOK
<1>1. RiesgoInv => RiesgoTypeOK
  BY DEF RiesgoInv
<1> QED
  BY <1>1, Riesgo_Inv, PTL

\* However many trades of a day lose, the day loses no more than its limit,
\* what the prices jumped past the stops and the rounding.
THEOREM Riesgo_PerdidaDelDiaAcotada == SpecRiesgo => []PerdidaDelDiaAcotada
<1>1. RiesgoInv => PerdidaDelDiaAcotada
  <2> SUFFICES ASSUME RiesgoInv PROVE PerdidaDelDiaAcotada
    OBVIOUS
  <2>1. /\ puesto.tamano \in Nat /\ puesto.parada \in Nat /\ dia \in Int /\ abiertas \in Nat /\ peorHueco \in Nat
    BY DEF RiesgoInv, RiesgoTypeOK
  <2>2. puesto.tamano * puesto.parada \in Nat /\ PERDIDA_DIA * EQUITY \in Nat
    BY <2>1, LimitesLema, PorLema
  <2>3. Reservadas \in Nat /\ Reservadas <= abiertas
    BY <2>1 DEF RiesgoInv, DiaInv, Reservadas
  <2>4. puesto.tamano * puesto.parada - 100 * dia <= PERDIDA_DIA * EQUITY + 100 * (peorHueco + Reservadas)
    BY DEF RiesgoInv, DiaInv
  <2> QED
    BY <2>1, <2>2, <2>3, <2>4 DEF PerdidaDelDiaAcotada
<1> QED
  BY <1>1, Riesgo_Inv, PTL

\* A position that was in profit is not left open at a loss, and none outlives
\* its time by more than the two ticks of the stops that fire once.
THEOREM Riesgo_NoSeQuedaAbierta == SpecRiesgo => []NoSeQuedaAbierta
<1>1. RiesgoInv => NoSeQuedaAbierta
  <2> SUFFICES ASSUME RiesgoInv PROVE NoSeQuedaAbierta
    OBVIOUS
  <2>1. Prorrogas \in Nat /\ Prorrogas <= 2
    BY DEF Prorrogas
  <2>2. puesto.edad \in Nat /\ puesto.edad < PLAZO + Prorrogas
    BY DEF RiesgoInv, RiesgoTypeOK, PuestoInv
  <2> QED
    BY <2>1, <2>2, LimitesLema DEF NoSeQuedaAbierta, RiesgoInv, PuestoInv
<1> QED
  BY <1>1, Riesgo_Inv, PTL

-----------------------------------------------------------------------------
(* The simulator                                                           *)

\* The sign of a number.
LEMMA MenosLema == ASSUME NEW x \in Int PROVE -x = 0 - x
OBVIOUS

\* A position is either open with tokens or nothing.
PosicionInv == posicion.tokens = 0 => posicion.coste = 0 /\ posicion.tasas = 0

SimuladorInv == SimuladorTypeOK /\ PosicionInv /\ LibroCuadra /\ SinApalancamiento

Rellenos == [estado : FillStatus, gasto : Int, tokens : Int, tasas : Nat]

\* The constants of the simulator.
LEMMA SimulaLema ==
    /\ Capital \in Nat /\ TASAS \in Nat /\ MAX_IMPACTO \in Nat /\ MEV \in Nat
    /\ MaxEventos \in Nat /\ COMPETENCIA \in 0 .. 100 /\ Derivas \subseteq Int /\ Importes \subseteq Nat
    /\ Curvas \subseteq CurveState
BY SimuladorAssumption

\* What a purchase takes from a curve is at most what is left to sell, and
\* what a sale gives is a natural.
LEMMA CotizaLema ==
    ASSUME NEW c \in CurveState, NEW n \in Int
    PROVE  tokens_out_for_sol(c, n) \in Nat /\ sol_out_for_tokens(c, n) \in Nat
<1>1. c.vs \in Nat \ {0} /\ c.vt \in Nat \ {0} /\ c.rt \in Nat
  BY DEF CurveState
<1>2. invariant(c) \in Nat
  BY <1>1, PorLema DEF invariant
<1>3. ASSUME n > 0 PROVE invariant(c) \div (c.vs + n) \in Nat /\ invariant(c) \div (c.vt + n) \in Nat
  <2>1. c.vs + n \in Nat \ {0} /\ c.vt + n \in Nat \ {0}
    BY <1>1, <1>3
  <2> QED
    BY <1>2, <2>1, DivLema
<1> DEFINE q == invariant(c) \div (c.vs + n)
           u == invariant(c) \div (c.vt + n)
<1>4. tokens_out_for_sol(c, n) = IF n <= 0 THEN 0 ELSE Mayor(0, Menor(c.vt - q, c.rt))
  BY DEF tokens_out_for_sol
<1>5. sol_out_for_tokens(c, n) = IF n <= 0 THEN 0 ELSE Mayor(0, c.vs - u)
  BY DEF sol_out_for_tokens
<1>6. n > 0 => q \in Nat /\ u \in Nat
  BY <1>3
<1> HIDE DEF q, u
<1> QED
  BY <1>1, <1>4, <1>5, <1>6 DEF Mayor, Menor

\* The drift leaves a curve.
LEMMA DerivaLema ==
    ASSUME NEW c \in CurveState, NEW azar \in Azar, NEW sentido \in {-1, 1}
    PROVE  CurvaAlLlegar(c, azar, sentido) \in CurveState
<1> DEFINE b == azar.deriva + (IF azar.mev THEN sentido * MEV ELSE 0)
           movida == IF BASIS_POINTS + b <= 0 THEN c.vs \div 100
                     ELSE (c.vs * (BASIS_POINTS + b)) \div BASIS_POINTS
           v == Mayor(1, movida)
<1>1. b \in Int
  <2>1. azar.deriva \in Int /\ MEV \in Nat /\ azar.mev \in BOOLEAN
    BY SimulaLema DEF Azar
  <2>2. sentido * MEV \in Int
    BY <2>1
  <2> QED
    BY <2>1, <2>2
<1> HIDE DEF b
<1>2. movida \in Nat
  <2>1. c.vs \in Nat
    BY DEF CurveState
  <2>2. CASE BASIS_POINTS + b <= 0
    <3>1. movida = c.vs \div 100
      BY <2>2
    <3>2. c.vs \div 100 \in Nat
      BY <2>1, DivLema
    <3> QED
      BY <3>1, <3>2
  <2>3. CASE ~(BASIS_POINTS + b <= 0)
    <3>1. movida = (c.vs * (BASIS_POINTS + b)) \div BASIS_POINTS
      BY <2>3
    <3>2. BASIS_POINTS + b \in Nat /\ BASIS_POINTS \in Nat \ {0}
      BY <1>1, <2>3 DEF BASIS_POINTS
    <3>3. (c.vs * (BASIS_POINTS + b)) \div BASIS_POINTS \in Nat
      BY <2>1, <3>2, PorLema, DivLema
    <3> QED
      BY <3>1, <3>3
  <2> QED
    BY <2>2, <2>3
<1> HIDE DEF movida
<1>3. v \in Nat \ {0}
  BY <1>2 DEF Mayor
<1>4. CurvaAlLlegar(c, azar, sentido) = [c EXCEPT !.vs = v]
  BY DEF CurvaAlLlegar, drifted_curve, b, movida, v
<1> HIDE DEF v
<1> QED
  BY <1>3, <1>4 DEF CurveState

\* A purchase pays at most what was asked and nothing when it fails, and it
\* fills some tokens when it does not.
LEMMA CompraLema ==
    ASSUME NEW c \in CurveState, NEW lamports \in Nat, NEW azar \in Azar
    PROVE  LET r == simulate_buy(c, lamports, azar)
           IN  /\ r \in Rellenos
               /\ r.gasto \in Nat /\ r.gasto <= lamports
               /\ r.estado \in EXITO => r.tokens \in Nat \ {0}
               /\ r.estado \notin EXITO => r.estado \in FRACASO /\ r.gasto = 0
<1> DEFINE l == CurvaAlLlegar(c, azar, 1)
           pedidos == tokens_out_for_sol(l, lamports)
           dados == Menor(pedidos, Disponible(l))
           g == (lamports * dados) \div pedidos
           f == RellenoDeCompra(l, lamports)
           Bien(r) == /\ r \in Rellenos
                      /\ r.gasto \in Nat /\ r.gasto <= lamports
                      /\ r.estado \in EXITO => r.tokens \in Nat \ {0}
                      /\ r.estado \notin EXITO => r.estado \in FRACASO /\ r.gasto = 0
<1>1. l \in CurveState
  BY DerivaLema
<1> HIDE DEF l
<1>2. pedidos \in Nat
  BY <1>1, CotizaLema
<1>3. Disponible(l) \in Nat
  <2>1. l.rt \in Nat /\ 100 - COMPETENCIA \in Nat
    BY <1>1, SimulaLema DEF CurveState
  <2>2. l.rt * (100 - COMPETENCIA) \in Nat
    BY <2>1, PorLema
  <2> QED
    BY <2>2, DivLema DEF Disponible
<1>4. dados \in Nat /\ dados <= pedidos
  BY <1>2, <1>3 DEF Menor
<1>5. ASSUME NEW e \in FRACASO, NEW t \in Nat PROVE Bien(Relleno(e, 0, 0, t))
  BY DEF Relleno, Rellenos, FillStatus, FRACASO, EXITO
<1>6. Bien(f)
  <2>1. CASE dados <= 0
    <3>1. f = Relleno("no_liquidity", 0, 0, TASAS)
      BY <2>1 DEF RellenoDeCompra
    <3> HIDE DEF f, Bien
    <3> QED
      BY <1>5, <3>1, SimulaLema DEF FRACASO
  <2>2. CASE ~(dados <= 0)
    <3> DEFINE e == IF pedidos > dados THEN "partial" ELSE "filled"
    <3>1. f = Relleno(e, g, dados, TASAS)
      BY <2>2 DEF RellenoDeCompra
    <3>2. pedidos \in Nat \ {0} /\ dados \in Nat \ {0}
      BY <1>2, <1>4, <2>2
    <3> HIDE DEF dados, pedidos
    <3>3. g \in Nat /\ g <= lamports
      BY <1>4, <3>2, ParteLema
    <3>4. e \in EXITO /\ e \in FillStatus
      BY DEF EXITO, FillStatus
    <3> HIDE DEF e, g, f
    <3> QED
      BY <3>1, <3>2, <3>3, <3>4, SimulaLema DEF Relleno, Rellenos
  <2> QED
    BY <2>1, <2>2
<1>7. TASAS \in Nat /\ 0 \in Nat
  BY SimulaLema
<1>8. \/ \E e \in FRACASO, t \in Nat : simulate_buy(c, lamports, azar) = Relleno(e, 0, 0, t)
      \/ simulate_buy(c, lamports, azar) = f
  <2> HIDE DEF f
  <2> QED
    BY <1>7, Zenon DEF simulate_buy, FRACASO, l, f
<1> HIDE DEF f, Bien
<1>9. Bien(simulate_buy(c, lamports, azar))
  BY <1>5, <1>6, <1>8
<1> QED
  BY <1>9 DEF Bien

\* A sale that goes through brings in a natural; any other brings nothing.
LEMMA VentaLema ==
    ASSUME NEW c \in CurveState, NEW tokens \in Nat, NEW azar \in Azar, NEW bloqueada \in BOOLEAN
    PROVE  LET r == simulate_sell(c, tokens, azar, bloqueada)
           IN  /\ r.estado \in FillStatus /\ r.tasas \in Nat
               /\ -r.gasto \in Nat /\ r.gasto \in Int
               /\ r.estado \notin EXITO => r.gasto = 0
<1> DEFINE i == sol_out_for_tokens(CurvaAlLlegar(c, azar, -1), tokens)
<1>1. i \in Nat
  <2>1. -1 \in {-1, 1}
    OBVIOUS
  <2>2. CurvaAlLlegar(c, azar, -1) \in CurveState
    BY <2>1, DerivaLema, Zenon
  <2>3. tokens \in Int
    OBVIOUS
  <2> QED
    BY <2>2, <2>3, CotizaLema, Zenon
<1>2. TASAS \in Nat
  BY SimulaLema
<1> HIDE DEF i
<1>3. simulate_sell(c, tokens, azar, bloqueada) \in
        {Relleno(e, 0, 0, TASAS) : e \in {"cannot_exit", "quote_expired", "tx_failed", "no_liquidity"}}
          \cup {Relleno("filled", -i, -tokens, TASAS)}
  BY DEF simulate_sell, i
<1> QED
  BY <1>1, <1>2, <1>3 DEF Relleno, EXITO, FillStatus, FRACASO

LEMMA Simulador_Init == InitSimulador => SimuladorInv
BY SimulaLema, EmptySeq
   DEF InitSimulador, SimuladorInv, SimuladorTypeOK, PosicionInv, LibroCuadra, SinApalancamiento,
       SinPosicion, Abierta, FillStatus, EXITO, FRACASO

\* The equity, its peak and the worst fall keep their types.
LEMMA MarcarLema ==
    ASSUME SimuladorTypeOK, NEW c \in Curvas, caja' \in Int, posicion'.tokens \in Nat, Marcar(c)
    PROVE  equidad' \in Int /\ pico' \in Nat /\ peor' \in [caida : Nat, pico : Nat]
<1> DEFINE valor == caja' + sol_out_for_tokens(c, posicion'.tokens)
           cima == Mayor(pico, valor)
<1>1. valor \in Int
  BY CotizaLema, SimulaLema
<1>2. /\ equidad' = valor /\ pico' = cima
      /\ peor' \in {peor, [caida |-> cima - valor, pico |-> cima]}
  BY DEF Marcar
<1> HIDE DEF valor
<1>3. pico \in Nat /\ peor \in [caida : Nat, pico : Nat]
  BY DEF SimuladorTypeOK
<1>4. cima \in Nat /\ cima - valor \in Nat
  BY <1>1, <1>3 DEF Mayor
<1> HIDE DEF cima
<1> QED
  BY <1>1, <1>2, <1>3, <1>4

Puestos == [tokens : Nat, coste : Nat, tasas : Nat, desde : 0 .. MaxEventos]
Operaciones == [coste : Nat, ingreso : Nat, tasas : Nat, entrada : FillStatus, salida : FillStatus]

\* An event in which nothing is ordered.
LEMMA Esperar_Inv ==
    ASSUME SimuladorInv, NEW c \in Curvas, Esperar(c), curva' = c,
           evento' \in 0 .. MaxEventos
    PROVE  SimuladorInv'
<1> USE DEF SimuladorInv
<1>1. UNCHANGED <<caja, posicion, entrada, operaciones, fallos, intentos, atascadas,
                  neto, perdidas, pagadas, compras>>
  BY DEF Esperar, cuenta, fantasmas
<1>2. caja' \in Int /\ posicion'.tokens \in Nat
  BY <1>1 DEF SimuladorTypeOK
<1>3. equidad' \in Int /\ pico' \in Nat /\ peor' \in [caida : Nat, pico : Nat]
  BY <1>2, MarcarLema DEF Esperar
<1>4. SimuladorTypeOK'
  BY <1>1, <1>3 DEF SimuladorTypeOK
<1> QED
  BY <1>1, <1>4 DEF PosicionInv, LibroCuadra, SinApalancamiento, Abierta

\* A purchase: what it spends was in the cash.
LEMMA Comprar_Inv ==
    ASSUME SimuladorInv, NEW c \in Curvas, Comprar(c), curva' = c,
           evento \in 0 .. MaxEventos, evento < MaxEventos, evento' = evento + 1
    PROVE  SimuladorInv'
<1> DEFINE Hecho(n, r) ==
             /\ n > 0 /\ n <= caja
             /\ intentos' = intentos + 1
             /\ caja' = caja - r.gasto - r.tasas
             /\ entrada' = r.estado
             /\ pagadas' = pagadas + r.tasas
             /\ IF r.estado \in EXITO
                THEN /\ posicion' = [tokens |-> r.tokens, coste |-> r.gasto,
                                     tasas |-> r.tasas, desde |-> evento + 1]
                     /\ UNCHANGED <<fallos, perdidas, compras>>
                ELSE /\ fallos' = Contado(r.estado)
                     /\ perdidas' = perdidas + r.tasas
                     /\ compras' = compras + 1
                     /\ UNCHANGED posicion
<1>1. PICK n \in Importes, azar \in Azar : Hecho(n, simulate_buy(c, n, azar))
  BY DEF Comprar
<1> DEFINE r == simulate_buy(c, n, azar)
<1>2. /\ n \in Nat /\ c \in CurveState
  BY SimulaLema
<1>3. /\ r \in Rellenos /\ r.gasto \in Nat /\ r.gasto <= n
      /\ r.estado \in EXITO => r.tokens \in Nat \ {0}
      /\ r.estado \notin EXITO => r.estado \in FRACASO /\ r.gasto = 0
  BY <1>2, CompraLema
<1> HIDE DEF r
<1>4. /\ r.estado \in FillStatus /\ r.tasas \in Nat
  BY <1>3 DEF Rellenos
<1>5. /\ n > 0 /\ n <= caja /\ intentos' = intentos + 1 /\ caja' = caja - r.gasto - r.tasas
      /\ entrada' = r.estado /\ pagadas' = pagadas + r.tasas
      /\ UNCHANGED <<operaciones, atascadas, neto>> /\ Marcar(c) /\ ~Abierta
  BY <1>1 DEF r, Comprar
<1>6. \/ /\ r.estado \in EXITO
         /\ posicion' = [tokens |-> r.tokens, coste |-> r.gasto, tasas |-> r.tasas, desde |-> evento + 1]
         /\ UNCHANGED <<fallos, perdidas, compras>>
      \/ /\ r.estado \in FRACASO /\ r.gasto = 0
         /\ fallos' = Contado(r.estado)
         /\ perdidas' = perdidas + r.tasas
         /\ compras' = compras + 1
         /\ UNCHANGED posicion
  BY <1>1, <1>3 DEF r
<1>7. /\ SimuladorTypeOK /\ PosicionInv /\ LibroCuadra /\ SinApalancamiento
      /\ caja \in Int /\ neto \in Int /\ perdidas \in Nat /\ pagadas \in Nat /\ compras \in Nat /\ intentos \in Nat
      /\ posicion \in Puestos /\ fallos \in [FRACASO -> Nat] /\ posicion.tokens \in Nat
      /\ operaciones \in Seq(Operaciones)
  BY DEF SimuladorInv, SimuladorTypeOK, Puestos, Operaciones
<1>8. posicion.tokens = 0 /\ posicion.coste = 0 /\ posicion.tasas = 0
  BY <1>5, <1>7 DEF Abierta, PosicionInv
<1>9. evento' \in 0 .. MaxEventos
  BY SimulaLema
<1>10. /\ posicion' \in Puestos /\ fallos' \in [FRACASO -> Nat] /\ perdidas' \in Nat /\ compras' \in Nat
  <2>1. CASE r.estado \in EXITO
    <3>1. r.estado \notin FRACASO
      BY <2>1 DEF EXITO, FRACASO
    <3>2. /\ posicion' = [tokens |-> r.tokens, coste |-> r.gasto, tasas |-> r.tasas, desde |-> evento + 1]
          /\ UNCHANGED <<fallos, perdidas, compras>>
      BY <1>6, <3>1
    <3>3. r.tokens \in Nat /\ evento + 1 \in 0 .. MaxEventos
      BY <1>3, <1>9, <2>1
    <3>4. posicion' \in Puestos
      BY <1>3, <1>4, <3>2, <3>3 DEF Puestos
    <3> QED
      BY <1>7, <3>2, <3>4
  <2>2. CASE r.estado \in FRACASO
    <3>1. r.estado \notin EXITO
      BY <2>2 DEF EXITO, FRACASO
    <3> QED
      BY <1>4, <1>6, <1>7, <2>2, <3>1 DEF Contado
  <2> QED
    BY <1>6, <2>1, <2>2
<1> DEFINE g == r.gasto
           f == r.tasas
<1>10a. /\ g \in Nat /\ g <= n /\ f \in Nat /\ caja' = caja - g - f /\ pagadas' = pagadas + f
        /\ (r.estado \in FRACASO => g = 0)
  <2>1. r.estado \in FRACASO => r.estado \notin EXITO
    BY DEF FRACASO, EXITO
  <2> QED
    BY <1>3, <1>4, <1>5, <2>1
<1> HIDE DEF g, f
<1>11. caja' \in Int /\ pagadas' \in Nat /\ intentos' \in Nat
  BY <1>5, <1>7, <1>10a
<1>12. equidad' \in Int /\ pico' \in Nat /\ peor' \in [caida : Nat, pico : Nat]
  <2>1. posicion'.tokens \in Nat
    BY <1>10 DEF Puestos
  <2> QED
    BY <1>5, <1>7, <1>11, <2>1, MarcarLema
<1>13. SimuladorTypeOK'
  BY <1>4, <1>5, <1>7, <1>9, <1>10, <1>11, <1>12 DEF SimuladorTypeOK, Puestos, Operaciones
<1>14. PosicionInv'
  BY <1>3, <1>6, <1>8 DEF PosicionInv
<1>15. LibroCuadra'
  <2>0. Len(operaciones) \in Nat
    BY <1>7, LenProperties
  <2>1. caja = Capital + neto - perdidas /\ intentos = Len(operaciones) + compras
    BY <1>5, <1>7, <1>8, SimulaLema DEF LibroCuadra
  <2>1a. /\ Capital \in Nat /\ neto \in Int /\ perdidas \in Nat /\ g \in Nat /\ f \in Nat
         /\ caja' = Capital + neto - perdidas - g - f /\ neto' = neto
    <3>1. Capital \in Nat /\ neto \in Int /\ perdidas \in Nat /\ g \in Nat /\ f \in Nat
      BY <1>7, <1>10a, SimulaLema
    <3>2. caja = Capital + neto - perdidas /\ caja' = caja - g - f /\ neto' = neto
      BY <1>5, <1>10a, <2>1
    <3> QED
      BY <3>1, <3>2
  <2>2. CASE r.estado \in EXITO
    <3>0. r.estado \notin FRACASO
      BY <2>2 DEF EXITO, FRACASO
    <3>1. posicion'.coste = g /\ posicion'.tasas = f /\ posicion'.tokens = r.tokens
          /\ perdidas' = perdidas /\ compras' = compras
      BY <1>6, <3>0 DEF g, f
    <3>2. Abierta'
      BY <1>3, <2>2, <3>1 DEF Abierta
    <3>3. caja' = Capital + neto' - perdidas' - g - f
      BY <2>1a, <3>1
    <3>4. intentos' = Len(operaciones') + compras' + 1
      BY <1>5, <1>7, <2>0, <2>1, <3>1
    <3> QED
      BY <3>1, <3>2, <3>3, <3>4 DEF LibroCuadra
  <2>3. CASE r.estado \in FRACASO
    <3>0. r.estado \notin EXITO
      BY <2>3 DEF EXITO, FRACASO
    <3>1. posicion' = posicion /\ perdidas' = perdidas + f /\ compras' = compras + 1 /\ g = 0
      BY <1>6, <3>0 DEF g, f
    <3>2. ~Abierta'
      BY <1>8, <3>1 DEF Abierta
    <3>3. caja' = Capital + neto' - perdidas' - 0 - 0
      BY <2>1a, <3>1
    <3>4. intentos' = Len(operaciones') + compras' + 0
      BY <1>5, <1>7, <2>0, <2>1, <3>1
    <3> QED
      BY <1>8, <3>1, <3>2, <3>3, <3>4 DEF LibroCuadra
  <2> QED
    BY <1>6, <2>2, <2>3
<1>16. SinApalancamiento'
  <2>1. caja' + pagadas' >= 0
    BY <1>2, <1>5, <1>7, <1>10a
  <2> QED
    BY <2>1 DEF SinApalancamiento
<1> QED
  BY <1>13, <1>14, <1>15, <1>16 DEF SimuladorInv

\* A sale: what it brings in is added, and its fee is taken, once.
LEMMA Vender_Inv ==
    ASSUME SimuladorInv, NEW c \in Curvas, Vender(c), curva' = c,
           evento' \in 0 .. MaxEventos
    PROVE  SimuladorInv'
<1>1. PICK azar \in Azar, bloqueada \in BOOLEAN :
          LET r == simulate_sell(c, posicion.tokens, azar, bloqueada)
          IN  /\ caja' = TrasVender(r)
              /\ pagadas' = pagadas + r.tasas
              /\ \/ /\ r.estado \in EXITO
                    /\ Cerrar(-r.gasto, r)
                    /\ UNCHANGED <<fallos, atascadas, perdidas>>
                 \/ /\ r.estado = "cannot_exit"
                    /\ Cerrar(0, r)
                    /\ atascadas' = atascadas + 1
                    /\ UNCHANGED <<fallos, perdidas>>
                 \/ /\ r.estado \in FRACASO
                    /\ fallos' = Contado(r.estado)
                    /\ perdidas' = perdidas + r.tasas
                    /\ UNCHANGED <<operaciones, neto, posicion, atascadas>>
  BY DEF Vender
<1> DEFINE r == simulate_sell(c, posicion.tokens, azar, bloqueada)
<1>2. /\ SimuladorTypeOK /\ PosicionInv /\ LibroCuadra /\ SinApalancamiento
      /\ caja \in Int /\ neto \in Int /\ perdidas \in Nat /\ pagadas \in Nat /\ compras \in Nat /\ intentos \in Nat
      /\ posicion \in Puestos /\ fallos \in [FRACASO -> Nat] /\ operaciones \in Seq(Operaciones)
      /\ posicion.tokens \in Nat /\ posicion.coste \in Nat /\ posicion.tasas \in Nat
      /\ entrada \in FillStatus /\ atascadas \in Nat /\ Capital \in Nat
  BY SimulaLema DEF SimuladorInv, SimuladorTypeOK, Puestos, Operaciones
<1>3. /\ r.estado \in FillStatus /\ r.tasas \in Nat /\ -r.gasto \in Nat /\ r.gasto \in Int
      /\ r.estado \notin EXITO => r.gasto = 0
  BY <1>2, VentaLema, SimulaLema
<1>4. /\ caja' = caja - r.gasto - r.tasas /\ pagadas' = pagadas + r.tasas
      /\ UNCHANGED <<entrada, intentos, compras>> /\ Marcar(c) /\ Abierta
  BY <1>1 DEF TrasVender, Vender
<1>5. \/ /\ Cerrar(-r.gasto, r)
         /\ UNCHANGED <<fallos, perdidas>>
         /\ atascadas' \in {atascadas, atascadas + 1}
      \/ /\ r.estado \in FRACASO
         /\ fallos' = Contado(r.estado)
         /\ perdidas' = perdidas + r.tasas
         /\ r.gasto = 0
         /\ UNCHANGED <<operaciones, neto, posicion, atascadas>>
  <2>1. r.estado = "cannot_exit" \/ r.estado \in FRACASO => r.estado \notin EXITO
    BY DEF EXITO, FRACASO
  <2>2. \/ r.estado \in EXITO /\ Cerrar(-r.gasto, r) /\ UNCHANGED <<fallos, atascadas, perdidas>>
        \/ r.estado = "cannot_exit" /\ Cerrar(0, r) /\ atascadas' = atascadas + 1 /\ UNCHANGED <<fallos, perdidas>>
        \/ r.estado \in FRACASO /\ fallos' = Contado(r.estado) /\ perdidas' = perdidas + r.tasas
           /\ UNCHANGED <<operaciones, neto, posicion, atascadas>>
    BY <1>1
  <2> HIDE DEF r
  <2>3. CASE r.estado \in EXITO /\ Cerrar(-r.gasto, r) /\ UNCHANGED <<fallos, atascadas, perdidas>>
    BY <2>3
  <2>4. CASE r.estado = "cannot_exit" /\ Cerrar(0, r) /\ atascadas' = atascadas + 1 /\ UNCHANGED <<fallos, perdidas>>
    <3>1. r.gasto = 0
      BY <1>3, <2>1, <2>4
    <3>2. -r.gasto = 0 - r.gasto
      BY <1>3, MenosLema, Zenon
    <3>3. 0 - r.gasto = 0
      BY <3>1
    <3>4. -r.gasto = 0
      BY <3>2, <3>3, Zenon
    <3> QED
      BY <2>4, <3>4
  <2> QED
    BY <1>3, <2>1, <2>2, <2>3, <2>4
<1> HIDE DEF r
<1> DEFINE g == r.gasto
           f == r.tasas
           pc == posicion.coste
           pt == posicion.tasas
<1>5a. /\ g \in Int /\ f \in Nat /\ 0 - g \in Nat /\ pc \in Nat /\ pt \in Nat
       /\ caja' = caja - g - f /\ pagadas' = pagadas + f
  <2>1. r.gasto \in Int /\ -r.gasto \in Nat => 0 - r.gasto \in Nat
    OBVIOUS
  <2> QED
    BY <1>2, <1>3, <1>4, <2>1
<1>5b. caja = Capital + neto - perdidas - pc - pt
  BY <1>2 DEF LibroCuadra
<1> HIDE DEF g, f, pc, pt
<1>6. caja' \in Int /\ pagadas' \in Nat
  BY <1>2, <1>5a
<1>7. SinApalancamiento'
  <2>1. caja + pagadas >= 0
    BY <1>2 DEF SinApalancamiento
  <2>2. caja' + pagadas' >= 0
    BY <1>2, <1>5a, <2>1
  <2> QED
    BY <2>2 DEF SinApalancamiento
<1>8. CASE Cerrar(-r.gasto, r) /\ UNCHANGED <<fallos, perdidas>> /\ atascadas' \in {atascadas, atascadas + 1}
  <2> DEFINE o == Operacion(-r.gasto, r)
  <2>1. operaciones' = Append(operaciones, o) /\ neto' = neto + net_pnl(o) /\ posicion' = SinPosicion
    BY <1>8 DEF Cerrar
  <2>2. o \in Operaciones
    BY <1>2, <1>3 DEF Operacion, Operaciones
  <2>3. net_pnl(o) = -g - pc - (pt + f)
    BY DEF net_pnl, Operacion, g, pc, pt, f
  <2> HIDE DEF o
  <2>4. operaciones' \in Seq(Operaciones) /\ Len(operaciones') = Len(operaciones) + 1
    BY <1>2, <2>1, <2>2, AppendProperties
  <2>5. posicion' \in Puestos /\ posicion'.tokens = 0 /\ posicion'.coste = 0 /\ posicion'.tasas = 0
    BY <2>1, SimulaLema DEF SinPosicion, Puestos
  <2>6. neto' = neto - g - pc - pt - f /\ neto' \in Int
    BY <1>2, <1>5a, <2>1, <2>3
  <2>7. equidad' \in Int /\ pico' \in Nat /\ peor' \in [caida : Nat, pico : Nat]
    BY <1>2, <1>4, <1>6, <2>5, MarcarLema
  <2>8. atascadas' \in Nat
    BY <1>2, <1>8
  <2>9. SimuladorTypeOK'
    BY <1>2, <1>4, <1>6, <1>8, <2>4, <2>5, <2>6, <2>7, <2>8 DEF SimuladorTypeOK, Puestos, Operaciones
  <2>10. LibroCuadra'
    <3>1. Len(operaciones) \in Nat
      BY <1>2, LenProperties
    <3>2. intentos = Len(operaciones) + compras + 1
      BY <1>2, <1>4 DEF LibroCuadra
    <3>3. ~Abierta'
      BY <2>5 DEF Abierta
    <3>4. caja' = Capital + neto' - perdidas' - 0 - 0
      BY <1>2, <1>5a, <1>5b, <1>8, <2>6
    <3>5. intentos' = Len(operaciones') + compras' + 0
      BY <1>2, <1>4, <2>4, <3>1, <3>2
    <3> QED
      BY <2>5, <3>3, <3>4, <3>5 DEF LibroCuadra
  <2>11. PosicionInv'
    BY <2>5 DEF PosicionInv
  <2> QED
    BY <1>7, <2>9, <2>10, <2>11 DEF SimuladorInv
<1>9. CASE /\ r.estado \in FRACASO /\ fallos' = Contado(r.estado) /\ perdidas' = perdidas + r.tasas
           /\ r.gasto = 0 /\ UNCHANGED <<operaciones, neto, posicion, atascadas>>
  <2>1. fallos' \in [FRACASO -> Nat] /\ perdidas' \in Nat
    BY <1>2, <1>3, <1>9 DEF Contado
  <2>2. equidad' \in Int /\ pico' \in Nat /\ peor' \in [caida : Nat, pico : Nat]
    BY <1>2, <1>4, <1>6, <1>9, MarcarLema
  <2>3. SimuladorTypeOK'
    BY <1>2, <1>4, <1>6, <1>9, <2>1, <2>2 DEF SimuladorTypeOK
  <2>4. LibroCuadra'
    <3>1. g = 0 /\ perdidas' = perdidas + f /\ neto' = neto
      BY <1>9 DEF g, f
    <3>2. caja' = Capital + neto' - perdidas' - pc - pt
      BY <1>2, <1>5a, <1>5b, <3>1
    <3> QED
      BY <1>2, <1>4, <1>9, <3>2 DEF LibroCuadra, Abierta, pc, pt
  <2>5. PosicionInv'
    BY <1>2, <1>9 DEF PosicionInv
  <2> QED
    BY <1>7, <2>3, <2>4, <2>5 DEF SimuladorInv
<1> QED
  BY <1>5, <1>8, <1>9

LEMMA Simulador_Step == SimuladorInv /\ [Evento]_varsSimulador => SimuladorInv'
<1> SUFFICES ASSUME SimuladorInv, [Evento]_varsSimulador PROVE SimuladorInv'
  OBVIOUS
<1>1. CASE Evento
  <2>1. evento \in 0 .. MaxEventos /\ evento < MaxEventos /\ evento' = evento + 1 /\ evento' \in 0 .. MaxEventos
    <3>1. evento < MaxEventos /\ evento' = evento + 1
      BY <1>1 DEF Evento
    <3>2. evento \in 0 .. MaxEventos
      BY DEF SimuladorInv, SimuladorTypeOK
    <3>3. evento + 1 \in 0 .. MaxEventos
      BY <3>1, <3>2, SimulaLema
    <3> QED
      BY <3>1, <3>2, <3>3
  <2>2. PICK c \in Curvas : curva' = c /\ (Esperar(c) \/ Comprar(c) \/ Vender(c))
    BY <1>1 DEF Evento
  <2> QED
    BY <2>1, <2>2, Esperar_Inv, Comprar_Inv, Vender_Inv
<1>2. CASE UNCHANGED varsSimulador
  BY <1>2 DEF varsSimulador, cuenta, fantasmas, SimuladorInv, SimuladorTypeOK, PosicionInv, LibroCuadra,
             SinApalancamiento, Abierta
<1> QED
  BY <1>1, <1>2

LEMMA Simulador_Inv == SpecSimulador => []SimuladorInv
BY Simulador_Init, Simulador_Step, PTL DEF SpecSimulador

\* Every variable of the simulator keeps its type.
THEOREM Simulador_TypeOK == SpecSimulador => []SimuladorTypeOK
<1>1. SimuladorInv => SimuladorTypeOK
  BY DEF SimuladorInv
<1> QED
  BY <1>1, Simulador_Inv, PTL

\* The books balance after every event, for any strategy and any chance.
THEOREM Simulador_LibroCuadra == SpecSimulador => []LibroCuadra
<1>1. SimuladorInv => LibroCuadra
  BY DEF SimuladorInv
<1> QED
  BY <1>1, Simulador_Inv, PTL

\* The cash lacks at most the fees that were paid.
THEOREM Simulador_SinApalancamiento == SpecSimulador => []SinApalancamiento
<1>1. SimuladorInv => SinApalancamiento
  BY DEF SimuladorInv
<1> QED
  BY <1>1, Simulador_Inv, PTL

\* On any curve, the tokens a purchase gives are worth, sold back at once, at
\* most a unit of token and a lamport more than they cost.
LEMMA VueltaLema ==
    ASSUME NEW c \in CurveState, c.rt < c.vt, NEW l \in Nat \ {0}
    PROVE  (Vuelta(c, l) - 1) * c.vt < c.vs + l
<1> DEFINE a == c.vs
           b == c.vt
           k == a * b
           q == k \div (a + l)
           t == tokens_out_for_sol(c, l)
           d == TrasComprar(c, l)
           m == (a + l) * (b - t)
<1>1. a \in Nat \ {0} /\ b \in Nat \ {0} /\ c.rt \in Nat /\ c.rt < b /\ l \in Nat \ {0}
  BY DEF CurveState
<1>2. k \in Nat /\ a + l \in Nat \ {0}
  BY <1>1, PorLema
<1>3. q \in Nat /\ (a + l) * q <= k /\ k < (a + l) * q + (a + l)
  <2> HIDE DEF k
  <2> QED
    BY <1>2, DivLema
<1>4. t = Mayor(0, Menor(b - q, c.rt))
  BY <1>1 DEF tokens_out_for_sol, invariant
<1> HIDE DEF k, q
<1>5. q <= b
  <2>1. (a + l) * q <= (a + l) * b
    <3>1. a * b <= (a + l) * b
      <4>1. b * a <= b * (a + l)
        BY <1>1, <1>2, CreceLema
      <4>2. b * a = a * b /\ b * (a + l) = (a + l) * b
        BY <1>1, <1>2
      <4> QED
        BY <4>1, <4>2
    <3>2. a * b \in Nat /\ (a + l) * b \in Nat /\ (a + l) * q \in Nat
      BY <1>1, <1>2, <1>3, PorLema
    <3> QED
      BY <1>3, <3>1, <3>2 DEF k
  <2> HIDE DEF a, b
  <2> QED
    BY <1>1, <1>2, <1>3, <2>1, QuitaLema
<1>6. t \in Nat /\ t <= b - q /\ t < b
  BY <1>1, <1>3, <1>4, <1>5 DEF Mayor, Menor
<1> HIDE DEF t
<1>7. d.vs = a + l /\ d.vt = b - t
  BY DEF TrasComprar, CurveState, t
<1>8. (d.vt + t) = b
  BY <1>1, <1>6, <1>7
<1>9. invariant(d) = m
  BY <1>7 DEF invariant
<1>10. Vuelta(c, l) = sol_out_for_tokens(d, t) - l
  BY DEF Vuelta, t
<1>11. m \in Nat /\ b - t \in Nat
  BY <1>1, <1>2, <1>6, PorLema
<1> HIDE DEF d
<1>12. CASE t = 0
  <2>1. Vuelta(c, l) = 0 - l
    BY <1>10, <1>12 DEF sol_out_for_tokens
  <2>2. (0 - l - 1) * b <= 0
    <3>1. b * (0 - l - 1) <= b * 0
      BY <1>1, CreceLema
    <3>2. b * (0 - l - 1) = (0 - l - 1) * b
      BY <1>1
    <3> QED
      BY <1>1, <3>1, <3>2
  <2> QED
    BY <1>1, <2>1, <2>2
<1>13. CASE t # 0
  <2> DEFINE u == invariant(d) \div (d.vt + t)
             v == d.vs - u
  <2>1. u \in Nat /\ b * u <= m /\ m < b * u + b
    <3> HIDE DEF m
    <3> QED
      BY <1>1, <1>8, <1>9, <1>11, DivLema
  <2>2. sol_out_for_tokens(d, t) = Mayor(0, v) /\ v = a + l - u
    <3>1. ~(t <= 0)
      BY <1>6, <1>13
    <3> HIDE DEF u
    <3>2. v = a + l - u
      BY <1>1, <1>7, <2>1
    <3> QED
      BY <3>1, <3>2 DEF sol_out_for_tokens, u
  <2> HIDE DEF u
  \* (a + l)(b - t) > a b - (a + l), and b u > (a + l)(b - t) - b.
  <2>3. b * u + b > m /\ m >= (a + l) * q
    <3>1. (a + l) * q <= (a + l) * (b - t)
      BY <1>1, <1>2, <1>3, <1>6, CreceLema
    <3>2. (a + l) * q \in Nat
      BY <1>2, <1>3, PorLema
    <3> QED
      BY <1>1, <1>11, <2>1, <3>1, <3>2
  <2>4. b * u + b + a + l > k
    <3>1. (a + l) * q \in Nat /\ b * u \in Nat
      BY <1>1, <1>2, <1>3, <2>1, PorLema
    <3> HIDE DEF m
    <3> QED
      BY <1>1, <1>2, <1>3, <1>11, <2>3, <3>1
  <2>5. (a - u - 1) * b < a + l
    <3>1. (a - u - 1) * b = a * b - b * u - b
      BY <1>1, <2>1
    <3>2. a * b \in Nat /\ b * u \in Nat
      BY <1>1, <2>1, PorLema
    <3> QED
      BY <1>1, <2>4, <3>1, <3>2 DEF k
  <2>6. CASE v > 0
    <3>1. Vuelta(c, l) = a - u
      BY <1>1, <1>10, <2>1, <2>2, <2>6 DEF Mayor
    <3> QED
      BY <2>5, <3>1
  <2>7. CASE ~(v > 0)
    <3>1. Vuelta(c, l) = 0 - l
      BY <1>1, <1>10, <2>1, <2>2, <2>7 DEF Mayor
    <3>2. (0 - l - 1) * b <= 0
      <4>1. b * (0 - l - 1) <= b * 0
        BY <1>1, CreceLema
      <4>2. b * (0 - l - 1) = (0 - l - 1) * b
        BY <1>1
      <4> QED
        BY <1>1, <4>1, <4>2
    <3> QED
      BY <1>1, <3>1, <3>2
  <2> QED
    BY <2>6, <2>7
<1> QED
  BY <1>12, <1>13

\* Buying and selling back at once gains at most what the rounding gives.
THEOREM Simulador_IdaYVueltaAcotada == SpecSimulador => []IdaYVueltaAcotada
<1>1. SimuladorInv => IdaYVueltaAcotada
  <2> SUFFICES ASSUME SimuladorInv, NEW l \in Importes, l > 0
               PROVE  (Vuelta(curva, l) - 1) * curva.vt < curva.vs + l
    BY DEF IdaYVueltaAcotada
  <2>1. curva \in CurveState /\ curva.rt < curva.vt /\ l \in Nat \ {0}
    BY SimuladorAssumption DEF SimuladorInv, SimuladorTypeOK
  <2> QED
    BY <2>1, VueltaLema
<1> QED
  BY <1>1, Simulador_Inv, PTL

-----------------------------------------------------------------------------
(* The metrics of a run                                                    *)

Netos(ops) == [i \in DOMAIN ops |-> net_pnl(ops[i])]

\* What the run counts as its net result is the sum over the closed trades.
NetoInv == neto = SumFunction(Netos(operaciones))

\* The places of a sequence.
LEMMA CuentaLema ==
    ASSUME NEW n \in Nat
    PROVE  IsFiniteSet(1 .. n) /\ IsFiniteSet(0 .. n) /\ Cardinality(1 .. n) = n
<1>1. 0 \in Int /\ 1 \in Int /\ n \in Int
  OBVIOUS
<1>2. IsFiniteSet(1 .. n) /\ IsFiniteSet(0 .. n)
  BY <1>1, FS_Interval
<1>3. Cardinality(1 .. n) = IF 1 > n THEN 0 ELSE n - 1 + 1
  BY <1>1, FS_Interval
<1> QED
  BY <1>2, <1>3

\* The numbers of a trade.
LEMMA OperacionLema ==
    ASSUME NEW ops \in Seq(Operaciones)
    PROVE  /\ Len(ops) \in Nat /\ DOMAIN ops = 1 .. Len(ops) /\ IsFiniteSet(DOMAIN ops)
           /\ \A i \in DOMAIN ops : net_pnl(ops[i]) \in Int
           /\ Netos(ops) \in [1 .. Len(ops) -> Int]
<1>1. Len(ops) \in Nat /\ DOMAIN ops = 1 .. Len(ops)
  BY LenProperties
<1>2. IsFiniteSet(DOMAIN ops)
  BY <1>1, FS_Interval
<1>3. \A i \in DOMAIN ops : net_pnl(ops[i]) \in Int
  <2> TAKE i \in DOMAIN ops
  <2>1. ops[i] \in Operaciones
    BY ElementOfSeq, <1>1
  <2> QED
    BY <2>1 DEF net_pnl, Operaciones
<1>4. Netos(ops) \in [1 .. Len(ops) -> Int]
  BY <1>1, <1>3 DEF Netos
<1> QED
  BY <1>1, <1>2, <1>3, <1>4

\* A trade more adds its result.
LEMMA NetoLema ==
    ASSUME NEW ops \in Seq(Operaciones), NEW o \in Operaciones
    PROVE  SumFunction(Netos(Append(ops, o))) = SumFunction(Netos(ops)) + net_pnl(o)
<1> DEFINE n == Len(ops)
           f == Netos(Append(ops, o))
<1>1. n \in Nat /\ DOMAIN ops = 1 .. n
  BY OperacionLema
<1>2. /\ Append(ops, o) \in Seq(Operaciones) /\ Len(Append(ops, o)) = n + 1
      /\ \A i \in 1 .. n : Append(ops, o)[i] = ops[i]
      /\ Append(ops, o)[n + 1] = o
  BY AppendProperties
<1>3. f \in [1 .. n + 1 -> Int]
  BY <1>2, OperacionLema
<1>4. DOMAIN Append(ops, o) = 1 .. n + 1
  BY <1>2, OperacionLema
<1>5. f[n + 1] = net_pnl(o)
  BY <1>1, <1>2, <1>4 DEF Netos
<1>6. [i \in 1 .. n |-> f[i]] = Netos(ops)
  BY <1>1, <1>2, <1>4 DEF Netos
<1> HIDE DEF n, f
<1>7. SumFunction(f) = SumFunction([i \in 1 .. n |-> f[i]]) + f[n + 1]
  BY <1>1, <1>3, UltimoLema
<1>8. SumFunction(f) = SumFunction(Netos(ops)) + net_pnl(o)
  BY <1>5, <1>6, <1>7
<1> QED
  BY <1>8 DEF f

LEMMA Neto_Init == InitSimulador => NetoInv
<1> SUFFICES ASSUME InitSimulador PROVE NetoInv
  OBVIOUS
<1>1. operaciones = << >> /\ neto = 0
  BY DEF InitSimulador
<1>2. << >> \in Seq(Operaciones) /\ Len(<< >>) = 0
  BY EmptySeq
<1> DEFINE f == Netos(<< >>)
<1>3. f \in [{} -> Int] /\ IsFiniteSet({})
  <2>1. Netos(<< >>) \in [1 .. Len(<< >>) -> Int]
    BY <1>2, OperacionLema
  <2>2. 1 .. 0 = {}
    OBVIOUS
  <2> QED
    BY <1>2, <2>1, <2>2, FS_EmptySet
<1> HIDE DEF f
<1>4. SumFunction(f) = 0
  BY <1>3, SumaLema
<1> QED
  BY <1>1, <1>4 DEF NetoInv, f

LEMMA Neto_Step == SimuladorInv /\ NetoInv /\ [Evento]_varsSimulador => NetoInv'
<1> SUFFICES ASSUME SimuladorInv, NetoInv, [Evento]_varsSimulador PROVE NetoInv'
  OBVIOUS
<1>1. SimuladorInv'
  BY Simulador_Step
<1>2. operaciones \in Seq(Operaciones) /\ operaciones' \in Seq(Operaciones)
  BY <1>1 DEF SimuladorInv, SimuladorTypeOK, Operaciones
<1>3. CASE UNCHANGED <<operaciones, neto>>
  BY <1>3 DEF NetoInv
<1>4. CASE \E ingreso, r : Cerrar(ingreso, r)
  <2>1. PICK o : operaciones' = Append(operaciones, o) /\ neto' = neto + net_pnl(o)
    BY <1>4 DEF Cerrar
  <2>2. o \in Operaciones
    <3>1. Len(operaciones') = Len(operaciones) + 1 /\ operaciones'[Len(operaciones) + 1] = o
      BY <1>2, <2>1, AppendProperties
    <3>2. Len(operaciones) + 1 \in 1 .. Len(operaciones')
      BY <1>2, <3>1, LenProperties
    <3> QED
      BY <1>2, <3>1, <3>2, ElementOfSeq
  <2>3. SumFunction(Netos(operaciones')) = SumFunction(Netos(operaciones)) + net_pnl(o)
    BY <1>2, <2>1, <2>2, NetoLema
  <2> QED
    BY <2>1, <2>3 DEF NetoInv
<1>5. UNCHANGED <<operaciones, neto>> \/ \E ingreso, r : Cerrar(ingreso, r)
  <2>1. CASE Evento
    <3>1. PICK c \in Curvas : Esperar(c) \/ Comprar(c) \/ Vender(c)
      BY <2>1 DEF Evento
    <3>2. CASE Esperar(c)
      BY <3>2 DEF Esperar, cuenta, fantasmas
    <3>3. CASE Comprar(c)
      BY <3>3 DEF Comprar
    <3>4. CASE Vender(c)
      BY <3>4 DEF Vender
    <3> QED
      BY <3>1, <3>2, <3>3, <3>4
  <2>2. CASE UNCHANGED varsSimulador
    BY <2>2 DEF varsSimulador, cuenta, fantasmas
  <2> QED
    BY <2>1, <2>2
<1> QED
  BY <1>3, <1>4, <1>5

\* The counter of losses in a row counts back to the last trade that was none.
LEMMA ContadorLema ==
    ASSUME NEW ops \in Seq(Operaciones), NEW g,
           g = [n \in 0 .. Len(ops) |->
                   IF n = 0 THEN 0 ELSE IF net_pnl(ops[n]) < 0 THEN g[n - 1] + 1 ELSE 0],
           NEW k \in 0 .. Len(ops)
    PROVE  /\ g[k] \in 0 .. k
           /\ \A i \in k - g[k] + 1 .. k : net_pnl(ops[i]) < 0
           /\ k - g[k] # 0 => ~(net_pnl(ops[k - g[k]]) < 0)
<1> DEFINE Vale(m) == /\ g[m] \in 0 .. m
                      /\ \A i \in m - g[m] + 1 .. m : net_pnl(ops[i]) < 0
                      /\ m - g[m] # 0 => ~(net_pnl(ops[m - g[m]]) < 0)
           S == {m \in Nat : m <= Len(ops) => Vale(m)}
<1>1. Len(ops) \in Nat
  BY OperacionLema
<1>2. 0 \in S
  <2>1. g[0] = 0
    BY <1>1
  <2>2. Vale(0)
    BY <2>1
  <2> QED
    BY <2>2
<1>3. ASSUME NEW m \in Nat, m \in S PROVE m + 1 \in S
  <2> SUFFICES ASSUME m + 1 <= Len(ops) PROVE Vale(m + 1)
    OBVIOUS
  <2>1. Vale(m)
    <3> HIDE DEF Vale
    <3>1. m <= Len(ops)
      BY <1>1
    <3> QED
      BY <1>3, <3>1
  <2>2. g[m + 1] = IF net_pnl(ops[m + 1]) < 0 THEN g[m] + 1 ELSE 0
    <3>1. m + 1 \in 0 .. Len(ops) /\ m + 1 # 0 /\ (m + 1) - 1 = m
      BY <1>1
    <3>2. g[m + 1] = IF m + 1 = 0 THEN 0
                     ELSE IF net_pnl(ops[m + 1]) < 0 THEN g[(m + 1) - 1] + 1 ELSE 0
      BY <3>1
    <3> QED
      BY <3>1, <3>2
  <2>3. CASE net_pnl(ops[m + 1]) < 0
    <3>1. g[m + 1] = g[m] + 1 /\ g[m] \in 0 .. m
      BY <2>1, <2>2, <2>3
    <3>2. (m + 1) - g[m + 1] = m - g[m] /\ g[m + 1] \in 0 .. m + 1
      BY <3>1
    <3>3. ASSUME NEW i \in m - g[m] + 1 .. m + 1 PROVE net_pnl(ops[i]) < 0
      <4>1. i = m + 1 \/ i \in m - g[m] + 1 .. m
        BY <3>1
      <4> QED
        BY <2>1, <2>3, <4>1
    <3> QED
      BY <2>1, <3>2, <3>3
  <2>4. CASE ~(net_pnl(ops[m + 1]) < 0)
    <3>1. g[m + 1] = 0 /\ (m + 1) - g[m + 1] = m + 1
      BY <2>2, <2>4
    <3> QED
      BY <2>4, <3>1
  <2> QED
    BY <2>3, <2>4
<1>4. k \in S
  <2> HIDE DEF S
  <2>1. \A m \in Nat : m \in S
    BY <1>2, <1>3, Inducir
  <2> QED
    BY <1>1, <2>1
<1> QED
  BY <1>1, <1>4

\* There is such a counter.
LEMMA HayContador ==
    ASSUME NEW ops \in Seq(Operaciones)
    PROVE  \E g : g = [n \in 0 .. Len(ops) |->
                          IF n = 0 THEN 0 ELSE IF net_pnl(ops[n]) < 0 THEN g[n - 1] + 1 ELSE 0]
<1> DEFINE N == Len(ops)
           Topes(n) == {m \in 0 .. n : m = 0 \/ ~(net_pnl(ops[m]) < 0)}
           f == [n \in 0 .. N |-> n - Max(Topes(n))]
<1>1. N \in Nat
  BY OperacionLema
<1>2. ASSUME NEW n \in 0 .. N
      PROVE  Max(Topes(n)) \in Topes(n) /\ (\A y \in Topes(n) : y <= Max(Topes(n)))
  <2> DEFINE T == Topes(n)
  <2>1. T \in SUBSET (0 .. n) /\ T \in SUBSET Int /\ T # {} /\ IsFiniteSet(0 .. n)
    <3>1. n \in Nat
      BY <1>1
    <3>2. IsFiniteSet(0 .. n)
      BY <3>1, CuentaLema
    <3>3. T \in SUBSET (0 .. n)
      OBVIOUS
    <3>4. T \in SUBSET Int
      BY <3>1
    <3>5. 0 \in T
      BY <3>1
    <3> QED
      BY <3>2, <3>3, <3>4, <3>5
  <2> HIDE DEF T
  <2>2. IsFiniteSet(T)
    BY <2>1, FS_Subset
  <2>3. Max(T) \in T /\ \A y \in T : y <= Max(T)
    BY <2>1, <2>2, MaxLema
  <2> QED
    BY <2>3 DEF T
<1>3. ASSUME NEW n \in 0 .. N
      PROVE  f[n] = IF n = 0 THEN 0 ELSE IF net_pnl(ops[n]) < 0 THEN f[n - 1] + 1 ELSE 0
  <2>1. f[n] = n - Max(Topes(n))
    OBVIOUS
  <2>2. CASE n = 0
    <3>1. Topes(0) = {0}
      OBVIOUS
    <3>2. Max(Topes(0)) = 0
      BY <1>2, <2>2, <3>1
    <3> QED
      BY <2>1, <2>2, <3>2
  <2>3. CASE n # 0 /\ net_pnl(ops[n]) < 0
    <3>1. n - 1 \in 0 .. N /\ Topes(n) = Topes(n - 1)
      BY <1>1, <2>3
    <3>2. f[n - 1] = (n - 1) - Max(Topes(n - 1))
      BY <3>1
    <3>3. Max(Topes(n)) \in Int
      BY <1>2
    <3>4. n - Max(Topes(n)) = ((n - 1) - Max(Topes(n))) + 1
      <4> DEFINE x == Max(Topes(n))
      <4> HIDE DEF x
      <4> QED BY <1>1, <3>3 DEF x
    <3>5. f[n] = f[n - 1] + 1
      BY <2>1, <3>1, <3>2, <3>4
    <3> QED
      BY <2>3, <3>5
  <2>4. CASE n # 0 /\ ~(net_pnl(ops[n]) < 0)
    <3>1. n \in Topes(n)
      BY <2>4
    <3>2. Max(Topes(n)) <= n /\ n <= Max(Topes(n)) /\ Max(Topes(n)) \in Int
      BY <1>2, <3>1
    <3>3. n - Max(Topes(n)) = 0
      <4> DEFINE x == Max(Topes(n))
      <4> HIDE DEF x
      <4> QED BY <1>1, <3>2 DEF x
    <3> QED
      BY <2>1, <2>4, <3>3
  <2> QED
    BY <2>2, <2>3, <2>4
<1>4. DOMAIN f = 0 .. N /\ f = [n \in 0 .. N |-> f[n]]
  OBVIOUS
<1> HIDE DEF f
<1>5. f = [n \in 0 .. N |-> IF n = 0 THEN 0 ELSE IF net_pnl(ops[n]) < 0 THEN f[n - 1] + 1 ELSE 0]
  BY <1>3, <1>4
<1> QED
  BY <1>5

\* The most losses in a row are the longest stretch of the history without
\* anything else.
LEMMA RachasLema ==
    ASSUME operaciones \in Seq(Operaciones)
    PROVE  consecutive_losses(operaciones) = Max({0} \cup {r[2] - r[1] + 1 : r \in Rachas})
<1> DEFINE N == Len(operaciones)
           Es(f) == f = [n \in 0 .. N |->
                            IF n = 0 THEN 0
                            ELSE IF net_pnl(operaciones[n]) < 0 THEN f[n - 1] + 1 ELSE 0]
           g == CHOOSE f : Es(f)
           C == {g[n] : n \in 0 .. N}
           R == {0} \cup {r[2] - r[1] + 1 : r \in Rachas}
<1>1. N \in Nat /\ DOMAIN operaciones = 1 .. N
  BY OperacionLema
<1>2. Es(g)
  <2>1. \E f : Es(f)
    BY HayContador
  <2> QED
    BY <2>1
<1>3. consecutive_losses(operaciones) = Max(C)
  BY DEF consecutive_losses
<1> HIDE DEF g
<1>4. \A k \in 0 .. N : /\ g[k] \in 0 .. k
                        /\ \A i \in k - g[k] + 1 .. k : net_pnl(operaciones[i]) < 0
                        /\ k - g[k] # 0 => ~(net_pnl(operaciones[k - g[k]]) < 0)
  BY <1>2, ContadorLema
<1>5. C \in SUBSET (0 .. N) /\ C # {}
  BY <1>1, <1>4
<1>6. R \in SUBSET (0 .. N) /\ R # {}
  <2>1. ASSUME NEW r \in Rachas PROVE r[2] - r[1] + 1 \in 0 .. N
    <3>1. r[1] \in 1 .. N /\ r[2] \in 1 .. N /\ r[1] <= r[2]
      BY <1>1 DEF Rachas
    <3> QED
      BY <1>1, <3>1
  <2> QED
    BY <1>1, <2>1
<1>7. ASSUME NEW x \in C PROVE x \in R
  <2>1. PICK k \in 0 .. N : x = g[k]
    OBVIOUS
  <2>2. CASE x # 0
    <3> DEFINE r == <<k - x + 1, k>>
    <3>1. /\ k - x + 1 \in 1 .. N /\ k \in 1 .. N /\ k - x + 1 <= k
          /\ k - (k - x + 1) + 1 = x
      BY <1>1, <1>4, <2>1, <2>2
    <3>2. r \in Rachas
      BY <1>1, <1>4, <2>1, <3>1 DEF Rachas
    <3>3. r[2] - r[1] + 1 = x
      BY <3>1
    <3> QED
      BY <3>2, <3>3
  <2> QED
    BY <2>2
<1>8. ASSUME NEW y \in R PROVE \E x \in C : y <= x
  <2>1. CASE y = 0
    BY <1>5, <2>1
  <2>2. CASE y # 0
    <3>1. PICK r \in Rachas : y = r[2] - r[1] + 1
      BY <2>2
    <3> DEFINE a == r[1]
               k == r[2]
    <3>2. /\ a \in 1 .. N /\ k \in 1 .. N /\ a <= k
          /\ \A i \in a .. k : net_pnl(operaciones[i]) < 0
      BY <1>1 DEF Rachas
    <3> HIDE DEF a, k
    <3>3. k \in 0 .. N /\ g[k] \in 0 .. k
      BY <1>4, <3>2
    <3>4. ~(k - g[k] >= a)
      <4> SUFFICES ASSUME k - g[k] >= a PROVE FALSE
        OBVIOUS
      <4>1. k - g[k] \in a .. k /\ k - g[k] # 0
        BY <3>2, <3>3
      <4> QED
        BY <1>4, <3>2, <3>3, <4>1
    <3>5. y <= g[k]
      <4>1. y = k - a + 1
        BY <3>1 DEF a, k
      <4> QED
        BY <3>2, <3>3, <3>4, <4>1
    <3> QED
      BY <3>3, <3>5
  <2> QED
    BY <2>1, <2>2
<1> HIDE DEF C, R
<1>9. IsFiniteSet(C) /\ IsFiniteSet(R) /\ C \in SUBSET Int /\ R \in SUBSET Int
  <2>1. IsFiniteSet(0 .. N) /\ 0 .. N \in SUBSET Int
    BY <1>1, FS_Interval
  <2> QED
    BY <1>5, <1>6, <2>1, FS_Subset
<1>10. /\ Max(C) \in C /\ \A y \in C : y <= Max(C)
       /\ Max(R) \in R /\ \A y \in R : y <= Max(R)
  BY <1>5, <1>6, <1>9, MaxLema
<1>11. Max(C) = Max(R)
  <2>1. Max(C) <= Max(R)
    BY <1>7, <1>10
  <2>2. PICK x \in C : Max(R) <= x
    BY <1>8, <1>10
  <2>3. x <= Max(C) /\ x \in Int /\ Max(C) \in Int /\ Max(R) \in Int
    BY <1>9, <1>10
  <2> QED
    BY <2>1, <2>2, <2>3
<1> QED
  BY <1>3, <1>11 DEF R

\* A percentile is one of the values.
LEMMA PercentilLema ==
    ASSUME NEW v \in Seq(Int), v # << >>, NEW centesimas \in Nat
    PROVE  \E i \in 1 .. Len(v) : percentile(v, centesimas) = v[i]
<1> DEFINE N == Len(v)
           rango == Menor(N - 1, Mayor(0, Redondeo(N, centesimas) - 1))
           I == {i \in 1 .. N : HastaEl(v, i) > rango}
           V == {v[i] : i \in I}
<1>1. N \in Nat \ {0} /\ DOMAIN v = 1 .. N /\ v \in [1 .. N -> Int]
  <2>1. N \in Nat /\ DOMAIN v = 1 .. N
    BY LenProperties
  <2>2. N # 0
    BY EmptySeq
  <2>3. \A i \in 1 .. N : v[i] \in Int
    BY ElementOfSeq
  <2> QED
    BY <2>1, <2>2, <2>3
<1>2. percentile(v, centesimas) = Min(V)
  BY <1>1 DEF percentile
<1>3. rango \in Int /\ rango <= N - 1
  <2> DEFINE p == N * centesimas
             x == Redondeo(N, centesimas)
  <2>1. p \in Nat
    BY <1>1, PorLema
  <2>2. x \in Int
    <3>1. x = IF p % 100 > 50 \/ (p % 100 = 50 /\ (p \div 100) % 2 = 1) THEN p \div 100 + 1 ELSE p \div 100
      BY DEF Redondeo
    <3> HIDE DEF p, x
    <3>2. p \div 100 \in Int
      BY <2>1
    <3> QED
      BY <3>1, <3>2
  <2> HIDE DEF x
  <2>3. Mayor(0, x - 1) \in Int
    BY <2>2 DEF Mayor
  <2> QED
    BY <1>1, <2>3 DEF Menor, x
<1> HIDE DEF rango
<1>4. I # {}
  <2> DEFINE T == {v[i] : i \in 1 .. N}
  <2>1. IsFiniteSet(1 .. N)
    BY <1>1, FS_Interval
  <2>2. IsFiniteSet(T)
    BY <1>1, <2>1, ImagenLema
  <2>3. T \in SUBSET Int /\ T # {}
    BY <1>1
  <2> HIDE DEF T
  <2>4. Max(T) \in T /\ \A y \in T : y <= Max(T)
    BY <2>2, <2>3, MaxLema
  <2>5. PICK i \in 1 .. N : v[i] = Max(T)
    BY <2>4 DEF T
  <2>6. {j \in DOMAIN v : v[j] <= v[i]} = 1 .. N
    <3>1. \A j \in 1 .. N : v[j] <= v[i]
      BY <2>4, <2>5 DEF T
    <3> QED
      BY <1>1, <3>1
  <2>7. HastaEl(v, i) = N
    <3>1. HastaEl(v, i) = Cardinality(1 .. N)
      BY <2>6 DEF HastaEl
    <3>2. Cardinality(1 .. N) = N
      BY <1>1, CuentaLema
    <3> QED
      BY <3>1, <3>2
  <2>8. N > rango
    BY <1>1, <1>3
  <2> QED
    BY <2>7, <2>8
<1>5. IsFiniteSet(V) /\ V \in SUBSET Int /\ V # {}
  <2>1. IsFiniteSet({v[i] : i \in 1 .. N})
    <3>1. IsFiniteSet(1 .. N)
      BY <1>1, CuentaLema
    <3> QED
      BY <1>1, <3>1, ImagenLema
  <2>2. V \in SUBSET {v[i] : i \in 1 .. N}
    OBVIOUS
  <2>3. V \in SUBSET Int /\ V # {}
    BY <1>1, <1>4
  <2> QED
    BY <2>1, <2>2, <2>3, FS_Subset
<1>6. Min(V) \in V
  <2> HIDE DEF V
  <2> QED BY <1>5, MinDeEnterosLema
<1> QED
  BY <1>2, <1>6

\* What is divided by how many times it is at most something is at most that.
LEMMA TruncadoLema ==
    ASSUME NEW a \in Int, NEW b \in Nat \ {0}, NEW c \in Int, a <= c * b
    PROVE  Truncado(a, b) <= c
<1>1. c * b = b * c /\ b * c \in Int
  OBVIOUS
<1>2. CASE a >= 0
  <2> DEFINE q == a \div b
  <2>1. q \in Nat /\ b * q <= a
    BY <1>2, DivLema
  <2> HIDE DEF q
  <2>2. b * q <= b * c
    <3>1. b * q \in Int
      BY <2>1
    <3> QED
      BY <1>1, <2>1, <3>1
  <2>3. q <= c
    BY <2>1, <2>2, QuitaLema
  <2> QED
    BY <1>2, <2>3 DEF q, Truncado
<1>3. CASE ~(a >= 0)
  <2> DEFINE m == -a
             q == m \div b
  <2>1. m \in Nat /\ m = 0 - a
    BY <1>3
  <2>2. q \in Nat /\ m < b * q + b
    <3> HIDE DEF m
    <3> QED BY <2>1, DivLema
  <2>3. Truncado(a, b) = -q
    BY <1>3 DEF Truncado
  <2> HIDE DEF m, q
  <2>4. 0 - q <= c
    <3> SUFFICES ASSUME q <= 0 - (c + 1) PROVE FALSE
      BY <2>2
    <3>1. b * q <= b * (0 - (c + 1))
      BY <2>2, CreceLema
    <3>2. b * (0 - (c + 1)) = 0 - (b * c) - b
      OBVIOUS
    <3>3. b * q \in Int
      BY <2>2
    <3> DEFINE x == b * q
               y == b * c
    <3>4. x \in Int /\ y \in Int /\ x <= 0 - y - b /\ m < x + b /\ a <= y
      BY <1>1, <2>2, <3>1, <3>2, <3>3
    <3> HIDE DEF x, y
    <3> QED
      BY <2>1, <3>4
  <2>5. -q = 0 - q
    BY <2>2
  <2> QED
    BY <2>3, <2>4, <2>5
<1> QED
  BY <1>2, <1>3

\* The mean of the tail is no better than the value that bounds it.
LEMMA ColaLema ==
    ASSUME NEW v \in Seq(Int), NEW i \in 1 .. Len(v)
    PROVE  MediaDeLaCola(v, v[i]) <= v[i]
<1> DEFINE c == v[i]
           D == {j \in DOMAIN v : v[j] <= c}
           cola == [j \in D |-> v[j]]
<1>1. DOMAIN v = 1 .. Len(v) /\ Len(v) \in Nat /\ \A j \in 1 .. Len(v) : v[j] \in Int
  BY LenProperties, ElementOfSeq
<1>2. MediaDeLaCola(v, c) = Truncado(SumFunction(cola), Mayor(1, Cardinality(D)))
  BY DEF MediaDeLaCola, RestrictValues, Restrict
<1>3. IsFiniteSet(D) /\ D # {}
  <2>1. IsFiniteSet(1 .. Len(v))
    BY <1>1, FS_Interval
  <2>2. D \in SUBSET (1 .. Len(v)) /\ i \in D
    BY <1>1
  <2> QED
    BY <2>1, <2>2, FS_Subset
<1>4. c \in Int /\ cola \in [D -> Int] /\ \A j \in D : cola[j] <= c
  BY <1>1
<1> HIDE DEF c, D, cola
<1>5. Cardinality(D) \in Nat \ {0}
  BY <1>3, FS_CardinalityType, FS_EmptySet
<1>6. SumFunction(cola) \in Int /\ SumFunction(cola) <= c * Cardinality(D)
  BY <1>3, <1>4, SumaLema, CotaLema
<1>7. Mayor(1, Cardinality(D)) = Cardinality(D)
  BY <1>5 DEF Mayor
<1>8. Truncado(SumFunction(cola), Cardinality(D)) <= c
  BY <1>4, <1>5, <1>6, TruncadoLema
<1>9. MediaDeLaCola(v, c) <= c
  BY <1>2, <1>7, <1>8
<1> QED
  BY <1>9 DEF c

\* So the tail of the returns of a run is no better than its percentile.
LEMMA RiesgoDeColaLema ==
    ASSUME NEW ops \in Seq(Operaciones)
    PROVE  compute_metrics(ops).es95 <= compute_metrics(ops).var95
<1> DEFINE rets == [i \in DOMAIN ops |-> return_fraction(ops[i])]
           var == percentile(rets, 5)
<1>1. DOMAIN ops = 1 .. Len(ops) /\ Len(ops) \in Nat
  BY OperacionLema
<1>2. \A i \in 1 .. Len(ops) : return_fraction(ops[i]) \in Int
  <2> TAKE i \in 1 .. Len(ops)
  <2> DEFINE o == ops[i]
             a == net_pnl(o) * BASIS_POINTS
  <2>1. o \in Operaciones /\ net_pnl(o) \in Int
    BY <1>1, ElementOfSeq, OperacionLema
  <2>2. a \in Int /\ o.coste \in Nat
    BY <2>1 DEF BASIS_POINTS, Operaciones
  <2>3. return_fraction(o) = IF o.coste > 0 THEN Truncado(a, o.coste) ELSE 0
    BY DEF return_fraction
  <2> HIDE DEF o, a
  <2>4. o.coste > 0 => Truncado(a, o.coste) \in Int
    <3> SUFFICES ASSUME o.coste > 0 PROVE Truncado(a, o.coste) \in Int
      OBVIOUS
    <3> DEFINE b == o.coste
    <3>1. b \in Nat \ {0}
      BY <2>2
    <3> HIDE DEF b
    <3>2. a >= 0 => a \div b \in Int
      BY <2>2, <3>1
    <3>3. -a \in Int /\ (-a) \div b \in Int
      BY <2>2, <3>1
    <3>4. -((-a) \div b) \in Int
      BY <3>3
    <3> QED
      BY <3>2, <3>4 DEF Truncado, b
  <2>5. return_fraction(o) \in Int
    BY <2>3, <2>4
  <2> QED
    BY <2>5 DEF o
<1>3. rets \in Seq(Int) /\ Len(rets) = Len(ops)
  <2>1. rets \in [1 .. Len(ops) -> Int]
    BY <1>1, <1>2
  <2> HIDE DEF rets
  <2> QED
    BY <1>1, <2>1, SeqDef, LenProperties
<1>4. /\ compute_metrics(ops).var95 = var
      /\ compute_metrics(ops).es95 = IF rets = << >> THEN 0 ELSE MediaDeLaCola(rets, var)
  BY DEF compute_metrics
<1> HIDE DEF rets
<1>5. CASE rets = << >>
  <2>1. var = 0
    BY <1>5 DEF percentile
  <2> QED
    BY <1>4, <1>5, <2>1
<1>6. CASE rets # << >>
  <2>1. PICK i \in 1 .. Len(rets) : var = rets[i]
    BY <1>3, <1>6, PercentilLema
  <2>2. MediaDeLaCola(rets, rets[i]) <= rets[i]
    BY <1>3, ColaLema
  <2>3. MediaDeLaCola(rets, var) <= var
    BY <2>1, <2>2
  <2> QED
    BY <1>4, <1>6, <2>3
<1> QED
  BY <1>5, <1>6

\* A sum is what is positive of it less what is negative.
LEMMA SignosLema ==
    ASSUME NEW D, IsFiniteSet(D), NEW f \in [D -> Int]
    PROVE  LET mas == SumFunction([i \in D |-> Mayor(0, f[i])])
               menos == SumFunction([i \in D |-> Mayor(0, -f[i])])
           IN  mas \in Nat /\ menos \in Nat /\ mas - menos = SumFunction(f)
<1> DEFINE p == [i \in D |-> Mayor(0, f[i])]
           q == [i \in D |-> Mayor(0, -f[i])]
<1>1. ASSUME NEW i \in D
      PROVE  p[i] \in Int /\ q[i] \in Int /\ p[i] >= 0 /\ q[i] >= 0 /\ p[i] - q[i] = f[i]
  <2> DEFINE x == f[i]
  <2>1. x \in Int /\ p[i] = Mayor(0, x) /\ q[i] = Mayor(0, -x)
    OBVIOUS
  <2> HIDE DEF x, p, q
  <2>2. p[i] - q[i] = x /\ p[i] \in Int /\ q[i] \in Int /\ p[i] >= 0 /\ q[i] >= 0
    BY <2>1 DEF Mayor
  <2> QED
    BY <2>2 DEF x
<1>2. p \in [D -> Int] /\ q \in [D -> Int]
  BY <1>1
<1> HIDE DEF p, q
<1>3. /\ SumFunction(p) \in Int /\ SumFunction(p) >= 0
      /\ SumFunction(q) \in Int /\ SumFunction(q) >= 0
  BY <1>1, <1>2, SumaLema
<1>4. SumFunction(p) - SumFunction(q) = SumFunction(f)
  BY <1>1, <1>2, RestaLema
<1> QED
  BY <1>3, <1>4 DEF p, q

\* What is earned less what is lost is the net result,
LEMMA GanadoLema ==
    ASSUME NEW ops \in Seq(Operaciones)
    PROVE  /\ Ganado(ops) \in Nat /\ Perdido(ops) \in Nat
           /\ Ganado(ops) - Perdido(ops) = SumFunction(Netos(ops))
<1> DEFINE D == DOMAIN ops
           f == Netos(ops)
<1>1. IsFiniteSet(D) /\ f \in [D -> Int] /\ \A i \in D : f[i] = net_pnl(ops[i])
  BY OperacionLema DEF Netos
<1>2. /\ Ganado(ops) = SumFunction([i \in D |-> Mayor(0, f[i])])
      /\ Perdido(ops) = SumFunction([i \in D |-> Mayor(0, -f[i])])
  BY <1>1 DEF Ganado, Perdido
<1> HIDE DEF D, f
<1>3. /\ SumFunction([i \in D |-> Mayor(0, f[i])]) \in Nat
      /\ SumFunction([i \in D |-> Mayor(0, -f[i])]) \in Nat
      /\ SumFunction([i \in D |-> Mayor(0, f[i])]) - SumFunction([i \in D |-> Mayor(0, -f[i])])
         = SumFunction(f)
  BY <1>1, SignosLema
<1> QED
  BY <1>2, <1>3 DEF f

\* and a profit factor above one says that it is positive.
LEMMA FactorLema ==
    ASSUME NEW ops \in Seq(Operaciones), compute_metrics(ops).profit_factor > BASIS_POINTS
    PROVE  SumFunction(Netos(ops)) > 0
<1> DEFINE g == Ganado(ops)
           p == Perdido(ops)
           q == (g * BASIS_POINTS) \div p
<1>1. g \in Nat /\ p \in Nat /\ g - p = SumFunction(Netos(ops))
  BY GanadoLema
<1>2. compute_metrics(ops).profit_factor = IF p > 0 THEN q ELSE 0
  BY DEF compute_metrics
<1>3. p > 0 /\ q > BASIS_POINTS
  BY <1>2 DEF BASIS_POINTS
<1>4. q \in Nat /\ p * q <= g * BASIS_POINTS
  <2>1. g * BASIS_POINTS \in Nat /\ p \in Nat \ {0}
    BY <1>1, <1>3 DEF BASIS_POINTS
  <2> HIDE DEF g, p
  <2> QED
    BY <2>1, DivLema
<1> HIDE DEF g, p, q
<1>5. p * (BASIS_POINTS + 1) <= g * BASIS_POINTS
  <2>1. BASIS_POINTS + 1 <= q /\ BASIS_POINTS + 1 \in Int /\ q \in Int
    BY <1>3, <1>4 DEF BASIS_POINTS
  <2>2. p * (BASIS_POINTS + 1) <= p * q
    BY <1>1, <2>1, CreceLema
  <2>3. p * (BASIS_POINTS + 1) \in Int /\ p * q \in Int /\ g * BASIS_POINTS \in Int
    BY <1>1, <1>4 DEF BASIS_POINTS
  <2> QED
    BY <1>4, <2>2, <2>3
<1>6. g > p
  BY <1>1, <1>3, <1>5 DEF BASIS_POINTS
<1> QED
  BY <1>1, <1>6

\* What still earns without its best terms earns without any one.
LEMMA SinElMejorLema ==
    ASSUME NEW D, IsFiniteSet(D), NEW f \in [D -> Int], NEW m \in SUBSET D, m # {},
           \A k \in m, j \in D \ m : f[k] >= f[j],
           SumFunction([k \in D \ m |-> f[k]]) > 0,
           NEW i \in D
    PROVE  SumFunction(f) > f[i]
<1> DEFINE r == D \ m
<1>1. IsFiniteSet(D) /\ f \in [D -> Int] /\ r \in SUBSET D
  OBVIOUS
<1>2. /\ r \in SUBSET D /\ m \cup r = D /\ m \cap r = {} /\ IsFiniteSet(r)
      /\ \A k \in m, j \in r : f[k] >= f[j]
      /\ SumFunction([k \in r |-> f[k]]) > 0
  BY <1>1, FS_Subset
<1> HIDE DEF r
<1>3. PICK g : EsPliegue(g, D, f)
  BY <1>1, PliegueLema
<1>4. g[r] > 0
  <2>1. SumFunction([k \in r |-> f[k]]) = g[r]
    BY <1>1, <1>3, SubsumaLema
  <2> QED
    BY <1>2, <2>1
<1>5. PICK e \in r : f[e] > 0
  <2> SUFFICES ASSUME \A k \in r : ~(f[k] > 0) PROVE FALSE
    OBVIOUS
  <2> DEFINE h == [k \in r |-> f[k]]
  <2>1. h \in [r -> Int] /\ \A k \in r : h[k] <= 0
    BY <1>1, <1>2
  <2> HIDE DEF h
  <2>2. SumFunction(h) <= 0 * Cardinality(r) /\ SumFunction(h) \in Int
    BY <1>2, <2>1, CotaLema, SumaLema
  <2>3. 0 * Cardinality(r) = 0
    BY <1>2, FS_CardinalityType
  <2>4. SumFunction(h) > 0
    BY <1>2 DEF h
  <2> QED
    BY <2>2, <2>3, <2>4
<1>6. \A k \in m : f[k] > 0 /\ f[k] \in Int
  <2> TAKE k \in m
  <2>1. f[k] >= f[e] /\ f[k] \in Int /\ f[e] \in Int
    BY <1>2, <1>5
  <2> QED
    BY <1>5, <2>1
<1>7. SinOrden(g, D, f)
  BY <1>1, <1>3, SacarLema
<1>8. ASSUME NEW k \in m PROVE g[D] > f[k]
  <2> DEFINE a == m \ {k}
             h == [x \in a |-> f[x]]
  <2>1. a \in SUBSET D /\ IsFiniteSet(a) /\ a \cap r = {} /\ D \ {k} = a \cup r /\ k \in D
    <3>1. a \in SUBSET D /\ a \cap r = {} /\ D \ {k} = a \cup r /\ k \in D
      BY <1>2
    <3> QED
      BY <1>1, <3>1, FS_Subset
  <2>2. h \in [a -> Int] /\ \A x \in a : h[x] >= 0
    BY <1>6
  <2>3. SumFunction(h) >= 0
    <3> HIDE DEF a, h
    <3> QED BY <2>1, <2>2, SumaLema
  <2>4. SumFunction(h) = g[a]
    <3> HIDE DEF a
    <3> QED BY <1>1, <1>3, <2>1, SubsumaLema
  <2>5. g[a \cup r] = g[a] + g[r]
    <3>1. a \in SUBSET D /\ a \cap r = {}
      BY <2>1
    <3> HIDE DEF a
    <3> QED
      BY <1>1, <1>3, <3>1, SumaUnionLema, SMTT(60)
  <2>6. g[D] = f[k] + g[D \ {k}]
    <3>1. D \in SUBSET D
      OBVIOUS
    <3> QED
      BY <1>7, <2>1, <3>1 DEF SinOrden
  <2>7. g[a] \in Int /\ g[r] \in Int /\ f[k] \in Int
    BY <1>2, <1>3, <1>6, <2>1 DEF EsPliegue
  <2>8. g[D] = f[k] + (g[a] + g[r]) /\ g[a] >= 0
    BY <2>1, <2>3, <2>4, <2>5, <2>6
  <2> HIDE DEF a
  <2> QED
    BY <1>4, <2>7, <2>8
<1>9. g[D] > f[i]
  <2>1. i \in D /\ g[D] \in Int
    BY <1>3 DEF EsPliegue
  <2>2. CASE i \in m
    BY <1>8, <2>2
  <2>3. CASE i \in r
    <3>1. PICK k \in m : TRUE
      OBVIOUS
    <3>2. f[k] >= f[i] /\ g[D] > f[k] /\ f[k] \in Int /\ f[i] \in Int
      BY <1>2, <1>6, <1>8, <2>1, <2>3
    <3> QED
      BY <2>1, <3>2
  <2> QED
    BY <1>2, <2>1, <2>2, <2>3
<1> QED
  BY <1>3, <1>9 DEF EsPliegue

\* A run that still earns without its best trades earns without any one.
LEMMA SinExtremasLema ==
    ASSUME NEW ops \in Seq(Operaciones), survives_without_outliers(ops), NEW i \in DOMAIN ops
    PROVE  SumFunction(Netos(ops)) > net_pnl(ops[i])
<1> DEFINE D == DOMAIN ops
           f == Netos(ops)
           n == Mayor(1, Len(ops) \div 100)
           Mejores(m) == m \in Extremas(ops) /\ \A k \in m, j \in D \ m : net_pnl(ops[k]) >= net_pnl(ops[j])
           m == CHOOSE x \in Extremas(ops) :
                    \A k \in x, j \in D \ x : net_pnl(ops[k]) >= net_pnl(ops[j])
           r == D \ m
<1>1. /\ IsFiniteSet(D) /\ f \in [D -> Int] /\ D = 1 .. Len(ops) /\ Len(ops) \in Nat
      /\ \A k \in D : f[k] = net_pnl(ops[k])
  BY OperacionLema DEF Netos
<1>2. ops # << >> /\ Salvo(ops, m) > 0
  BY DEF survives_without_outliers
<1>3. n \in Nat \ {0} /\ n <= Cardinality(D)
  <2>1. Cardinality(D) = Len(ops)
    <3> HIDE DEF D
    <3> QED BY <1>1, CuentaLema
  <2>2. Len(ops) >= 1
    BY <1>1
  <2>3. Len(ops) \div 100 \in Nat /\ Len(ops) \div 100 <= Len(ops)
    BY <1>1
  <2> QED
    BY <1>1, <2>1, <2>2, <2>3 DEF Mayor
<1>4. Mejores(m)
  <2> HIDE DEF n
  <2>1. PICK x \in SUBSET D : Cardinality(x) = n /\ \A k \in x, j \in D \ x : f[k] >= f[j]
    <3> HIDE DEF D, f, m, r, Mejores
    <3>1. IsFiniteSet(D) /\ f \in [D -> Int] /\ n \in Nat /\ n <= Cardinality(D)
      BY <1>1, <1>3
    <3> QED
      BY <3>1, MayoresLema
  <2>2. x \in Extremas(ops)
    BY <2>1 DEF Extremas, n
  <2>3. \A k \in x, j \in D \ x : net_pnl(ops[k]) >= net_pnl(ops[j])
    BY <1>1, <2>1
  <2> QED
    BY <2>2, <2>3
<1>5. m \in SUBSET D /\ Cardinality(m) = n /\ \A k \in m, j \in r : f[k] >= f[j]
  BY <1>1, <1>4 DEF Extremas
<1>6. Salvo(ops, m) = SumFunction([k \in r |-> f[k]])
  <2>1. [k \in r |-> net_pnl(ops[k])] = [k \in r |-> f[k]]
    BY <1>1
  <2> QED
    BY <2>1 DEF Salvo
<1>7. m # {}
  BY <1>3, <1>5, FS_EmptySet
<1>8. /\ IsFiniteSet(D) /\ f \in [D -> Int] /\ i \in D
      /\ SumFunction([k \in D \ m |-> f[k]]) > 0
      /\ m \in SUBSET D /\ \A k \in m, j \in D \ m : f[k] >= f[j]
  BY <1>1, <1>2, <1>5, <1>6
<1>9. f[i] = net_pnl(ops[i])
  BY <1>1
<1> HIDE DEF D, f, n, m, r, Mejores
<1>10. SumFunction(f) > f[i]
  BY <1>7, <1>8, SinElMejorLema
<1> QED
  BY <1>9, <1>10 DEF f

LEMMA MetricasLema == SimuladorInv /\ NetoInv => MetricasCoherentes
<1> SUFFICES ASSUME SimuladorInv, NetoInv PROVE MetricasCoherentes
  OBVIOUS
<1> DEFINE m == compute_metrics(operaciones)
<1>1. operaciones \in Seq(Operaciones)
  BY DEF SimuladorInv, SimuladorTypeOK, Operaciones
<1>2. m.max_consecutive_losses = consecutive_losses(operaciones)
  BY DEF compute_metrics
<1>3. m.max_consecutive_losses = Max({0} \cup {r[2] - r[1] + 1 : r \in Rachas})
  BY <1>1, <1>2, RachasLema
<1>4. m.es95 <= m.var95
  BY <1>1, RiesgoDeColaLema
<1>5. m.profit_factor > BASIS_POINTS => neto > 0
  BY <1>1, FactorLema DEF NetoInv
<1>6. Ganado(operaciones) - Perdido(operaciones) = neto
  BY <1>1, GanadoLema DEF NetoInv
<1> HIDE DEF m
<1>7. ASSUME evaluate_candidate(m, operaciones) = {}, NEW i \in DOMAIN operaciones
      PROVE  neto > net_pnl(operaciones[i])
  <2>1. survives_without_outliers(operaciones)
    <3>1. "suerte" \notin evaluate_candidate(m, operaciones)
      BY <1>7
    <3> QED
      BY <3>1 DEF evaluate_candidate
  <2> QED
    BY <1>1, <2>1, SinExtremasLema DEF NetoInv
<1> QED
  BY <1>3, <1>4, <1>5, <1>6, <1>7 DEF MetricasCoherentes, m

\* The metrics of a run agree with each other after every event, for any
\* strategy and any chance (metrics.py).
THEOREM Backtest_MetricasCoherentes == SpecSimulador => []MetricasCoherentes
<1>1. InitSimulador => SimuladorInv /\ NetoInv
  BY Simulador_Init, Neto_Init
<1>2. SimuladorInv /\ NetoInv /\ [Evento]_varsSimulador => (SimuladorInv /\ NetoInv)'
  BY Simulador_Step, Neto_Step
<1> QED
  BY <1>1, <1>2, MetricasLema, PTL DEF SpecSimulador

-----------------------------------------------------------------------------
(* The series of prices                                                    *)

Puntos == [at : Nat, precio : Nat]

\* A series of prices is in order of time, each point after the one before.
EsSerie(s) ==
    /\ s \in Seq(Puntos)
    /\ \A i, j \in 1 .. Len(s) : i < j => s[i].at < s[j].at

\* s and what arrives after it.
Sigue(s, p) == EsSerie(s) /\ p \in Puntos /\ EsSerie(Append(s, p))

\* It begins empty.
LEMMA Serie_Init == InitSerie => EsSerie(serie)
BY DEF InitSerie, EsSerie

\* Its points are points.
LEMMA PuntosLema ==
    ASSUME NEW s, EsSerie(s)
    PROVE  /\ Len(s) \in Nat /\ DOMAIN s = 1 .. Len(s)
           /\ \A k \in 1 .. Len(s) : s[k] \in Puntos /\ s[k].at \in Nat /\ s[k].precio \in Nat
<1>1. s \in Seq(Puntos)
  BY DEF EsSerie
<1>2. Len(s) \in Nat /\ DOMAIN s = 1 .. Len(s) /\ \A k \in 1 .. Len(s) : s[k] \in Puntos
  BY <1>1
<1> QED
  BY <1>2 DEF Puntos

\* What a series keeps when a point arrives.
LEMMA SigueLema ==
    ASSUME NEW s, NEW p, Sigue(s, p)
    PROVE  /\ Len(s) \in Nat /\ DOMAIN s = 1 .. Len(s)
           /\ \A i \in 1 .. Len(s) : s[i] \in Puntos /\ s[i].at \in Nat /\ s[i].precio \in Nat
           /\ Append(s, p) \in Seq(Puntos)
           /\ Len(Append(s, p)) = Len(s) + 1 /\ DOMAIN Append(s, p) = 1 .. Len(s) + 1
           /\ \A i \in 1 .. Len(s) : Append(s, p)[i] = s[i] /\ s[i].at < p.at
           /\ Append(s, p)[Len(s) + 1] = p
           /\ p.at \in Nat /\ p.precio \in Nat
<1>1. s \in Seq(Puntos) /\ p \in Puntos
  BY DEF Sigue, EsSerie
<1>2. /\ Append(s, p) \in Seq(Puntos) /\ Len(Append(s, p)) = Len(s) + 1 /\ Append(s, p)[Len(s) + 1] = p
      /\ DOMAIN s = 1 .. Len(s) /\ Len(s) \in Nat /\ DOMAIN Append(s, p) = 1 .. Len(s) + 1
  BY <1>1
<1>3. \A i \in 1 .. Len(s) : Append(s, p)[i] = s[i] /\ s[i] \in Puntos
  BY <1>1
<1>4. ASSUME NEW i \in 1 .. Len(s) PROVE s[i].at < p.at
  <2>1. i \in 1 .. Len(s) + 1 /\ Len(s) + 1 \in 1 .. Len(s) + 1 /\ i < Len(s) + 1
    BY <1>2
  <2>2. Append(s, p)[i].at < Append(s, p)[Len(s) + 1].at
    BY <1>2, <2>1 DEF Sigue, EsSerie
  <2> QED
    BY <1>2, <1>3, <2>2
<1> QED
  BY <1>1, <1>2, <1>3, <1>4 DEF Puntos

\* The last point is the latest.
LEMMA AhoraLema ==
    ASSUME EsSerie(serie)
    PROVE  Ahora(serie) \in Nat /\ \A i \in 1 .. Len(serie) : serie[i].at <= Ahora(serie)
<1>0. /\ serie \in Seq(Puntos) /\ Len(serie) \in Nat
      /\ \A i \in 1 .. Len(serie) : serie[i] \in Puntos /\ serie[i].at \in Nat
  BY PuntosLema DEF EsSerie
<1>1. CASE serie = << >>
  <2>1. Ahora(serie) = 0 /\ Len(serie) = 0
    BY <1>1 DEF Ahora
  <2> QED
    BY <2>1
<1>2. CASE serie # << >>
  <2>1. Len(serie) \in 1 .. Len(serie)
    BY <1>0, <1>2
  <2>2. Ahora(serie) = serie[Len(serie)].at
    BY <1>2 DEF Ahora, Last
  <2>3. \A i \in 1 .. Len(serie) : i = Len(serie) \/ i < Len(serie)
    BY <1>0
  <2>4. \A i \in 1 .. Len(serie) : i = Len(serie) \/ serie[i].at < serie[Len(serie)].at
    BY <2>1, <2>3 DEF EsSerie
  <2> QED
    BY <1>0, <2>1, <2>2, <2>4
<1> QED
  BY <1>1, <1>2

\* What arrives follows.
LEMMA LlegaLema ==
    ASSUME EsSerie(serie), Llega
    PROVE  \E p \in Puntos : serie' = Append(serie, p) /\ Sigue(serie, p)
<1>1. PICK q \in Precios, d \in Intervalos : serie' = Append(serie, Punto(Ahora(serie) + d, q))
  BY DEF Llega
<1> DEFINE p == Punto(Ahora(serie) + d, q)
<1>2. q \in Nat /\ d \in Nat /\ d > 0
  BY SeriesAssumption
<1>3. /\ serie \in Seq(Puntos) /\ Len(serie) \in Nat
      /\ \A i \in 1 .. Len(serie) : serie[i] \in Puntos /\ serie[i].at \in Nat
  BY PuntosLema DEF EsSerie
<1>4. Ahora(serie) \in Nat /\ \A i \in 1 .. Len(serie) : serie[i].at <= Ahora(serie)
  BY AhoraLema
<1>5. p \in Puntos /\ p.at = Ahora(serie) + d
  BY <1>2, <1>4 DEF Punto, Puntos
<1> HIDE DEF p
<1> DEFINE r == Append(serie, p)
<1>6. /\ r \in Seq(Puntos) /\ Len(r) = Len(serie) + 1 /\ r[Len(serie) + 1] = p
      /\ \A i \in 1 .. Len(serie) : r[i] = serie[i]
  BY <1>3, <1>5
<1> HIDE DEF r
<1>7. ASSUME NEW i \in 1 .. Len(r), NEW j \in 1 .. Len(r), i < j PROVE r[i].at < r[j].at
  <2>1. i \in 1 .. Len(serie)
    BY <1>3, <1>6, <1>7
  <2>2. CASE j \in 1 .. Len(serie)
    BY <1>6, <1>7, <2>1, <2>2 DEF EsSerie
  <2>3. CASE j = Len(serie) + 1
    <3>1. r[i].at = serie[i].at /\ r[j].at = Ahora(serie) + d
      BY <1>5, <1>6, <2>1, <2>3
    <3>2. serie[i].at \in Nat /\ serie[i].at <= Ahora(serie)
      BY <1>3, <1>4, <2>1
    <3> QED
      BY <1>2, <1>4, <3>1, <3>2
  <2> QED
    BY <1>3, <1>6, <2>2, <2>3
<1>8. EsSerie(r)
  BY <1>6, <1>7 DEF EsSerie
<1>9. serie' = Append(serie, p) /\ Sigue(serie, p)
  BY <1>1, <1>5, <1>8 DEF Sigue, p, r
<1> QED
  BY <1>5, <1>9

\* A window that ends by now sees nothing of what arrives.
LEMMA VentanaLema ==
    ASSUME NEW s, NEW p, Sigue(s, p), NEW as_of \in Cortes(s), NEW v
    PROVE  compute(Append(s, p), v, as_of) = compute(s, v, as_of)
<1>1. as_of \in Nat /\ as_of < p.at /\ p.at \in Nat
  BY SigueLema DEF Cortes
<1> DEFINE a == Append(s, p)
           En(q, i) == as_of - v <= q[i].at /\ q[i].at <= as_of
<1>2. /\ DOMAIN s = 1 .. Len(s) /\ DOMAIN a = 1 .. Len(s) + 1 /\ Len(s) \in Nat
      /\ a[Len(s) + 1] = p /\ \A i \in DOMAIN s : a[i] = s[i]
  BY SigueLema
<1> HIDE DEF a
<1>3. {i \in DOMAIN a : En(a, i)} = {i \in DOMAIN s : En(s, i)}
  <2>1. ~ En(a, Len(s) + 1)
    BY <1>1, <1>2
  <2>2. DOMAIN a = DOMAIN s \cup {Len(s) + 1}
    BY <1>2
  <2>3. \A i \in DOMAIN s : En(a, i) <=> En(s, i)
    BY <1>2
  <2> HIDE DEF En
  <2> QED
    BY <2>1, <2>2, <2>3
<1>4. \A i \in {i \in DOMAIN s : En(s, i)} : a[i] = s[i]
  BY <1>2
<1>5. /\ select_visible(a, v, as_of) = [i \in {i \in DOMAIN a : En(a, i)} |-> a[i]]
      /\ select_visible(s, v, as_of) = [i \in {i \in DOMAIN s : En(s, i)} |-> s[i]]
  BY DEF select_visible, window_bounds, RestrictValues, Restrict
<1> HIDE DEF En
<1>6. select_visible(a, v, as_of) = select_visible(s, v, as_of)
  BY <1>3, <1>4, <1>5
<1> QED
  BY <1>6 DEF compute, a

-----------------------------------------------------------------------------
(* The labels                                                              *)

\* What a label says of its time,
LEMMA UnaEtiqueta ==
    ASSUME NEW s, NEW i, NEW l \in label_observation(s, i)
    PROVE  /\ Resuelve(s, i) # {} /\ ~ (s[i].precio <= 0) /\ label_observation(s, i) = {l}
           /\ l.at = s[i].at /\ l.resolved_at = s[Min(Resuelve(s, i))].at
<1> DEFINE j == Min(Resuelve(s, i))
           r == [at |-> s[i].at,
                 label |-> IF s[j].precio > s[i].precio THEN 1 ELSE 0,
                 resolved_at |-> s[j].at,
                 mejor |-> Max({0} \cup {s[k].precio - s[i].precio : k \in i + 1 .. j}),
                 peor |-> Min({0} \cup {s[k].precio - s[i].precio : k \in i + 1 .. j})]
<1>1. label_observation(s, i) = IF s[i].precio <= 0 \/ Resuelve(s, i) = {} THEN {} ELSE {r}
  BY DEF label_observation
<1>2. r.at = s[i].at /\ r.resolved_at = s[j].at
  OBVIOUS
<1> HIDE DEF r
<1> QED
  BY <1>1, <1>2

\* and where it was put.
LEMMA EtiquetaLema ==
    ASSUME NEW s, EsSerie(s), NEW i \in 1 .. Len(s), NEW l \in label_observation(s, i)
    PROVE  /\ label_observation(s, i) = {l} /\ l.at = s[i].at
           /\ l.at \in Nat /\ l.resolved_at \in Nat /\ l.at < l.resolved_at
<1> DEFINE j == Min(Resuelve(s, i))
<1>1. Len(s) \in Nat /\ \A k \in 1 .. Len(s) : s[k] \in Puntos /\ s[k].at \in Nat
  BY PuntosLema
<1>2. /\ Resuelve(s, i) # {} /\ l.at = s[i].at /\ l.resolved_at = s[j].at
      /\ label_observation(s, i) = {l}
  BY UnaEtiqueta
<1>3. j \in Resuelve(s, i) /\ Resuelve(s, i) \subseteq i + 1 .. Len(s)
  <2>1. Resuelve(s, i) \subseteq i + 1 .. Len(s)
    BY DEF Resuelve
  <2>2. Resuelve(s, i) \in SUBSET Nat
    BY <1>1, <2>1
  <2> QED
    BY <1>2, <2>1, <2>2, MinLema
<1> HIDE DEF j
<1>4. j \in 1 .. Len(s) /\ i < j
  BY <1>1, <1>3
<1>5. s[i].at < s[j].at
  BY <1>4 DEF EsSerie
<1> QED
  BY <1>1, <1>2, <1>4, <1>5

\* A label that is there stays as it is,
LEMMA ResueltaLema ==
    ASSUME NEW s, NEW p, Sigue(s, p), NEW i \in 1 .. Len(s), label_observation(s, i) # {}
    PROVE  label_observation(Append(s, p), i) = label_observation(s, i)
<1> DEFINE a == Append(s, p)
           j == Min(Resuelve(s, i))
<1>1. Resuelve(s, i) # {} /\ ~ (s[i].precio <= 0)
  BY DEF label_observation
<1>2. /\ Len(s) \in Nat /\ Len(a) = Len(s) + 1 /\ \A k \in 1 .. Len(s) : a[k] = s[k]
  BY SigueLema
<1> HIDE DEF a
<1>3. Resuelve(s, i) \subseteq i + 1 .. Len(s) /\ Resuelve(a, i) \subseteq i + 1 .. Len(s) + 1
  BY <1>2 DEF Resuelve
<1>4. \A k \in i + 1 .. Len(s) : k \in 1 .. Len(s)
  BY <1>2
<1>5. \A k \in i + 1 .. Len(s) : k \in Resuelve(a, i) <=> k \in Resuelve(s, i)
  <2> TAKE k \in i + 1 .. Len(s)
  <2>1. a[k] = s[k] /\ a[i] = s[i] /\ k \in i + 1 .. Len(a)
    BY <1>2, <1>4
  <2> QED
    BY <2>1 DEF Resuelve
<1>6. j \in Resuelve(s, i) /\ \A y \in Resuelve(s, i) : j <= y
  <2>1. Resuelve(s, i) \in SUBSET Nat
    BY <1>2, <1>3
  <2> QED
    BY <1>1, <2>1, MinLema
<1> HIDE DEF j
<1>7. Min(Resuelve(a, i)) = j
  <2>1. Resuelve(a, i) \in SUBSET Nat
    BY <1>2, <1>3
  <2>2. j \in Resuelve(a, i) /\ j \in i + 1 .. Len(s)
    BY <1>3, <1>5, <1>6
  <2>3. ASSUME NEW y \in Resuelve(a, i) PROVE j <= y
    <3>1. CASE y \in i + 1 .. Len(s)
      BY <1>5, <1>6, <3>1
    <3>2. CASE y = Len(s) + 1
      BY <1>2, <2>2, <3>2
    <3> QED
      BY <1>2, <1>3, <2>3, <3>1, <3>2
  <2> HIDE DEF Resuelve
  <2> QED
    BY <2>1, <2>2, <2>3, MinUnico
<1>8. Resuelve(a, i) # {} /\ a[i] = s[i] /\ a[j] = s[j]
  BY <1>2, <1>3, <1>4, <1>5, <1>6
<1>9. {a[k].precio - a[i].precio : k \in i + 1 .. j} = {s[k].precio - s[i].precio : k \in i + 1 .. j}
  <2>1. \A k \in i + 1 .. j : k \in 1 .. Len(s)
    BY <1>2, <1>3, <1>6
  <2> QED
    BY <1>2, <1>8, <2>1
<1>10. label_observation(a, i) = label_observation(s, i)
  BY <1>1, <1>7, <1>8, <1>9 DEF label_observation, j
<1> QED
  BY <1>10 DEF a

\* and one that was not is resolved by what arrives.
LEMMA PendienteLema ==
    ASSUME NEW s, NEW p, Sigue(s, p), NEW i \in 1 .. Len(s) + 1, NEW l \in label_observation(Append(s, p), i),
           i \in 1 .. Len(s) => label_observation(s, i) = {}
    PROVE  l.resolved_at = p.at
<1> DEFINE a == Append(s, p)
           j == Min(Resuelve(a, i))
<1>1. /\ Len(s) \in Nat /\ Len(a) = Len(s) + 1 /\ a[Len(s) + 1] = p
      /\ \A k \in 1 .. Len(s) : a[k] = s[k]
  BY SigueLema
<1> HIDE DEF a
<1>2. Resuelve(a, i) # {} /\ ~ (a[i].precio <= 0) /\ l.resolved_at = a[j].at
  <2>1. l \in label_observation(a, i)
    BY DEF a
  <2> QED
    BY <2>1, UnaEtiqueta
<1>3. Resuelve(a, i) \subseteq i + 1 .. Len(s) + 1
  BY <1>1 DEF Resuelve
<1>4. i \in 1 .. Len(s)
  BY <1>1, <1>2, <1>3
<1>5. Resuelve(s, i) = {}
  <2>1. ~ (s[i].precio <= 0)
    BY <1>1, <1>2, <1>4
  <2> QED
    BY <1>4, <2>1 DEF label_observation
<1>6. ASSUME NEW k \in i + 1 .. Len(s) PROVE k \notin Resuelve(a, i)
  <2>1. a[k] = s[k] /\ a[i] = s[i]
    BY <1>1, <1>4
  <2>2. k \notin Resuelve(s, i)
    BY <1>5
  <2> QED
    BY <2>1, <2>2 DEF Resuelve
<1>7. j \in Resuelve(a, i)
  <2>1. Resuelve(a, i) \in SUBSET Nat
    BY <1>1, <1>3
  <2> QED
    BY <1>2, <2>1, MinLema
<1> HIDE DEF j
<1>8. j = Len(s) + 1
  BY <1>1, <1>3, <1>6, <1>7
<1> QED
  BY <1>1, <1>2, <1>8

\* What a model trained by now is given does not change with what arrives.
LEMMA EntrenarLema ==
    ASSUME NEW s, NEW p, Sigue(s, p), NEW as_of \in Cortes(s), NEW purge \in Nat
    PROVE  select_train(label_series(Append(s, p)), as_of, purge) = select_train(label_series(s), as_of, purge)
<1> DEFINE a == Append(s, p)
<1>1. /\ Len(s) \in Nat /\ DOMAIN s = 1 .. Len(s) /\ DOMAIN a = 1 .. Len(s) + 1
      /\ as_of \in Nat /\ p.at \in Nat /\ as_of < p.at
  BY SigueLema DEF Cortes
<1>2. ASSUME NEW l \in label_series(s) PROVE l \in label_series(a)
  <2>1. PICK i \in 1 .. Len(s) : l \in label_observation(s, i)
    BY <1>1 DEF label_series
  <2>2. l \in label_observation(a, i)
    BY <2>1, ResueltaLema
  <2> HIDE DEF a
  <2> QED
    BY <1>1, <2>2 DEF label_series
<1>3. ASSUME NEW l \in label_series(a), l.resolved_at <= as_of - purge PROVE l \in label_series(s)
  <2>1. PICK i \in 1 .. Len(s) + 1 : l \in label_observation(a, i)
    <3> HIDE DEF a
    <3> QED BY <1>1 DEF label_series
  <2>2. l.resolved_at # p.at
    BY <1>1, <1>3
  <2>3. i \in 1 .. Len(s) /\ label_observation(s, i) # {}
    BY <2>1, <2>2, PendienteLema
  <2>4. l \in label_observation(s, i)
    BY <2>1, <2>3, ResueltaLema
  <2> QED
    BY <1>1, <2>3, <2>4 DEF label_series
<1> HIDE DEF a
<1>4. select_train(label_series(a), as_of, purge) = select_train(label_series(s), as_of, purge)
  BY <1>2, <1>3 DEF select_train
<1> QED
  BY <1>4 DEF a

-----------------------------------------------------------------------------
(* The windows of a walk-forward                                           *)

\* No label takes longer to be resolved than the longest of them.
LEMMA PurgaLema ==
    ASSUME NEW s, EsSerie(s)
    PROVE  LET purga == max_resolution(label_series(s))
           IN  purga \in Nat /\ \A l \in label_series(s) : l.resolved_at <= l.at + purga
<1> DEFINE labels == label_series(s)
           tarda == [l \in labels |-> l.resolved_at - l.at]
           S == {tarda[l] : l \in labels}
<1>1. Len(s) \in Nat /\ DOMAIN s = 1 .. Len(s)
  BY PuntosLema
<1>2. \A l \in labels : \E i \in 1 .. Len(s) : l \in label_observation(s, i)
  BY <1>1 DEF label_series
<1>3. \A l \in labels : l.at \in Nat /\ l.resolved_at \in Nat /\ l.at < l.resolved_at
  BY <1>2, EtiquetaLema
<1>4. IsFiniteSet(labels)
  <2> DEFINE Con == {i \in 1 .. Len(s) : label_observation(s, i) # {}}
             una == [i \in Con |-> CHOOSE l \in label_observation(s, i) : TRUE]
             T == {una[i] : i \in Con}
  <2>1. IsFiniteSet(Con)
    <3>1. IsFiniteSet(1 .. Len(s)) /\ Con \subseteq 1 .. Len(s)
      BY <1>1, FS_Interval
    <3> HIDE DEF Con
    <3> QED BY <3>1, FS_Subset
  <2>2. IsFiniteSet(T)
    <3>1. DOMAIN una = Con
      OBVIOUS
    <3> HIDE DEF una, Con
    <3> QED BY <2>1, <3>1, ImagenLema
  <2>3. labels \subseteq T
    <3> SUFFICES ASSUME NEW l \in labels PROVE l \in T
      OBVIOUS
    <3>1. PICK i \in 1 .. Len(s) : l \in label_observation(s, i)
      BY <1>2
    <3>2. label_observation(s, i) = {l}
      BY <3>1, EtiquetaLema
    <3>3. i \in Con /\ una[i] = l
      BY <3>2
    <3> HIDE DEF una, Con
    <3> QED
      BY <3>3
  <2> HIDE DEF T, labels
  <2> QED
    BY <2>2, <2>3, FS_Subset
<1>5. max_resolution(labels) = Max({0} \cup S)
  BY DEF max_resolution
<1>6. IsFiniteSet(S)
  <2>1. DOMAIN tarda = labels
    OBVIOUS
  <2> HIDE DEF tarda, labels
  <2> QED BY <1>4, <2>1, ImagenLema
<1>7. \A l \in labels : tarda[l] \in Nat /\ tarda[l] \in S /\ l.resolved_at = l.at + tarda[l]
  BY <1>3
<1> DEFINE m == Max({0} \cup S)
<1> HIDE DEF labels, tarda
<1>8. {0} \cup S \in SUBSET Nat /\ {0} \cup S # {}
  BY <1>7
<1>9. IsFiniteSet({0} \cup S)
  <2> HIDE DEF S
  <2> QED BY <1>6, FS_Singleton, FS_Union
<1>10. m \in Nat /\ \A y \in {0} \cup S : y <= m
  <2> HIDE DEF S
  <2> QED BY <1>8, <1>9, MaxLema
<1> HIDE DEF m, S
<1>11. \A l \in labels : l.resolved_at <= l.at + m
  <2> TAKE l \in labels
  <2>1. tarda[l] <= m /\ tarda[l] \in Nat /\ l.resolved_at = l.at + tarda[l] /\ l.at \in Nat
    BY <1>3, <1>7, <1>10
  <2> QED
    BY <1>10, <2>1
<1> QED
  BY <1>5, <1>10, <1>11 DEF labels, m

\* A part of a window ends a purge before the next one begins.
LEMMA PartesLema ==
    ASSUME NEW purga \in Nat, NEW fin \in Nat, NEW p,
           p = [train |-> 2, validation |-> 1, test |-> 1, step |-> 1, purge |-> purga, fin |-> fin],
           NEW split \in walk_forward_splits(p)
    PROVE  /\ split["train"].hasta \in Nat /\ split["validation"].hasta \in Nat
           /\ split["validation"].desde = split["train"].hasta + purga
           /\ split["test"].desde = split["validation"].hasta + purga
<1>1. /\ p.train = 2 /\ p.validation = 1 /\ p.test = 1 /\ p.step = 1 /\ p.purge = purga /\ p.fin = fin
  OBVIOUS
<1>2. PICK k \in 0 .. fin : split = TimeSplit(p, k * p.step)
  BY <1>1 DEF walk_forward_splits
<1>3. k * p.step \in Nat
  BY <1>1
<1> DEFINE n == k * p.step
<1> HIDE DEF n
<1>4. n \in Nat /\ split = TimeSplit(p, n)
  BY <1>2, <1>3 DEF n
<1>5. /\ split["train"].hasta = n + p.train
      /\ split["validation"].desde = n + p.train + p.purge
      /\ split["validation"].hasta = n + p.train + p.purge + p.validation
      /\ split["test"].desde = n + p.train + p.purge + p.validation + p.purge
  BY <1>4 DEF TimeSplit, Tramo
<1> QED
  BY <1>1, <1>4, <1>5

-----------------------------------------------------------------------------
(* The trailing stop                                                       *)

\* Where a replay ends.
Donde(s, n) == IF Saltos(s, n) # {} THEN Min(Saltos(s, n)) ELSE Len(s)
Cumbre(s) == Min({i \in DOMAIN s : s[i].precio = Cima(s, Len(s))})

LEMMA SaleLema ==
    ASSUME NEW s, NEW n
    PROVE  /\ backtest_series(s, n).exit_index = Donde(s, n)
           /\ backtest_series(s, n).captured_peak = (Donde(s, n) >= Cumbre(s))
           /\ backtest_series(s, n).exit_reason = IF Saltos(s, n) # {} THEN "trailing" ELSE "fin de serie"
           /\ backtest_series(s, n).profit =
                  Truncado((BASIS_POINTS - LADO_COSTE) * s[Donde(s, n)].precio, s[1].precio)
                  - (BASIS_POINTS + LADO_COSTE)
BY DEF backtest_series, Donde, Cumbre

\* The peak so far is one of the prices so far.
LEMMA CimaLema ==
    ASSUME NEW s, EsSerie(s), NEW h \in 1 .. Len(s)
    PROVE  Cima(s, h) \in Nat /\ \E i \in 1 .. h : s[i].precio = Cima(s, h)
<1> DEFINE f == [i \in 1 .. h |-> s[i].precio]
           S == {f[i] : i \in 1 .. h}
<1>1. Len(s) \in Nat /\ h \in 1 .. h /\ \A i \in 1 .. h : i \in 1 .. Len(s) /\ f[i] \in Nat
  BY PuntosLema
<1>2. IsFiniteSet(S)
  <2>1. DOMAIN f = 1 .. h /\ IsFiniteSet(1 .. h)
    BY <1>1, FS_Interval
  <2> HIDE DEF f
  <2> QED BY <2>1, ImagenLema
<1>3. Cima(s, h) = Max(S)
  BY DEF Cima
<1>4. S \in SUBSET Nat /\ S # {}
  BY <1>1
<1>5. Max(S) \in S
  <2> HIDE DEF S
  <2> QED BY <1>2, <1>4, MaxLema
<1> QED
  BY <1>3, <1>4, <1>5

\* Jumps stay where they were when more arrives.
LEMMA SaltosLema ==
    ASSUME NEW s, NEW p, Sigue(s, p), NEW n
    PROVE  /\ Saltos(s, n) \subseteq 2 .. Len(s) /\ Saltos(Append(s, p), n) \subseteq 2 .. Len(s) + 1
           /\ \A k \in 2 .. Len(s) : k \in Saltos(Append(s, p), n) <=> k \in Saltos(s, n)
<1> DEFINE a == Append(s, p)
<1>1. /\ Len(s) \in Nat /\ Len(a) = Len(s) + 1
      /\ \A k \in 1 .. Len(s) : a[k] = s[k]
  BY SigueLema
<1> HIDE DEF a
<1>2. ASSUME NEW k \in 2 .. Len(s) PROVE k \in Saltos(a, n) <=> k \in Saltos(s, n)
  <2>1. \A i \in 1 .. k : a[i] = s[i]
    BY <1>1
  <2>2. {a[i].precio : i \in 1 .. k} = {s[i].precio : i \in 1 .. k}
    BY <2>1
  <2>3. Cima(a, k) = Cima(s, k)
    BY <2>2 DEF Cima
  <2>4. k \in 2 .. Len(a) /\ a[k] = s[k]
    BY <1>1
  <2> QED
    BY <2>3, <2>4 DEF Saltos
<1>3. Saltos(s, n) \subseteq 2 .. Len(s) /\ Saltos(a, n) \subseteq 2 .. Len(s) + 1
  BY <1>1 DEF Saltos
<1> QED
  BY <1>2, <1>3 DEF a

\* A stop that has closed has closed there, and for that.
LEMMA CerradoLema ==
    ASSUME NEW s, NEW p, Sigue(s, p), NEW n, Saltos(s, n) # {}
    PROVE  /\ Donde(Append(s, p), n) = Donde(s, n) /\ Donde(s, n) \in 1 .. Len(s)
<1> DEFINE a == Append(s, p)
           j == Min(Saltos(s, n))
<1>1. Len(s) \in Nat
  BY SigueLema
<1>2. /\ Saltos(s, n) \subseteq 2 .. Len(s) /\ Saltos(a, n) \subseteq 2 .. Len(s) + 1
      /\ \A k \in 2 .. Len(s) : k \in Saltos(a, n) <=> k \in Saltos(s, n)
  BY SaltosLema
<1> HIDE DEF a
<1>3. j \in Saltos(s, n) /\ \A y \in Saltos(s, n) : j <= y
  <2>1. Saltos(s, n) \in SUBSET Nat
    BY <1>2
  <2> QED
    BY <2>1, MinLema
<1> HIDE DEF j
<1>4. Min(Saltos(a, n)) = j
  <2>1. Saltos(a, n) \in SUBSET Nat /\ j \in Saltos(a, n) /\ j \in 2 .. Len(s)
    BY <1>2, <1>3
  <2>2. ASSUME NEW y \in Saltos(a, n) PROVE j <= y
    <3>1. CASE y \in 2 .. Len(s)
      BY <1>2, <1>3, <3>1
    <3>2. CASE y = Len(s) + 1
      BY <1>1, <2>1, <3>2
    <3> QED
      BY <1>1, <1>2, <2>2, <3>1, <3>2
  <2> QED
    BY <2>1, <2>2, MinUnico
<1>5. Donde(a, n) = j /\ Donde(s, n) = j /\ j \in 1 .. Len(s)
  BY <1>1, <1>2, <1>3, <1>4 DEF Donde, j
<1> QED
  BY <1>5 DEF a

\* A wider stop closes later, so it sees the peak if a tighter one does.
LEMMA AnchoLema ==
    ASSUME NEW s, EsSerie(s), Utilizable(s), NEW n \in Niveles, NEW ancho \in Niveles, n <= ancho,
           backtest_series(s, n).captured_peak
    PROVE  backtest_series(s, ancho).captured_peak
<1>1. Len(s) \in Nat /\ DOMAIN s = 1 .. Len(s) /\ Len(s) \in 1 .. Len(s)
  BY PuntosLema DEF Utilizable
<1>2. n \in Nat /\ ancho \in Nat
  BY SeriesAssumption
<1>3. Saltos(s, ancho) \subseteq Saltos(s, n)
  <2> SUFFICES ASSUME NEW k \in Saltos(s, ancho) PROVE k \in Saltos(s, n)
    OBVIOUS
  <2>1. k \in 2 .. Len(s) /\ Cima(s, k) > 0 /\ (Cima(s, k) - s[k].precio) * 100 >= ancho * Cima(s, k)
    BY DEF Saltos
  <2> DEFINE c == Cima(s, k)
             d == (c - s[k].precio) * 100
  <2>2. c \in Nat /\ s[k].precio \in Nat
    <3>1. k \in 1 .. Len(s)
      BY <1>1, <2>1
    <3> QED
      BY <3>1, CimaLema, PuntosLema
  <2>3. ancho * c >= n * c /\ ancho * c \in Nat /\ n * c \in Nat
    <3> HIDE DEF c
    <3>1. PICK r \in Nat : ancho = n + r
      <4>1. ancho - n \in Nat /\ ancho = n + (ancho - n)
        BY <1>2
      <4> QED
        BY <4>1
    <3>2. ancho * c = n * c + r * c /\ n * c \in Nat /\ r * c \in Nat
      BY <1>2, <2>2, <3>1
    <3> QED
      BY <3>2
  <2>4. d \in Int
    BY <2>2
  <2>5. d >= n * c
    <3>1. d >= ancho * c
      BY <2>1
    <3> HIDE DEF c, d
    <3> QED
      BY <2>3, <2>4, <3>1
  <2> QED
    BY <2>1, <2>5 DEF Saltos
<1>4. Saltos(s, n) \subseteq 2 .. Len(s)
  BY DEF Saltos
<1>5. Donde(s, n) \in Nat /\ Donde(s, ancho) \in Nat /\ Donde(s, n) <= Donde(s, ancho)
  <2>1. CASE Saltos(s, ancho) # {}
    <3>1. Saltos(s, n) \in SUBSET Nat /\ Saltos(s, ancho) \in SUBSET Nat /\ Saltos(s, n) # {}
      BY <1>1, <1>3, <1>4, <2>1
    <3>2. /\ Min(Saltos(s, ancho)) \in Saltos(s, ancho)
          /\ Min(Saltos(s, n)) \in Saltos(s, n) /\ \A y \in Saltos(s, n) : Min(Saltos(s, n)) <= y
      BY <2>1, <3>1, MinLema
    <3> QED
      BY <1>3, <2>1, <3>1, <3>2 DEF Donde
  <2>2. CASE Saltos(s, ancho) = {} /\ Saltos(s, n) # {}
    <3>1. Saltos(s, n) \in SUBSET Nat
      BY <1>1, <1>4
    <3>2. Min(Saltos(s, n)) \in Saltos(s, n)
      BY <2>2, <3>1, MinLema
    <3> QED
      BY <1>1, <1>4, <2>2, <3>2 DEF Donde
  <2>3. CASE Saltos(s, ancho) = {} /\ Saltos(s, n) = {}
    BY <1>1, <2>3 DEF Donde
  <2> QED
    BY <2>1, <2>2, <2>3
<1>6. Cumbre(s) \in Nat
  <2> DEFINE S == {i \in DOMAIN s : s[i].precio = Cima(s, Len(s))}
  <2>1. S \in SUBSET Nat /\ S # {}
    <3>1. PICK i \in 1 .. Len(s) : s[i].precio = Cima(s, Len(s))
      BY <1>1, CimaLema
    <3>2. i \in S
      BY <1>1, <3>1
    <3> QED
      BY <1>1, <3>2
  <2>2. Min(S) \in S
    <3> HIDE DEF S
    <3> QED BY <2>1, MinLema
  <2> QED
    BY <2>1, <2>2 DEF Cumbre
<1>7. Donde(s, n) >= Cumbre(s)
  BY SaleLema
<1>8. Donde(s, ancho) >= Cumbre(s)
  BY <1>5, <1>6, <1>7
<1> QED
  BY <1>8, SaleLema

-----------------------------------------------------------------------------
(* Nothing looks ahead                                                     *)

\* A series up to a moment is a series.
LEMMA PrefijoLema == ASSUME EsSerie(serie), NEW s \in Prefijos PROVE EsSerie(s)
<1>1. PICK n \in 0 .. Len(serie) : s = SubSeq(serie, 1, n)
  BY DEF Prefijos
<1>2. serie \in Seq(Puntos) /\ Len(serie) \in Nat
  BY DEF EsSerie
<1>3. s \in Seq(Puntos) /\ Len(s) = n /\ \A i \in 1 .. n : s[i] = serie[i]
  BY <1>1, <1>2
<1>4. \A i \in 1 .. n : i \in 1 .. Len(serie)
  BY <1>2
<1> QED
  BY <1>3, <1>4 DEF EsSerie

LEMMA SeparadasLema == EsSerie(serie) => VentanasSeparadas
<1> SUFFICES ASSUME EsSerie(serie) PROVE VentanasSeparadas
  OBVIOUS
<1> DEFINE labels == label_series(serie)
           purga == max_resolution(labels)
           p == [train |-> 2, validation |-> 1, test |-> 1, step |-> 1,
                 purge |-> purga, fin |-> Ahora(serie)]
           De(split, parte) == {l \in labels : l.at \in select(split, parte, Cortes(serie))}
           hasta(split, parte) == {l.resolved_at : l \in De(split, parte)}
<1>1. purga \in Nat /\ \A l \in labels : l.resolved_at <= l.at + purga
  BY PurgaLema
<1>2. \A l \in labels : l.at \in Nat /\ l.resolved_at \in Nat
  <2>1. DOMAIN serie = 1 .. Len(serie)
    BY PuntosLema
  <2>2. \A l \in labels : \E i \in 1 .. Len(serie) : l \in label_observation(serie, i)
    BY <2>1 DEF label_series
  <2> QED
    BY <2>2, EtiquetaLema
<1>3. Ahora(serie) \in Nat
  BY AhoraLema
<1>4. ASSUME NEW split \in walk_forward_splits(p)
      PROVE  /\ \A t \in hasta(split, "train") : t < split["validation"].desde
             /\ \A t \in hasta(split, "validation") : t < split["test"].desde
  <2>1. /\ split["train"].hasta \in Nat /\ split["validation"].hasta \in Nat
        /\ split["validation"].desde = split["train"].hasta + purga
        /\ split["test"].desde = split["validation"].hasta + purga
    <3> DEFINE q == p
    <3>1. /\ q = [train |-> 2, validation |-> 1, test |-> 1, step |-> 1, purge |-> purga, fin |-> Ahora(serie)]
          /\ split \in walk_forward_splits(q)
      BY <1>4
    <3> HIDE DEF q, purga
    <3> QED BY <1>1, <1>3, <3>1, PartesLema
  <2>2. ASSUME NEW parte \in {"train", "validation"}, NEW t \in hasta(split, parte)
        PROVE  t < split[parte].hasta + purga
    <3>1. PICK l \in labels : l.at < split[parte].hasta /\ t = l.resolved_at
      BY <2>2 DEF select
    <3>2. l.at \in Nat /\ l.resolved_at \in Nat /\ l.resolved_at <= l.at + purga /\ split[parte].hasta \in Nat
      BY <1>1, <1>2, <2>1
    <3> HIDE DEF purga, labels
    <3> QED
      BY <1>1, <3>1, <3>2
  <2> HIDE DEF hasta, purga, p
  <2> QED
    BY <2>1, <2>2
<1>5. ASSUME NEW n \in Niveles, NEW ancho \in Niveles, n <= ancho
      PROVE  sweep(Prefijos, n).captured_peak <= sweep(Prefijos, ancho).captured_peak
  <2> DEFINE Ven(k) == {s \in {s \in Prefijos : Utilizable(s)} : backtest_series(s, k).captured_peak}
  <2>1. \A k : sweep(Prefijos, k).captured_peak = Cardinality(Ven(k))
    BY DEF sweep
  <2>2. Ven(n) \subseteq Ven(ancho)
    BY <1>5, PrefijoLema, AnchoLema
  <2>3. IsFiniteSet(Prefijos)
    <3> DEFINE f == [n1 \in 0 .. Len(serie) |-> SubSeq(serie, 1, n1)]
    <3>1. IsFiniteSet(0 .. Len(serie)) /\ DOMAIN f = 0 .. Len(serie)
      BY PuntosLema, FS_Interval
    <3>2. Prefijos = {f[x] : x \in 0 .. Len(serie)}
      BY DEF Prefijos
    <3> HIDE DEF f
    <3> QED BY <3>1, <3>2, ImagenLema
  <2>4. Ven(ancho) \subseteq Prefijos
    OBVIOUS
  <2> HIDE DEF Ven
  <2>5. IsFiniteSet(Ven(ancho))
    BY <2>3, <2>4, FS_Subset
  <2>6. Cardinality(Ven(n)) <= Cardinality(Ven(ancho))
    BY <2>2, <2>5, FS_Subset
  <2> QED
    BY <2>1, <2>6
<1> QED
  BY <1>4, <1>5 DEF VentanasSeparadas

LEMMA AdelanteLema == EsSerie(serie) /\ Llega => NoCambiaLoVisto
<1> SUFFICES ASSUME EsSerie(serie), Llega PROVE NoCambiaLoVisto
  OBVIOUS
<1>1. PICK p \in Puntos : serie' = Append(serie, p) /\ Sigue(serie, p)
  BY LlegaLema
<1>2. ASSUME NEW as_of \in Cortes(serie), NEW v \in Ventanas
      PROVE  compute(serie', v, as_of) = compute(serie, v, as_of)
  BY <1>1, VentanaLema
<1>3. ASSUME NEW as_of \in Cortes(serie), NEW purge \in Purgas
      PROVE  select_train(label_series(serie'), as_of, purge)
                 = select_train(label_series(serie), as_of, purge)
  BY <1>1, EntrenarLema, SeriesAssumption
<1>4. ASSUME NEW n \in Niveles, Utilizable(serie), backtest_series(serie, n).exit_reason = "trailing"
      PROVE  /\ backtest_series(serie', n).exit_index = backtest_series(serie, n).exit_index
             /\ backtest_series(serie', n).profit = backtest_series(serie, n).profit
  <2>1. Saltos(serie, n) # {}
    BY <1>4, SaleLema
  <2>2. Donde(serie', n) = Donde(serie, n) /\ Donde(serie, n) \in 1 .. Len(serie)
    BY <1>1, <2>1, CerradoLema
  <2>3. serie'[Donde(serie, n)] = serie[Donde(serie, n)] /\ serie'[1] = serie[1]
    <3>1. 1 \in 1 .. Len(serie)
      BY <1>4, PuntosLema DEF Utilizable
    <3> QED
      BY <1>1, <2>2, <3>1, SigueLema
  <2> QED
    BY <2>2, <2>3, SaleLema
<1> QED
  BY <1>2, <1>3, <1>4 DEF NoCambiaLoVisto

\* A series is in order of time, whatever prices arrive and whenever.
LEMMA Serie_Inv == SpecSerie => []EsSerie(serie)
<1>1. EsSerie(serie) /\ [Llega]_serie => EsSerie(serie)'
  <2> SUFFICES ASSUME EsSerie(serie), [Llega]_serie PROVE EsSerie(serie')
    OBVIOUS
  <2>1. CASE Llega
    BY <2>1, LlegaLema DEF Sigue
  <2>2. CASE UNCHANGED serie
    BY <2>2
  <2> QED
    BY <2>1, <2>2
<1> QED
  BY <1>1, Serie_Init, PTL DEF SpecSerie

\* Nothing that is computed about a moment changes with what arrives later,
\* for any prices, levels, windows, horizons and purges, and the windows of a
\* walk-forward keep apart (windows.py:78-87, labeling.py:74-130,
\* training.py:56-64, trailing.py:62-179, walkforward.py:24-114).
THEOREM Serie_NadaMiraAdelante == SpecSerie => NadaMiraAdelante
<1>1. EsSerie(serie) /\ [Llega]_serie => [NoCambiaLoVisto]_serie
  BY AdelanteLema
<1> QED
  BY <1>1, Serie_Inv, SeparadasLema, PTL DEF SpecSerie, NadaMiraAdelante
===============================================================================
