---------------------------- MODULE SignerProofs ----------------------------
(***************************************************************************)
(* Machine-checked proofs about the signing service.  Whatever the wallets, *)
(* the transactions offered, the caps and the faults allowed:               *)
(*                                                                         *)
(*   - every variable keeps its type;                                      *)
(*   - the orders of a day stay under the daily cap, and what was signed    *)
(*     today is in the file, while the counter is reliable;                *)
(*   - no step signs more than the cap per order;                          *)
(*   - SOL leaves only for the first wallet registered;                    *)
(*   - the process with its key store does all this too, and the key of    *)
(*     the address that was shown is never replaced;                       *)
(*   - what a preparation offers is what its summary says, with the floor   *)
(*     and the cap of its own amounts, whatever is retried or cached.      *)
(*                                                                         *)
(* The caps and the wallet rest on three inductive invariants,             *)
(* CuentaInv, OrdenInv and RetiradaInv; the key store, on LlaveroInv; the  *)
(* preparation, on what each request may be at its step (Recta).           *)
(***************************************************************************)
EXTENDS Firmante, TradePrepare, TLAPS

\* Account c covers what has been signed: it is not of a later day than today,
\* nothing is signed for a day after its own, and it holds at least what was
\* signed on its own day.
Cubre(c) ==
    /\ c.dia <= hoy
    /\ \A d \in Dias : d > c.dia => firmado[d] = 0
    /\ firmado[c.dia] <= c.gastado

EsOrden == peticion.destinos = {}

\* Why the daily cap holds: the account in memory and the one on disk both
\* cover what was signed, and an accepted order fits in the account at every
\* stage, is in memory before it is saved and on disk before it is signed.
CuentaFiable ==
    /\ \A d \in Dias : firmado[d] <= MaxDiario
    /\ Cubre(contador)
    /\ disco # Ilegible
    /\ disco = SinFichero => \A d \in Dias : firmado[d] = 0
    /\ disco # SinFichero => Cubre(disco)
    /\ paso = "validada" /\ EsOrden => contador.gastado + peticion.importe <= MaxDiario
    /\ paso \in {"anotada", "guardada"} /\ EsOrden =>
          /\ firmado[contador.dia] + peticion.importe <= contador.gastado
          /\ contador.gastado <= MaxDiario
    /\ paso = "guardada" => disco = contador
    /\ ~vivo => paso = "libre"

CuentaInv == ContadorFiable => CuentaFiable

\* Why the cap per order holds: the order being served is under it.
OrdenInv ==
    paso \in {"validada", "anotada", "guardada"} /\ EsOrden => peticion.importe <= MaxPorOrden

\* Why SOL leaves only for the first wallet: except while it is being written,
\* the file holds the first wallet registered, and a withdrawal that was
\* accepted goes to it.
RetiradaInv ==
    "retirada" \notin fallado =>
        /\ ~vivo => paso = "libre"
        /\ paso # "escribiendo" => retirada = fijada
        /\ paso = "escribiendo" =>
              \E d \in Carteras : peticion.destinos = {d} /\ fijada \in {Nadie, d}
        /\ paso \in {"validada", "anotada", "guardada"} /\ ~EsOrden =>
              fijada # Nadie /\ peticion.destinos = {fijada}

-----------------------------------------------------------------------------

\* What the account of today looks like (Contador._al_dia).
LEMMA AlDiaLema ==
    ASSUME TypeOK
    PROVE  /\ AlDia(contador) \in Cuentas
           /\ AlDia(contador).dia = hoy
           /\ contador.dia = hoy => AlDia(contador) = contador
           /\ contador.dia # hoy => AlDia(contador).gastado = 0
  BY DEF TypeOK, Cuentas, AlDia

\* A save writes the account, or fails and leaves the counter unreliable.
LEMMA GuardarLema ==
    ASSUME NEW c, Guardar(c)
    PROVE  /\ disco' \in {c, disco}
           /\ fallado' \in {fallado, fallado \cup {"contador"}}
           /\ ContadorFiable' => ContadorFiable /\ disco' = c
  BY DEF Guardar, Ocurre, ContadorFiable

\* The same for the save that is only made when the day changes.
LEMMA GuardarSiCambiaLema ==
    ASSUME NEW c, GuardarSiCambia(c)
    PROVE  /\ disco' \in {c, disco}
           /\ fallado' \in {fallado, fallado \cup {"contador"}}
           /\ ContadorFiable' => /\ ContadorFiable
                                /\ disco' = IF c = contador THEN disco ELSE c
  BY GuardarLema DEF GuardarSiCambia, ContadorFiable

\* Going on to today keeps an account ahead of the signatures.
LEMMA AlDiaCubre ==
    ASSUME TypeOK, Cubre(contador)
    PROVE  Cubre(AlDia(contador))
<1>1. CASE contador.dia = hoy
  BY <1>1, AlDiaLema
<1>2. CASE contador.dia # hoy
  <2>1. contador.dia < hoy /\ hoy \in Dias /\ contador.dia \in Dias
    BY <1>2, NumerosAssumption DEF TypeOK, Cubre, Cuentas, Dias
  <2>2. AlDia(contador) = [dia |-> hoy, gastado |-> 0]
    BY <1>2 DEF AlDia
  <2>3. firmado[hoy] = 0
    BY <2>1 DEF Cubre
  <2>4. \A d \in Dias : d > hoy => firmado[d] = 0
    BY <2>1, NumerosAssumption DEF Cubre, Dias
  <2> QED
    BY <2>1, <2>2, <2>3, <2>4, NumerosAssumption DEF Cubre, Dias
<1> QED
  BY <1>1, <1>2

\* Every step keeps the types.
LEMMA TypeOK_Step == TypeOK /\ [Next]_vars => TypeOK'
<1> SUFFICES ASSUME TypeOK, [Next]_vars PROVE TypeOK'
  OBVIOUS
<1> USE DireccionesAssumption, TransaccionesAssumption, NumerosAssumption DEF TypeOK, Dias, Cuentas
<1>1. ASSUME NEW tx \in Transacciones, NEW n \in Importes, AceptarRetirada(tx, n) PROVE TypeOK'
  BY <1>1 DEF AceptarRetirada, Atiende, EsRetiradaValida, memoria, ghost, Pasos
<1>2. ASSUME NEW tx \in Transacciones, NEW n \in Importes, AceptarOrden(tx, n) PROVE TypeOK'
  <2>1. contador' = AlDia(contador) /\ GuardarSiCambia(AlDia(contador)) /\ n \in Nat
    BY <1>2 DEF AceptarOrden
  <2>2. contador' \in Cuentas /\ disco' \in Cuentas \cup {SinFichero, Ilegible}
    BY <2>1, AlDiaLema, GuardarSiCambiaLema
  <2>3. fallado' \subseteq {"contador", "retirada"}
    BY <2>1, GuardarSiCambiaLema
  <2> QED
    BY <1>2, <2>1, <2>2, <2>3 DEF AceptarOrden, Atiende, ghost, Pasos
<1>3. CASE PonerAlDia
  <2>1. contador' = AlDia(contador) /\ Guardar(AlDia(contador))
    BY <1>3 DEF PonerAlDia
  <2>2. contador' \in Cuentas /\ disco' \in Cuentas \cup {SinFichero, Ilegible}
    BY <2>1, AlDiaLema, GuardarLema
  <2>3. fallado' \subseteq {"contador", "retirada"}
    BY <2>1, GuardarLema
  <2> QED
    BY <1>3, <2>1, <2>2, <2>3 DEF PonerAlDia, Atiende, ghost, Pasos
<1>4. CASE Anotar
  <2>1. contador' = Anotado(AlDia(contador), peticion.importe) /\ GuardarSiCambia(AlDia(contador))
    BY <1>4 DEF Anotar
  <2>2. contador' \in Cuentas
    BY <2>1, AlDiaLema DEF Anotado
  <2>3. disco' \in Cuentas \cup {SinFichero, Ilegible} /\ fallado' \subseteq {"contador", "retirada"}
    BY <2>1, AlDiaLema, GuardarSiCambiaLema
  <2>4. paso' \in Pasos /\ UNCHANGED <<modo, vivo, hoy, retirada, peticion, firmado, salidas, fijada>>
    BY <1>4 DEF Anotar, ghost, Pasos
  <2> QED
    BY <2>2, <2>3, <2>4
<1>5. CASE GuardarContador
  <2>1. Guardar(contador)
    BY <1>5 DEF GuardarContador
  <2>2. disco' \in Cuentas \cup {SinFichero, Ilegible} /\ fallado' \subseteq {"contador", "retirada"}
    BY <2>1, GuardarLema
  <2>3. paso' \in Pasos /\ UNCHANGED <<modo, vivo, hoy, contador, retirada, peticion, firmado, salidas, fijada>>
    BY <1>5 DEF GuardarContador, ghost, Pasos
  <2> QED
    BY <2>2, <2>3
<1>6. CASE Firmar
  <2>1. contador.dia \in Dias /\ peticion.importe \in Nat /\ peticion.destinos \subseteq Carteras \cup {Nadie}
    OBVIOUS
  <2>2. firmado' \in [Dias -> Nat]
    <3>1. CASE peticion.destinos = {}
      <4>1. firmado' = [firmado EXCEPT ![contador.dia] = @ + peticion.importe]
        BY <1>6, <3>1 DEF Firmar
      <4> QED
        BY <2>1, <4>1
    <3>2. CASE peticion.destinos # {}
      BY <1>6, <3>2 DEF Firmar
    <3> QED
      BY <3>1, <3>2
  <2>3. salidas' \subseteq Carteras \cup {Nadie}
    BY <1>6, <2>1 DEF Firmar
  <2>4. peticion' \in [importe : Nat, destinos : SUBSET (Carteras \cup {Nadie})] /\ paso' \in Pasos
    BY <1>6 DEF Firmar, Ocioso, Pasos
  <2>5. UNCHANGED <<modo, vivo, hoy, contador, disco, retirada, fijada, fallado>>
    BY <1>6 DEF Firmar
  <2> QED
    BY <2>2, <2>3, <2>4, <2>5
<1>7. ASSUME NEW w \in Carteras \cup {Propia}, Registrar(w) PROVE TypeOK'
  BY <1>7 DEF Registrar, Atiende, PuedeRegistrar, memoria, ghost, Pasos
<1>8. CASE TerminarRegistro
  BY <1>8 DEF TerminarRegistro, Ocioso, memoria, ghost, Pasos
<1>9. CASE Caer
  BY <1>9 DEF Caer, Ocioso, Ocurre, memoria, ghost, Pasos
<1>10. ASSUME NEW m \in {"disabled", "local_encrypted"}, Arrancar(m) PROVE TypeOK'
  BY <1>10 DEF Arrancar, Leido, memoria, ghost, Pasos
<1>11. CASE BorrarRetirada
  BY <1>11 DEF BorrarRetirada, memoria, ghost, Pasos
<1>12. CASE Medianoche
  BY <1>12 DEF Medianoche, memoria, ghost, Pasos
<1>13. CASE AtrasarReloj
  BY <1>13 DEF AtrasarReloj, Ocurre, memoria, ghost, Pasos
<1>14. CASE DanarFichero
  BY <1>14 DEF DanarFichero, Ocurre, memoria, ghost, Pasos
<1>15. CASE UNCHANGED vars
  BY <1>15 DEF vars, memoria, ghost, Pasos
<1> QED
  BY <1>1, <1>2, <1>3, <1>4, <1>5, <1>6, <1>7, <1>8, <1>9, <1>10, <1>11, <1>12, <1>13, <1>14, <1>15 DEF Next

\* Every variable keeps its type, for every instance of the service.
THEOREM Spec_TypeOK == Spec => []TypeOK
<1>1. Init => TypeOK
  BY NumerosAssumption DEF Init, TypeOK, Dias, Cuentas, Pasos, Ocioso
<1> QED
  BY <1>1, TypeOK_Step, PTL DEF Spec

\* Every step keeps the accounts ahead of the signatures.
LEMMA Cuenta_Step == TypeOK /\ CuentaInv /\ [Next]_vars => CuentaInv'
<1> SUFFICES ASSUME TypeOK, CuentaInv, [Next]_vars PROVE CuentaInv'
  OBVIOUS
<1> USE NumerosAssumption, FicheroAssumption
<1>1. ASSUME NEW tx \in Transacciones, NEW n \in Importes, AceptarRetirada(tx, n) PROVE CuentaInv'
  BY <1>1 DEF AceptarRetirada, Atiende, EsRetiradaValida, memoria, ghost, ContadorFiable, TypeOK, Dias, Cuentas, CuentaInv, CuentaFiable, Cubre, EsOrden
<1>2. ASSUME NEW tx \in Transacciones, NEW n \in Importes, AceptarOrden(tx, n) PROVE CuentaInv'
  <2> SUFFICES ASSUME ContadorFiable' PROVE CuentaFiable'
    BY DEF CuentaInv
  <2>1. /\ contador' = AlDia(contador) /\ GuardarSiCambia(AlDia(contador))
        /\ Cabe(contador', n) /\ paso' = "validada" /\ peticion'.importe = n
        /\ vivo /\ UNCHANGED <<vivo, hoy, firmado>>
    BY <1>2 DEF AceptarOrden, Atiende, ghost
  <2>2. ContadorFiable /\ CuentaFiable
    BY <2>1, GuardarSiCambiaLema DEF CuentaInv
  <2>3. disco' = IF AlDia(contador) = contador THEN disco ELSE AlDia(contador)
    BY <2>1, GuardarSiCambiaLema
  <2>4. Cubre(AlDia(contador)) /\ AlDia(contador) \in Cuentas
    BY <2>2, AlDiaCubre, AlDiaLema DEF CuentaFiable
  <2>5. contador'.gastado + peticion'.importe <= MaxDiario
    BY <2>1 DEF Cabe
  <2> QED
    BY <2>1, <2>2, <2>3, <2>4, <2>5, FicheroAssumption DEF CuentaFiable, Cubre, EsOrden
<1>3. CASE PonerAlDia
  <2> SUFFICES ASSUME ContadorFiable' PROVE CuentaFiable'
    BY DEF CuentaInv
  <2>1. /\ contador' = AlDia(contador) /\ Guardar(AlDia(contador))
        /\ paso = "libre" /\ vivo /\ UNCHANGED <<vivo, hoy, firmado, paso>>
    BY <1>3 DEF PonerAlDia, Atiende, ghost
  <2>2. CuentaFiable /\ disco' = AlDia(contador)
    BY <2>1, GuardarLema DEF CuentaInv
  <2>3. Cubre(AlDia(contador)) /\ AlDia(contador) \in Cuentas
    BY <2>2, AlDiaCubre, AlDiaLema DEF CuentaFiable
  <2> QED
    BY <2>1, <2>2, <2>3, FicheroAssumption DEF CuentaFiable, Cubre
<1>4. CASE Anotar
  <2> SUFFICES ASSUME ContadorFiable' PROVE CuentaFiable'
    BY DEF CuentaInv
  <2> DEFINE c == AlDia(contador)
  <2>1. /\ contador' = [c EXCEPT !.gastado = @ + peticion.importe]
        /\ GuardarSiCambia(c) /\ paso = "validada" /\ paso' = "anotada"
        /\ vivo /\ UNCHANGED <<vivo, hoy, firmado, peticion>>
    BY <1>4 DEF Anotar, Anotado, ghost
  <2>2. CuentaFiable
    BY <2>1, GuardarSiCambiaLema DEF CuentaInv
  <2>3. disco' = IF c = contador THEN disco ELSE c
    BY <2>1, GuardarSiCambiaLema
  <2>4. Cubre(c) /\ c \in Cuentas /\ c.dia \in Dias /\ c.gastado \in Nat
    BY <2>2, AlDiaCubre, AlDiaLema DEF CuentaFiable, Cuentas
  <2>5. contador'.dia = c.dia /\ contador'.gastado = c.gastado + peticion.importe
    BY <2>1, <2>4 DEF Cuentas
  <2>6. peticion.importe \in Nat /\ firmado[c.dia] \in Nat
    BY <2>4 DEF TypeOK
  <2>7. Cubre(contador)'
    BY <2>1, <2>4, <2>5, <2>6 DEF Cubre
  <2>8. EsOrden => contador'.gastado <= MaxDiario
    <3> SUFFICES ASSUME EsOrden PROVE contador'.gastado <= MaxDiario
      OBVIOUS
    <3>1. contador.gastado + peticion.importe <= MaxDiario
      BY <2>1, <2>2 DEF CuentaFiable
    <3>2. c = contador \/ c.gastado = 0
      BY AlDiaLema
    <3> QED
      BY <2>4, <2>5, <2>6, <3>1, <3>2, NumerosAssumption DEF TypeOK, Cuentas
  <2>9. firmado[contador'.dia] + peticion.importe <= contador'.gastado
    BY <2>4, <2>5, <2>6 DEF Cubre
  <2>10. disco' # Ilegible /\ (disco' # SinFichero => Cubre(disco)')
    BY <2>1, <2>2, <2>3, <2>4, FicheroAssumption DEF CuentaFiable, Cubre
  <2> QED
    BY <2>1, <2>2, <2>3, <2>4, <2>7, <2>8, <2>9, <2>10, FicheroAssumption DEF CuentaFiable, EsOrden
<1>5. CASE GuardarContador
  BY <1>5 DEF GuardarContador, Guardar, Ocurre, memoria, ghost, ContadorFiable, TypeOK, Dias, Cuentas, CuentaInv, CuentaFiable, Cubre, EsOrden
<1>6. CASE Firmar
  <2> SUFFICES ASSUME ContadorFiable' PROVE CuentaFiable'
    BY DEF CuentaInv
  <2>1. /\ paso = "guardada" /\ paso' = "libre"
        /\ vivo /\ UNCHANGED <<vivo, hoy, contador, disco, fallado>>
    BY <1>6 DEF Firmar
  <2>2. CuentaFiable /\ disco = contador
    BY <2>1 DEF CuentaInv, CuentaFiable, ContadorFiable
  <2>3. CASE ~EsOrden
    <3>1. firmado' = firmado
      BY <1>6, <2>3 DEF Firmar, EsOrden
    <3> QED
      BY <2>1, <2>2, <3>1 DEF CuentaFiable, Cubre
  <2>4. CASE EsOrden
    <3>1. firmado' = [firmado EXCEPT ![contador.dia] = @ + peticion.importe]
      BY <1>6, <2>4 DEF Firmar, EsOrden
    <3>2. /\ contador \in Cuentas /\ contador.dia \in Dias /\ contador.gastado \in Nat
          /\ peticion.importe \in Nat /\ firmado \in [Dias -> Nat]
      BY DEF TypeOK, Cuentas
    <3>3. /\ firmado[contador.dia] + peticion.importe <= contador.gastado
          /\ contador.gastado <= MaxDiario
      BY <2>1, <2>2, <2>4 DEF CuentaFiable
    <3>4. /\ firmado'[contador.dia] = firmado[contador.dia] + peticion.importe
          /\ \A d \in Dias : d # contador.dia => firmado'[d] = firmado[d]
      BY <3>1, <3>2
    <3>5. \A d \in Dias : firmado'[d] <= MaxDiario
      BY <2>2, <3>2, <3>3, <3>4, NumerosAssumption DEF CuentaFiable
    <3>6. Cubre(contador)'
      BY <2>1, <2>2, <3>2, <3>3, <3>4, NumerosAssumption DEF CuentaFiable, Cubre, Dias
    <3>7. disco' = contador' /\ disco' \in Cuentas
      BY <2>1, <2>2, <3>2
    <3> QED
      BY <2>1, <3>5, <3>6, <3>7, FicheroAssumption DEF CuentaFiable
  <2> QED
    BY <2>3, <2>4
<1>7. ASSUME NEW w \in Carteras \cup {Propia}, Registrar(w) PROVE CuentaInv'
  BY <1>7 DEF Registrar, Atiende, PuedeRegistrar, memoria, ghost, ContadorFiable, TypeOK, Dias, Cuentas, CuentaInv, CuentaFiable, Cubre, EsOrden
<1>8. CASE TerminarRegistro
  BY <1>8 DEF TerminarRegistro, Ocioso, memoria, ghost, ContadorFiable, TypeOK, Dias, Cuentas, CuentaInv, CuentaFiable, Cubre, EsOrden
<1>9. CASE Caer
  BY <1>9 DEF Caer, Ocioso, Ocurre, memoria, ghost, ContadorFiable, TypeOK, Dias, Cuentas, CuentaInv, CuentaFiable, Cubre, EsOrden
<1>10. ASSUME NEW m \in {"disabled", "local_encrypted"}, Arrancar(m) PROVE CuentaInv'
  <2> SUFFICES ASSUME ContadorFiable' PROVE CuentaFiable'
    BY DEF CuentaInv
  <2>1. /\ contador' = Leido(disco) /\ UNCHANGED <<hoy, disco, paso, peticion, firmado, fallado>>
    BY <1>10 DEF Arrancar, ghost
  <2>2. CuentaFiable /\ ContadorFiable
    BY <2>1 DEF CuentaInv, ContadorFiable
  <2>3. paso = "libre"
    BY <1>10, <2>2 DEF Arrancar, CuentaFiable
  <2>4. Cubre(contador)'
    <3>1. CASE disco = SinFichero
      <4>1. contador' = [dia |-> hoy, gastado |-> 0]
        BY <2>1, <3>1 DEF Leido
      <4> QED
        BY <2>1, <2>2, <3>1, <4>1, NumerosAssumption DEF CuentaFiable, Cubre, TypeOK, Dias
    <3>2. CASE disco # SinFichero
      BY <2>1, <2>2, <3>2 DEF CuentaFiable, Cubre, Leido
    <3> QED
      BY <3>1, <3>2
  <2> QED
    BY <2>1, <2>2, <2>3, <2>4 DEF CuentaFiable, Cubre
<1>11. CASE BorrarRetirada
  BY <1>11 DEF BorrarRetirada, memoria, ghost, ContadorFiable, TypeOK, Dias, Cuentas, CuentaInv, CuentaFiable, Cubre, EsOrden
<1>12. CASE Medianoche
  BY <1>12 DEF Medianoche, memoria, ghost, ContadorFiable, TypeOK, Dias, Cuentas, CuentaInv, CuentaFiable, Cubre, EsOrden
<1>13. CASE AtrasarReloj
  BY <1>13 DEF AtrasarReloj, Ocurre, memoria, ghost, ContadorFiable, TypeOK, Dias, Cuentas, CuentaInv, CuentaFiable, Cubre, EsOrden
<1>14. CASE DanarFichero
  BY <1>14 DEF DanarFichero, Ocurre, memoria, ghost, ContadorFiable, TypeOK, Dias, Cuentas, CuentaInv, CuentaFiable, Cubre, EsOrden
<1>15. CASE UNCHANGED vars
  BY <1>15 DEF vars, memoria, ghost, ContadorFiable, TypeOK, Dias, Cuentas, CuentaInv, CuentaFiable, Cubre, EsOrden
<1> QED
  BY <1>1, <1>2, <1>3, <1>4, <1>5, <1>6, <1>7, <1>8, <1>9, <1>10, <1>11, <1>12, <1>13, <1>14, <1>15 DEF Next

\* Every step keeps the order being served under the cap.
LEMMA Orden_Step == TypeOK /\ OrdenInv /\ [Next]_vars => OrdenInv'
<1> SUFFICES ASSUME TypeOK, OrdenInv, [Next]_vars PROVE OrdenInv'
  OBVIOUS
<1> USE NumerosAssumption DEF TypeOK, OrdenInv, EsOrden
<1>1. ASSUME NEW tx \in Transacciones, NEW n \in Importes, AceptarRetirada(tx, n) PROVE OrdenInv'
  BY <1>1 DEF AceptarRetirada, Atiende, EsRetiradaValida, memoria, ghost
<1>2. ASSUME NEW tx \in Transacciones, NEW n \in Importes, AceptarOrden(tx, n) PROVE OrdenInv'
  BY <1>2 DEF AceptarOrden, Atiende, AlDia, Cabe, GuardarSiCambia, Guardar, Ocurre, BajoTopeOrden, memoria, ghost
<1>3. CASE PonerAlDia
  BY <1>3 DEF PonerAlDia, Atiende, AlDia, Guardar, Ocurre, memoria, ghost
<1>4. CASE Anotar
  BY <1>4 DEF Anotar, Anotado, AlDia, GuardarSiCambia, Guardar, Ocurre, memoria, ghost
<1>5. CASE GuardarContador
  BY <1>5 DEF GuardarContador, Guardar, Ocurre, memoria, ghost
<1>6. CASE Firmar
  BY <1>6 DEF Firmar, Ocioso, memoria, ghost
<1>7. ASSUME NEW w \in Carteras \cup {Propia}, Registrar(w) PROVE OrdenInv'
  BY <1>7 DEF Registrar, Atiende, PuedeRegistrar, memoria, ghost
<1>8. CASE TerminarRegistro
  BY <1>8 DEF TerminarRegistro, Ocioso, memoria, ghost
<1>9. CASE Caer
  BY <1>9 DEF Caer, Ocioso, Ocurre, memoria, ghost
<1>10. ASSUME NEW m \in {"disabled", "local_encrypted"}, Arrancar(m) PROVE OrdenInv'
  BY <1>10 DEF Arrancar, Leido, memoria, ghost
<1>11. CASE BorrarRetirada
  BY <1>11 DEF BorrarRetirada, memoria, ghost
<1>12. CASE Medianoche
  BY <1>12 DEF Medianoche, memoria, ghost
<1>13. CASE AtrasarReloj
  BY <1>13 DEF AtrasarReloj, Ocurre, memoria, ghost
<1>14. CASE DanarFichero
  BY <1>14 DEF DanarFichero, Ocurre, memoria, ghost
<1>15. CASE UNCHANGED vars
  BY <1>15 DEF vars, memoria, ghost
<1> QED
  BY <1>1, <1>2, <1>3, <1>4, <1>5, <1>6, <1>7, <1>8, <1>9, <1>10, <1>11, <1>12, <1>13, <1>14, <1>15 DEF Next

\* Every step keeps the wallet's file at the first wallet registered.
LEMMA Retirada_Step == TypeOK /\ RetiradaInv /\ [Next]_vars => RetiradaInv'
<1> SUFFICES ASSUME TypeOK, RetiradaInv, [Next]_vars PROVE RetiradaInv'
  OBVIOUS
<1> USE DireccionesAssumption DEF TypeOK, RetiradaInv, EsOrden
<1>1. ASSUME NEW tx \in Transacciones, NEW n \in Importes, AceptarRetirada(tx, n) PROVE RetiradaInv'
  BY <1>1 DEF AceptarRetirada, Atiende, EsRetiradaValida, memoria, ghost
<1>2. ASSUME NEW tx \in Transacciones, NEW n \in Importes, AceptarOrden(tx, n) PROVE RetiradaInv'
  BY <1>2 DEF AceptarOrden, Atiende, AlDia, Cabe, GuardarSiCambia, Guardar, Ocurre, BajoTopeOrden, memoria, ghost
<1>3. CASE PonerAlDia
  BY <1>3 DEF PonerAlDia, Atiende, AlDia, Guardar, Ocurre, memoria, ghost
<1>4. CASE Anotar
  BY <1>4 DEF Anotar, Anotado, AlDia, GuardarSiCambia, Guardar, Ocurre, memoria, ghost
<1>5. CASE GuardarContador
  BY <1>5 DEF GuardarContador, Guardar, Ocurre, memoria, ghost
<1>6. CASE Firmar
  BY <1>6 DEF Firmar, Ocioso, memoria, ghost
<1>7. ASSUME NEW w \in Carteras \cup {Propia}, Registrar(w) PROVE RetiradaInv'
  BY <1>7 DEF Registrar, Atiende, PuedeRegistrar, memoria, ghost
<1>8. CASE TerminarRegistro
  BY <1>8 DEF TerminarRegistro, Ocioso, memoria, ghost
<1>9. CASE Caer
  BY <1>9 DEF Caer, Ocioso, Ocurre, memoria, ghost
<1>10. ASSUME NEW m \in {"disabled", "local_encrypted"}, Arrancar(m) PROVE RetiradaInv'
  BY <1>10 DEF Arrancar, Leido, memoria, ghost
<1>11. CASE BorrarRetirada
  BY <1>11 DEF BorrarRetirada, memoria, ghost
<1>12. CASE Medianoche
  BY <1>12 DEF Medianoche, memoria, ghost
<1>13. CASE AtrasarReloj
  BY <1>13 DEF AtrasarReloj, Ocurre, memoria, ghost
<1>14. CASE DanarFichero
  BY <1>14 DEF DanarFichero, Ocurre, memoria, ghost
<1>15. CASE UNCHANGED vars
  BY <1>15 DEF vars, memoria, ghost
<1> QED
  BY <1>1, <1>2, <1>3, <1>4, <1>5, <1>6, <1>7, <1>8, <1>9, <1>10, <1>11, <1>12, <1>13, <1>14, <1>15 DEF Next

-----------------------------------------------------------------------------

\* The accounts stay ahead of the signatures for ever.
THEOREM Spec_CuentaInv == Spec => []CuentaInv
<1>1. Init => CuentaInv
  BY NumerosAssumption, FicheroAssumption DEF Init, CuentaInv, CuentaFiable, Cubre, Dias, Ocioso
<1> QED
  BY <1>1, Cuenta_Step, Spec_TypeOK, PTL DEF Spec

\* SECURITY.md's cap: while the counter is reliable, the orders signed on a day
\* never exceed SIGNER_MAX_DAILY_SOL, across any number of restarts, deaths
\* and midnights (policy.py:187-206, servicio.py:148-184).
THEOREM Spec_TopeDiario == Spec => []TopeDiario
<1>1. CuentaInv => TopeDiario
  BY DEF CuentaInv, CuentaFiable, TopeDiario
<1> QED
  BY <1>1, Spec_CuentaInv, PTL

\* What was signed today is in the counter file (policy.py:177-191).
THEOREM Spec_DiscoCubre == Spec => []DiscoCubre
<1>1. TypeOK /\ CuentaInv => DiscoCubre
  <2> SUFFICES ASSUME TypeOK, CuentaInv, ContadorFiable, firmado[hoy] > 0
               PROVE  disco \in Cuentas /\ disco.dia = hoy /\ disco.gastado >= firmado[hoy]
    BY DEF DiscoCubre
  <2>1. CuentaFiable /\ hoy \in Dias /\ firmado[hoy] \in Nat
    BY DEF CuentaInv, TypeOK
  <2>2. disco \in Cuentas /\ Cubre(disco)
    BY <2>1 DEF CuentaFiable, TypeOK
  <2>3. disco.dia \in Dias /\ disco.gastado \in Nat
    BY <2>2 DEF Cuentas
  <2>4. disco.dia = hoy
    BY <2>1, <2>2, <2>3, NumerosAssumption DEF Cubre, Dias
  <2> QED
    BY <2>1, <2>2, <2>3, <2>4 DEF Cubre
<1> QED
  BY <1>1, Spec_CuentaInv, Spec_TypeOK, PTL

\* No step signs orders for more than SIGNER_MAX_ORDER_SOL (policy.py:293-298).
THEOREM Spec_TopePorOrden == Spec => TopePorOrden
<1> DEFINE Paso == \A d \in Dias : firmado'[d] <= firmado[d] + MaxPorOrden
<1>1. Init => OrdenInv
  BY DEF Init, OrdenInv
<1>2. TypeOK /\ OrdenInv /\ [Next]_vars => [Paso]_vars
  <2> SUFFICES ASSUME TypeOK, OrdenInv, Next PROVE Paso
    OBVIOUS
  <2>1. CASE Firmar
    <3>1. CASE EsOrden
      <4>1. firmado' = [firmado EXCEPT ![contador.dia] = @ + peticion.importe]
        BY <2>1, <3>1 DEF Firmar, EsOrden
      <4>2. peticion.importe \in Nat /\ firmado \in [Dias -> Nat] /\ contador.dia \in Dias
        BY DEF TypeOK, Cuentas
      <4>3. peticion.importe <= MaxPorOrden
        BY <2>1, <3>1 DEF Firmar, OrdenInv
      <4> QED
        BY <4>1, <4>2, <4>3, NumerosAssumption
    <3>2. CASE ~EsOrden
      BY <2>1, <3>2, NumerosAssumption DEF Firmar, EsOrden, TypeOK
    <3> QED
      BY <3>1, <3>2
  <2>2. CASE UNCHANGED firmado
    BY <2>2, NumerosAssumption DEF TypeOK
  <2>3. Firmar \/ UNCHANGED firmado
    BY DEF Next, AceptarRetirada, AceptarOrden, PonerAlDia, Anotar, GuardarContador,
           Registrar, TerminarRegistro, Caer, Arrancar, BorrarRetirada, Medianoche,
           AtrasarReloj, DanarFichero, memoria, ghost
  <2> QED
    BY <2>1, <2>2, <2>3
<1> QED
  BY <1>1, <1>2, Orden_Step, Spec_TypeOK, PTL DEF Spec, TopePorOrden

\* SOL is signed away only to the first wallet registered (policy.py:80-121,
\* servicio.py:191-236), unless a death truncates the file that holds it.
THEOREM Spec_SaleSoloALaFijada == Spec => SaleSoloALaFijada
<1> DEFINE Paso == salidas' # salidas /\ "retirada" \notin fallado =>
                     fijada # Nadie /\ salidas' = salidas \cup {fijada}
<1>1. Init => RetiradaInv
  BY DEF Init, RetiradaInv
<1>2. TypeOK /\ RetiradaInv /\ [Next]_vars => [Paso]_vars
  <2> SUFFICES ASSUME TypeOK, RetiradaInv, Next PROVE Paso
    OBVIOUS
  <2>1. CASE Firmar
    BY <2>1 DEF Firmar, RetiradaInv, EsOrden
  <2>2. Firmar \/ UNCHANGED salidas
    BY DEF Next, AceptarRetirada, AceptarOrden, PonerAlDia, Anotar, GuardarContador,
           Registrar, TerminarRegistro, Caer, Arrancar, BorrarRetirada, Medianoche,
           AtrasarReloj, DanarFichero, memoria, ghost
  <2> QED
    BY <2>1, <2>2
<1> QED
  BY <1>1, <1>2, Retirada_Step, Spec_TypeOK, PTL DEF Spec, SaleSoloALaFijada

-----------------------------------------------------------------------------
(* The process with its key store                                          *)

\* The process that goes through the key store before each handler is a
\* process of Signer: whatever is proved above of Spec holds of it
\* (servicio.py:87-110).
THEOREM Firmante_Signer == SpecFirmante => Spec
<1>1. InitFirmante => Init
  BY DEF InitFirmante
<1>2. [NextFirmante]_varsFirmante => [Next]_vars
  BY DEF NextFirmante, ConLlave, SinLlave, Abrir2, Next, varsFirmante
<1> QED
  BY <1>1, <1>2, PTL DEF SpecFirmante, Spec

\* What each moment of the two writes has done to its file, and that only a
\* process that runs is in the middle of one.
LlaveroInv ==
    /\ LaMostradaSigueAhi
    /\ gestion \in {"nada", "contrasena", "clave"}
    /\ gestion = "clave" => clave = VACIO /\ Tengo \notin {NO_HAY, VACIO}
    /\ gestion = "contrasena" => contrasena = VACIO
    /\ ~vivo => gestion = "nada"
    /\ contrasena \in {NO_HAY, VACIO, GENERADA}
    /\ clave \in {NO_HAY, VACIO} \/ clave.tipo = "cifrada"

\* The files, told apart by their kind.
LEMMA TiposLema ==
    ASSUME NEW e
    PROVE  /\ NO_HAY.tipo = "no hay" /\ VACIO.tipo = "vacio" /\ GENERADA.tipo = "generada"
           /\ DelEntorno(e).tipo = "entorno"
BY DEF NO_HAY, VACIO, GENERADA, DelEntorno

\* What a step of the process does to the files: one of the five steps of
\* cargar_o_crear while it runs, its death, its start, or nothing.
LEMMA LlaveroPaso ==
    ASSUME [NextFirmante]_varsFirmante
    PROVE  \/ vivo /\ CargarOCrear /\ vivo' = vivo
           \/ Morir
           \/ ~vivo /\ Renacer
           \/ UNCHANGED <<varsLlavero, vivo>>
<1>1. ASSUME ConLlave PROVE UNCHANGED <<varsLlavero, vivo>>
  BY <1>1 DEF ConLlave, AceptarRetirada, AceptarOrden, Registrar
<1>2. ASSUME SinLlave PROVE UNCHANGED <<varsLlavero, vivo>>
  BY <1>2 DEF SinLlave, PonerAlDia, Anotar, GuardarContador, Firmar, TerminarRegistro,
              BorrarRetirada, Medianoche, AtrasarReloj, DanarFichero
<1>3. ASSUME Abrir2 PROVE vivo /\ CargarOCrear /\ vivo' = vivo
  BY <1>3 DEF Abrir2, Atiende, vars
<1>4. ASSUME NEW m \in {"disabled", "local_encrypted"}, Arrancar(m) PROVE ~vivo
  BY <1>4 DEF Arrancar
<1> QED
  BY <1>1, <1>2, <1>3, <1>4 DEF NextFirmante, varsFirmante, vars

\* cargar_o_crear, step by step.
LEMMA LlaveroPasos ==
    ASSUME LlaveroInv, vivo, CargarOCrear, vivo' = vivo PROVE LlaveroInv'
<1> USE DEF LlaveroInv, LaMostradaSigueAhi, varsLlavero
<1>1. CASE PrepararContrasena
  <2>1. contrasena = NO_HAY
    BY <1>1, TiposLema DEF PrepararContrasena, Tengo
  <2> QED
    BY <1>1, <2>1, TiposLema DEF PrepararContrasena
<1>2. CASE EscribirContrasena
  BY <1>2, TiposLema DEF EscribirContrasena
<1>3. CASE PrepararClave
  <2>1. mostradas = {} /\ Tengo' = Tengo
    BY <1>3, TiposLema DEF PrepararClave, Falta, Tengo
  <2> QED
    BY <1>3, <2>1, TiposLema DEF PrepararClave
<1>4. CASE EscribirClave
  <2>1. mostradas = {} /\ gestion = "clave"
    BY <1>4, TiposLema DEF EscribirClave
  <2>2. clave' = Cifrada(creadas, Tengo) /\ mostradas' = {creadas} /\ gestion' = "nada"
    BY <1>4, <2>1 DEF EscribirClave
  <2>3. Tengo = GENERADA => contrasena = GENERADA
    BY TiposLema DEF Tengo
  <2>4. clave'.tipo = "cifrada" /\ clave'.par = creadas /\ clave'.con = Tengo
    BY <2>2 DEF Cifrada
  <2>5. UNCHANGED <<contrasena, averia, vivo>>
    BY <1>4 DEF EscribirClave
  <2>6. contrasena.tipo = "vacio" => averia
    BY <2>1
  <2> QED
    BY <2>2, <2>3, <2>4, <2>5, <2>6
<1>5. CASE Abrir1
  <2>1. PICK par \in 1 .. MaxCreadas : Abre(par) /\ mostradas' = mostradas \cup {par}
    BY <1>5 DEF Abrir1
  <2> QED
    BY <1>5, <2>1 DEF Abrir1, Abre
<1> QED
  BY <1>1, <1>2, <1>3, <1>4, <1>5 DEF CargarOCrear

\* Neither a death nor a start replaces a file.
LEMMA Llavero_Step ==
    ASSUME LlaveroInv, [NextFirmante]_varsFirmante PROVE LlaveroInv'
<1> USE DEF LlaveroInv, LaMostradaSigueAhi
<1>1. CASE vivo /\ CargarOCrear /\ vivo' = vivo
  BY <1>1, LlaveroPasos
<1>2. CASE Morir
  <2>1. averia' <=> (averia \/ gestion # "nada")
    BY <1>2 DEF Morir
  <2>2. gestion' = "nada" /\ UNCHANGED <<contrasena, clave, mostradas>>
    BY <1>2 DEF Morir
  <2>3. clave.tipo = "vacio" => averia'
    BY <2>1
  <2>4. contrasena.tipo = "vacio" => averia'
    BY <2>1
  <2> QED
    BY <2>2, <2>3, <2>4
<1>3. CASE ~vivo /\ Renacer
  BY <1>3 DEF Renacer
<1>4. CASE UNCHANGED <<varsLlavero, vivo>>
  BY <1>4 DEF varsLlavero, Tengo
<1> QED
  BY <1>1, <1>2, <1>3, <1>4, LlaveroPaso

\* The address that was shown is the one whose key is on disk for ever, and a
\* file is empty only after a death in the middle of its write, whatever the
\* environments of the starts (cartera.py:74-100).
THEOREM Firmante_LaMostradaSigueAhi == SpecFirmante => []LaMostradaSigueAhi
<1>1. InitFirmante => LlaveroInv
  BY TiposLema DEF InitFirmante, Init, InitLlavero, LlaveroInv, LaMostradaSigueAhi
<1>2. LlaveroInv => LaMostradaSigueAhi
  BY DEF LlaveroInv
<1> QED
  BY <1>1, <1>2, Llavero_Step, PTL DEF SpecFirmante

\* The types, and that a key whose file is being written has a number.
LlaveroTipos == LlaveroTypeOK /\ (gestion = "clave" => creadas # 0)

\* What each step of the process leaves in the two files.
LEMMA LlaveroTipos_Step ==
    ASSUME LlaveroTipos, LlaveroInv, [NextFirmante]_varsFirmante PROVE LlaveroTipos'
<1> USE DEF LlaveroTipos, LlaveroTypeOK
<1>1. CASE EscribirClave
  <2>1. Tengo \in {GENERADA} \cup {DelEntorno(e) : e \in Entornos}
    BY <1>1 DEF EscribirClave, LlaveroInv, Tengo
  <2>2. creadas \in 1 .. MaxCreadas /\ mostradas \subseteq 1 .. MaxCreadas
    BY <1>1, LlaveroAssumption DEF EscribirClave
  <2>3. clave' = Cifrada(creadas, Tengo) /\ gestion' = "nada" /\ mostradas' = mostradas \cup {creadas}
        /\ UNCHANGED <<entorno, contrasena, creadas, averia>>
    BY <1>1 DEF EscribirClave
  <2>4. clave' \in {Cifrada(par, con) : par \in 1 .. MaxCreadas,
                    con \in {GENERADA} \cup {DelEntorno(e) : e \in Entornos}}
    BY <2>1, <2>2, <2>3
  <2>5. mostradas' \subseteq 1 .. MaxCreadas
    BY <2>2, <2>3
  <2> QED
    BY <2>3, <2>4, <2>5
<1>2. CASE PrepararContrasena
  <2>1. contrasena' = VACIO /\ gestion' = "contrasena" /\ UNCHANGED <<entorno, clave, creadas, mostradas, averia>>
    BY <1>2 DEF PrepararContrasena
  <2> QED
    BY <2>1
<1>8. CASE EscribirContrasena
  <2>1. contrasena' = GENERADA /\ gestion' = "nada" /\ UNCHANGED <<entorno, clave, creadas, mostradas, averia>>
    BY <1>8 DEF EscribirContrasena
  <2> QED
    BY <2>1
<1>3. CASE PrepararClave
  <2>1. creadas' \in 0 .. MaxCreadas /\ creadas' # 0
    BY <1>3, LlaveroAssumption DEF PrepararClave
  <2>2. clave' = VACIO /\ gestion' = "clave" /\ UNCHANGED <<entorno, contrasena, mostradas, averia>>
    BY <1>3 DEF PrepararClave
  <2> QED
    BY <2>1, <2>2
<1>4. CASE Abrir1
  BY <1>4 DEF Abrir1
<1>5. CASE Morir
  <2>1. averia' \in BOOLEAN
    BY <1>5 DEF Morir
  <2>2. gestion' = "nada" /\ UNCHANGED <<entorno, contrasena, clave, creadas, mostradas>>
    BY <1>5 DEF Morir
  <2> QED
    BY <2>1, <2>2
<1>6. CASE Renacer
  BY <1>6 DEF Renacer
<1>7. CASE UNCHANGED varsLlavero
  BY <1>7 DEF varsLlavero
<1> QED
  BY <1>1, <1>2, <1>3, <1>4, <1>5, <1>6, <1>7, <1>8, LlaveroPaso DEF CargarOCrear

\* Every variable of the key store keeps its type.
THEOREM Firmante_LlaveroTypeOK == SpecFirmante => []LlaveroTypeOK
<1>1. InitFirmante => LlaveroInv
  BY TiposLema DEF InitFirmante, Init, InitLlavero, LlaveroInv, LaMostradaSigueAhi
<1>3. InitFirmante => LlaveroTipos
  <2> SUFFICES ASSUME InitLlavero PROVE LlaveroTipos
    BY DEF InitFirmante
  <2>1. creadas = 0 /\ gestion = "nada" /\ clave = NO_HAY /\ contrasena = NO_HAY
        /\ entorno \in Entornos /\ mostradas = {}
    BY DEF InitLlavero
  <2>2. averia \in BOOLEAN
    BY DEF InitLlavero
  <2>3. 0 \in 0 .. MaxCreadas
    BY LlaveroAssumption
  <2>4. clave \in {NO_HAY, VACIO}
          \cup {Cifrada(par, con) : par \in 1 .. MaxCreadas,
                con \in {GENERADA} \cup {DelEntorno(e) : e \in Entornos}}
    BY <2>1
  <2> QED
    BY <2>1, <2>2, <2>3, <2>4 DEF LlaveroTipos, LlaveroTypeOK
<1>2. LlaveroTipos => LlaveroTypeOK
  BY DEF LlaveroTipos
<1> QED
  BY <1>1, <1>2, <1>3, Llavero_Step, LlaveroTipos_Step, PTL DEF SpecFirmante

-----------------------------------------------------------------------------
(* The preparation of orders: amounts                                      *)

\* The quotient of two naturals.
LEMMA DivLema ==
    ASSUME NEW a \in Nat, NEW b \in Nat \ {0}
    PROVE  /\ a \div b \in Nat
           /\ b * (a \div b) <= a
           /\ a < b * (a \div b) + b
OBVIOUS

\* The product of two naturals.
LEMMA PorLema == ASSUME NEW a \in Nat, NEW b \in Nat PROVE a * b \in Nat
OBVIOUS

\* With its fee, the net amount is not more than the whole.
LEMMA NetoLema ==
    ASSUME NEW l \in Nat
    PROVE  Neto(l) \in Nat /\ (10000 + FEE_BPS) * Neto(l) <= l * 10000
<1>1. l * 10000 \in Nat /\ 10000 + FEE_BPS \in Nat \ {0}
  BY CifrasAssumption
<1> QED BY <1>1, DivLema DEF Neto

\* The tokens of an amount are not more than the curve gives for it.
LEMMA TokensLema ==
    ASSUME NEW c \in Curvas, NEW l \in Nat
    PROVE  /\ TokensPor(c, l) \in Nat
           /\ TokensPor(c, l) <= c.rt
           /\ TokensPor(c, l) * (c.vs + l) <= l * c.vt
<1>0. c.vs \in Nat \ {0} /\ c.vt \in Nat \ {0} /\ c.rt \in Nat
  BY ConjuntosAssumption
<1> DEFINE out == (l * c.vt) \div (c.vs + l)
<1>1. l * c.vt \in Nat /\ c.vs + l \in Nat \ {0}
  BY <1>0, PorLema
<1>2. out \in Nat /\ (c.vs + l) * out <= l * c.vt
  BY <1>1, DivLema
<1>3. CASE l = 0
  BY <1>0, <1>1, <1>3 DEF TokensPor
<1>4. CASE l # 0 /\ out < c.rt
  <2>1. TokensPor(c, l) = out
    BY <1>4 DEF TokensPor
  <2>2. out * (c.vs + l) = (c.vs + l) * out
    BY <1>1, <1>2
  <2> QED BY <1>0, <1>2, <1>4, <2>1, <2>2
<1>5. CASE l # 0 /\ ~ (out < c.rt)
  <2>1. TokensPor(c, l) = c.rt
    BY <1>5 DEF TokensPor
  <2>2. c.rt <= out
    BY <1>0, <1>2, <1>5
  <2> HIDE DEF out
  <2>3. (c.vs + l) * c.rt <= (c.vs + l) * out
    BY <1>0, <1>1, <1>2, <2>2
  <2>4. (c.vs + l) * c.rt <= l * c.vt /\ c.rt * (c.vs + l) = (c.vs + l) * c.rt
    BY <1>0, <1>1, <1>2, <2>3
  <2> QED BY <1>0, <2>1, <2>4
<1> QED BY <1>3, <1>4, <1>5

\* What a purchase is charged at the price it was computed with, fee
\* included, is at most one lamport more than the amount the user wrote.
LEMMA CobroLema ==
    ASSUME NEW c \in Curvas, NEW l \in Nat
    PROVE  Cobro(c, TokensPor(c, Neto(l))) \in Nat /\ Cobro(c, TokensPor(c, Neto(l))) <= l + 1
<1> DEFINE n == Neto(l)
           t == TokensPor(c, n)
           q == (t * c.vs) \div (c.vt - t)
           f == ((q + 1) * FEE_BPS) \div 10000
<1>0. /\ c.vs \in Nat \ {0} /\ c.vt \in Nat \ {0} /\ c.rt \in Nat /\ c.rt < c.vt
      /\ FEE_BPS \in Nat /\ FEE_BPS < 10000
  BY ConjuntosAssumption, CifrasAssumption
<1>1. n \in Nat /\ (10000 + FEE_BPS) * n <= l * 10000
  BY NetoLema
<1>2. t \in Nat /\ t <= c.rt /\ t * (c.vs + n) <= n * c.vt
  BY <1>1, TokensLema
<1> HIDE DEF n, t
<1>3. c.vt - t \in Nat \ {0}
  BY <1>0, <1>2
<1>4. t * c.vs \in Nat
  BY <1>0, <1>2, PorLema
<1>5. q \in Nat /\ (c.vt - t) * q <= t * c.vs
  BY <1>3, <1>4, DivLema
<1> HIDE DEF q
<1>6. t * c.vs <= (c.vt - t) * n
  <2>1. t * (c.vs + n) = t * c.vs + t * n /\ (c.vt - t) * n = n * c.vt - t * n
    BY <1>0, <1>1, <1>2
  <2> QED BY <1>0, <1>1, <1>2, <2>1
<1>7. q <= n
  <2>0. q \in Nat /\ n \in Nat /\ c.vt - t \in Nat \ {0}
    BY <1>1, <1>3, <1>5
  <2> DEFINE k == c.vt - t
  <2>1. k * q <= k * n
    BY <1>1, <1>3, <1>4, <1>5, <1>6
  <2> HIDE DEF k
  <2>2. k \in Nat \ {0}
    BY <2>0 DEF k
  <2>3. ASSUME n < q PROVE FALSE
    <3>1. k * (n + 1) <= k * q
      BY <2>0, <2>2, <2>3
    <3>2. k * (n + 1) = k * n + k
      BY <2>0, <2>2
    <3> QED BY <2>0, <2>1, <2>2, <3>1, <3>2
  <2> QED BY <2>0, <2>3
<1>8. f \in Nat /\ 10000 * f <= (q + 1) * FEE_BPS
  <2>1. (q + 1) * FEE_BPS \in Nat
    BY <1>0, <1>5, PorLema
  <2> QED BY <2>1, DivLema
<1> HIDE DEF f
<1>9. (q + 1) * FEE_BPS <= n * FEE_BPS + FEE_BPS
  <2>1. (q + 1) * FEE_BPS = q * FEE_BPS + FEE_BPS
    BY <1>0, <1>5
  <2>2. q * FEE_BPS <= n * FEE_BPS
    BY <1>0, <1>1, <1>5, <1>7
  <2> QED BY <1>0, <1>1, <1>5, <2>1, <2>2
<1>10. (10000 + FEE_BPS) * n = 10000 * n + n * FEE_BPS /\ n * FEE_BPS \in Nat
  BY <1>0, <1>1
<1>11. Cobro(c, t) = q + 1 + f
  BY DEF Cobro, q, f
<1>12. q + 1 + f <= l + 1
  BY <1>0, <1>1, <1>5, <1>7, <1>8, <1>9, <1>10
<1> QED BY <1>5, <1>8, <1>11, <1>12 DEF t, n

\* The floor and the cap of an amount are amounts.
LEMMA LimiteLema ==
    ASSUME NEW l \in Nat
    PROVE  Tope(l) \in Nat /\ Suelo(l) \in Nat
<1>1. 10000 + SLIPPAGE_BPS \in Nat /\ 10000 - SLIPPAGE_BPS \in Nat /\ 10000 \in Nat \ {0}
  BY CifrasAssumption
<1>2. l * (10000 + SLIPPAGE_BPS) \in Nat /\ l * (10000 - SLIPPAGE_BPS) \in Nat
  BY <1>1, PorLema
<1> QED BY <1>2, DivLema DEF Tope, Suelo

\* What a sale brings is an amount.
LEMMA IngresoLema ==
    ASSUME NEW c \in Curvas, NEW t \in Nat
    PROVE  Ingreso(c, t) \in Nat
<1>0. c.vs \in Nat \ {0} /\ c.vt \in Nat \ {0}
  BY ConjuntosAssumption
<1>1. t * c.vs \in Nat /\ c.vt + t \in Nat \ {0}
  BY <1>0, PorLema
<1>2. LamportsPor(c, t) \in Nat
  BY <1>1, DivLema DEF LamportsPor
<1> QED BY <1>2, NetoLema DEF Ingreso

-----------------------------------------------------------------------------
(* The invariant of a request                                              *)

Previos == {"cuentas", "global", "token", "hash", "saldo"}
Probando == {"simula", "reintento", "ofrecida"}
PasosDeOrden == Previos \cup Probando \cup {"curva", "resaldo"}

Trabajos ==
    [lado : {"compra", "venta", "calienta"}, cantidad : Compras \cup Porcentajes \cup {0},
     paso : PasosDeOrden, curva : Curvas, alcanza : BOOLEAN, saldo : Nat, orden : Ordenes,
     mensaje : Ordenes, resumen : Ordenes, comps : 1 .. 2, prueba : 0 .. 2,
     reintentado : BOOLEAN, sims : Nat, edad : Edades]

\* The limit of an order is the one of its tokens, at the price it carries.
OrdenBuena(t, o) ==
    /\ t.lado = "venta" => o.limite = Suelo(Ingreso(t.curva, o.tokens))
    /\ t.lado = "compra" => /\ Cobro(t.curva, o.tokens) <= t.cantidad + 1
                            /\ o.limite = Tope(t.cantidad)

\* Whom it is for, and of what.
Pedida(t) ==
    /\ t \in Trabajos
    /\ t.lado = "compra" => t.cantidad \in Compras
    /\ t.lado = "venta" => t.cantidad \in Porcentajes

\* Nothing computed yet.
Leyendo(t) ==
    /\ Pedida(t)
    /\ t.prueba = 0 /\ t.sims = 0 /\ ~ t.reintentado

Extra(t) == IF t.reintentado THEN 1 ELSE 0

\* The amounts computed, with so many simulations answered.
Lista(t) ==
    /\ Pedida(t) /\ t.lado # "calienta"
    /\ t.prueba <= t.comps
    /\ t.resumen = t.orden
    /\ OrdenBuena(t, t.orden)
    /\ t.sims <= t.prueba + Extra(t)

Propone(t) == Lista(t) /\ t.mensaje = t.orden

Recta(t) ==
    \/ t = Libre
    \/ t.paso \in {"cuentas", "global", "token", "hash"} /\ Leyendo(t)
    \/ t.paso = "saldo" /\ Leyendo(t) /\ t.lado = "venta"
    \/ t.paso = "simula" /\ Propone(t) /\ t.sims + 1 <= t.prueba + Extra(t)
    \/ t.paso \in {"curva", "resaldo"} /\ Lista(t) /\ t.reintentado /\ t.sims <= t.prueba
       /\ (t.paso = "curva" <=> t.lado = "compra")
    \/ t.paso = "reintento" /\ Propone(t) /\ t.reintentado /\ t.sims <= t.prueba
    \/ t.paso = "ofrecida" /\ Propone(t)

\* The computed orders are orders, and good ones.
LEMMA OrdenCompraLema ==
    ASSUME NEW c \in Curvas, NEW l \in Compras
    PROVE  /\ OrdenCompra(c, l) \in Ordenes
           /\ Orden(TokensPor(c, Neto(l)), Tope(l)) = OrdenCompra(c, l)
           /\ OrdenCompra(c, l).tokens \in Nat
           /\ Cobro(c, OrdenCompra(c, l).tokens) <= l + 1
           /\ OrdenCompra(c, l).limite = Tope(l)
<1>1. l \in Nat
  BY ConjuntosAssumption
<1>2. Neto(l) \in Nat
  BY <1>1, NetoLema
<1>3. TokensPor(c, Neto(l)) \in Nat
  BY <1>2, TokensLema
<1>4. Tope(l) \in Nat
  BY <1>1, LimiteLema
<1>5. Cobro(c, TokensPor(c, Neto(l))) <= l + 1
  BY <1>1, CobroLema
<1> QED BY <1>3, <1>4, <1>5 DEF OrdenCompra, Orden, Ordenes

\* The order of a sale is an order, with the floor of its tokens.
LEMMA OrdenVentaLema ==
    ASSUME NEW c \in Curvas, NEW s \in Nat, NEW pct \in Porcentajes
    PROVE  /\ OrdenVenta(c, s, pct) \in Ordenes
           /\ OrdenVenta(c, s, pct).limite = Suelo(Ingreso(c, OrdenVenta(c, s, pct).tokens))
<1> DEFINE t == (s * pct) \div 100
<1>1. pct \in Nat
  BY ConjuntosAssumption
<1>2. s * pct \in Nat
  BY <1>1, PorLema
<1>3. t \in Nat
  BY <1>2, DivLema
<1>4. OrdenVenta(c, s, pct) = [tokens |-> t, limite |-> Suelo(Ingreso(c, t))]
  BY DEF OrdenVenta, Orden
<1> HIDE DEF t
<1>5. Suelo(Ingreso(c, t)) \in Nat
  BY <1>3, IngresoLema, LimiteLema
<1> QED BY <1>3, <1>4, <1>5 DEF Ordenes

\* The next composition is tried with the amounts of now.
LEMMA ConstruirLema ==
    ASSUME NEW t, Lista(t), t.prueba < t.comps, t.sims <= t.prueba + Extra(t)
    PROVE  Recta(Construir(t))
<1>1. t \in Trabajos
  BY DEF Lista, Pedida
<1> DEFINE c == Construir(t)
<1>2. /\ c = [t EXCEPT !.paso = "simula", !.mensaje = t.orden, !.prueba = t.prueba + 1]
      /\ c.paso = "simula" /\ c.mensaje = t.orden /\ c.prueba = t.prueba + 1
      /\ c.lado = t.lado /\ c.cantidad = t.cantidad /\ c.curva = t.curva /\ c.orden = t.orden
      /\ c.resumen = t.resumen /\ c.comps = t.comps /\ c.reintentado = t.reintentado
      /\ c.sims = t.sims
  BY <1>1 DEF Construir, Trabajos
<1>3. t.prueba \in 0 .. 2 /\ t.comps \in 1 .. 2 /\ t.sims \in Nat /\ t.orden \in Ordenes
  BY <1>1 DEF Trabajos
<1> HIDE DEF c
<1>9. t.prueba + 1 \in 0 .. 2
  BY <1>3
<1>4. c \in Trabajos
  BY <1>1, <1>2, <1>3, <1>9 DEF Trabajos, PasosDeOrden, Probando
<1>5. Extra(t) \in {0, 1} /\ Extra(c) = Extra(t)
  BY <1>2 DEF Extra
<1>6. OrdenBuena(c, c.orden)
  BY <1>2 DEF Lista, OrdenBuena
<1>7. c.prueba <= c.comps /\ c.sims + 1 <= c.prueba + Extra(c) /\ c.sims <= c.prueba + Extra(c)
  BY <1>2, <1>3, <1>5
<1>8. Propone(c)
  BY <1>2, <1>4, <1>6, <1>7 DEF Propone, Lista, Pedida
<1> QED BY <1>2, <1>7, <1>8 DEF Recta, c

\* What follows a rejection, be it the end or the next composition.
LEMMA ContinuarLema ==
    ASSUME NEW t, Lista(t), t.sims <= t.prueba + Extra(t)
    PROVE  Recta(Continuar(t))
<1>1. CASE t.prueba = t.comps \/ t.orden.tokens <= 0
  BY <1>1 DEF Continuar, Recta
<1>2. CASE ~ (t.prueba = t.comps \/ t.orden.tokens <= 0)
  <2>1. t.prueba < t.comps
    BY <1>2 DEF Lista, Pedida, Trabajos
  <2> QED BY <1>2, <2>1, ConstruirLema DEF Continuar
<1> QED BY <1>1, <1>2

\* With everything cached at hand, the amounts of a purchase are good ones.
LEMMA ConDatosLema ==
    ASSUME NEW t, Leyendo(t)
    PROVE  Recta(ConDatos(t))
<1>1. t \in Trabajos
  BY DEF Leyendo, Pedida
<1>2. CASE t.lado = "calienta"
  BY <1>2 DEF ConDatos, Recta
<1>3. CASE t.lado = "venta"
  <2> DEFINE n == [t EXCEPT !.paso = "saldo"]
  <2>1. ConDatos(t) = n
    BY <1>3 DEF ConDatos
  <2>2. n \in Trabajos /\ n.paso = "saldo" /\ n.lado = t.lado /\ n.cantidad = t.cantidad
        /\ n.prueba = t.prueba /\ n.sims = t.sims /\ n.reintentado = t.reintentado
    BY <1>1 DEF Trabajos, PasosDeOrden, Previos
  <2> HIDE DEF n
  <2>3. Leyendo(n)
    BY <2>2 DEF Leyendo, Pedida
  <2> QED BY <1>3, <2>1, <2>2, <2>3 DEF Recta
<1>4. CASE t.lado = "compra"
  <2> DEFINE o == OrdenCompra(t.curva, t.cantidad)
             n == [t EXCEPT !.orden = o, !.resumen = o]
  <2>1. t.curva \in Curvas /\ t.cantidad \in Compras
    BY <1>1, <1>4 DEF Leyendo, Pedida, Trabajos
  <2>2. /\ o \in Ordenes /\ Cobro(t.curva, o.tokens) <= t.cantidad + 1
        /\ o.limite = Tope(t.cantidad)
    BY <2>1, OrdenCompraLema
  <2> HIDE DEF o
  <2>3. /\ n \in Trabajos /\ n.lado = t.lado /\ n.cantidad = t.cantidad /\ n.curva = t.curva
        /\ n.orden = o /\ n.resumen = o /\ n.prueba = t.prueba /\ n.comps = t.comps
        /\ n.sims = t.sims /\ n.reintentado = t.reintentado
    BY <1>1, <2>2 DEF Trabajos
  <2> HIDE DEF n
  <2>4. /\ n.prueba < n.comps /\ n.prueba <= n.comps /\ n.sims <= n.prueba + Extra(n)
    BY <1>1, <2>3 DEF Leyendo, Trabajos, Extra
  <2>5. OrdenBuena(n, n.orden)
    BY <1>4, <2>2, <2>3 DEF OrdenBuena
  <2>6. Lista(n)
    BY <1>4, <2>1, <2>3, <2>4, <2>5 DEF Lista, Pedida
  <2>7. Recta(Construir(n))
    BY <2>4, <2>6, ConstruirLema
  <2>8. ConDatos(t) = IF o.tokens <= 0 \/ ~ t.alcanza THEN Libre ELSE Construir(n)
    BY <1>4 DEF ConDatos, o, n
  <2> QED BY <2>7, <2>8 DEF Recta
<1> QED BY <1>1, <1>2, <1>3, <1>4 DEF Trabajos

\* The walk through what is cached keeps the invariant, whatever is cached.
LEMMA SeguirLema ==
    ASSUME NEW t, Leyendo(t), NEW desde, NEW datos
    PROVE  Recta(Seguir(t, desde, datos))
<1> DEFINE d == QueFalta(desde, datos)
           n == [t EXCEPT !.paso = d, !.edad = 0]
<1>1. d \in {"global", "token", "hash", "nada"}
  BY DEF QueFalta
<1>2. CASE d = "nada"
  BY <1>2, ConDatosLema DEF Seguir
<1>3. CASE d # "nada"
  <2>1. Seguir(t, desde, datos) = n
    BY <1>3 DEF Seguir
  <2> HIDE DEF d
  <2>2. t \in Trabajos
    BY DEF Leyendo, Pedida
  <2>3. 0 \in Edades
    BY CifrasAssumption DEF Edades
  <2>4. n \in Trabajos /\ n.paso = d /\ n.lado = t.lado /\ n.cantidad = t.cantidad
        /\ n.prueba = t.prueba /\ n.sims = t.sims /\ n.reintentado = t.reintentado
    BY <1>1, <1>3, <2>2, <2>3 DEF Trabajos, PasosDeOrden, Previos
  <2> HIDE DEF n
  <2>5. Leyendo(n)
    BY <2>4 DEF Leyendo, Pedida
  <2> QED BY <1>1, <1>3, <2>1, <2>4, <2>5 DEF Recta
<1> QED BY <1>2, <1>3

\* The retry announces what it tries.
LEMMA RecalcularLema ==
    ASSUME NEW t, NEW o \in Ordenes, Pedida(t), t.lado # "calienta", t.prueba <= t.comps,
           OrdenBuena(t, o), t.reintentado, t.sims <= t.prueba
    PROVE  Recta(Recalcular(t, o))
<1> DEFINE n == [t EXCEPT !.orden = o, !.resumen = o]
           r == [n EXCEPT !.paso = "reintento", !.mensaje = o]
<1>1. t \in Trabajos
  BY DEF Pedida
<1>2. /\ n \in Trabajos /\ n.lado = t.lado /\ n.cantidad = t.cantidad /\ n.curva = t.curva
      /\ n.orden = o /\ n.resumen = o /\ n.prueba = t.prueba /\ n.comps = t.comps
      /\ n.sims = t.sims /\ n.reintentado = t.reintentado
  BY <1>1 DEF Trabajos
<1>3. /\ r \in Trabajos /\ r.lado = n.lado /\ r.cantidad = n.cantidad /\ r.curva = n.curva
      /\ r.orden = o /\ r.resumen = o /\ r.prueba = n.prueba /\ r.comps = n.comps
      /\ r.sims = n.sims /\ r.reintentado = n.reintentado /\ r.paso = "reintento" /\ r.mensaje = o
  BY <1>2 DEF Trabajos, PasosDeOrden, Probando
<1>4. Recalcular(t, o) = IF o.tokens > 0 THEN r ELSE Continuar(n)
  BY DEF Recalcular
<1> HIDE DEF n, r
<1>5. t.sims \in Nat /\ t.prueba \in 0 .. 2
  BY <1>1 DEF Trabajos
<1>6. n.sims <= n.prueba + Extra(n) /\ r.sims <= r.prueba + Extra(r) /\ r.sims <= r.prueba
  BY <1>2, <1>3, <1>5 DEF Extra
<1>7. OrdenBuena(n, o) /\ OrdenBuena(r, o)
  BY <1>2, <1>3 DEF OrdenBuena
<1>8. Lista(n)
  BY <1>2, <1>6, <1>7 DEF Lista, Pedida
<1>9. Propone(r)
  BY <1>2, <1>3, <1>6, <1>7 DEF Propone, Lista, Pedida
<1>10. Recta(Continuar(n))
  BY <1>6, <1>8, ContinuarLema
<1>11. Recta(r)
  BY <1>2, <1>3, <1>6, <1>9 DEF Recta
<1> QED BY <1>4, <1>10, <1>11

-----------------------------------------------------------------------------
(* The invariant                                                           *)

PetInv ==
    /\ pet = [p \in Peticiones |-> pet[p]]
    /\ \A p \in Peticiones : Recta(pet[p])

Datos == {"global", "token", "hash"}

\* No stamp is younger than the datum.
CacheInv(datos) ==
    /\ datos \in [Datos -> [edad : Edades, real : Edades, hay : BOOLEAN]]
    /\ \A d \in {"global", "hash"} : datos[d].hay => datos[d].real <= datos[d].edad

CadenaInv == curva \in Curvas /\ completa \in BOOLEAN /\ saldo \in Saldos

IInv == CadenaInv /\ CacheInv(cache) /\ PetInv

\* A request is in its place, or is nothing.
LEMMA RectaLema ==
    ASSUME NEW t, Recta(t)
    PROVE  \/ t = Libre
           \/ t \in Trabajos /\ t.paso # "libre"
<1> SUFFICES ASSUME t # Libre PROVE t \in Trabajos /\ t.paso # "libre"
  OBVIOUS
<1>1. Leyendo(t) \/ Lista(t)
  BY DEF Recta, Propone
<1>2. t \in Trabajos
  BY <1>1 DEF Leyendo, Lista, Pedida
<1>3. "libre" \notin PasosDeOrden
  BY DEF PasosDeOrden, Previos, Probando
<1> QED BY <1>2, <1>3 DEF Trabajos

\* One request moves to a state the invariant allows.
LEMMA PonerLema ==
    ASSUME PetInv, NEW p \in Peticiones, NEW t, Recta(t), Poner(p, t)
    PROVE  PetInv'
BY DEF PetInv, Poner

\* A step that changes one request alone.
LEMMA UnaLema ==
    ASSUME IInv, UNCHANGED <<cadena, cache>>, NEW p \in Peticiones, NEW t, Recta(t), Poner(p, t)
    PROVE  IInv'
<1>1. PetInv'
  BY PonerLema DEF IInv
<1> QED BY <1>1 DEF IInv, CadenaInv, CacheInv, cadena

\* A new request.
LEMMA NuevaLema ==
    ASSUME CadenaInv, NEW lado \in {"compra", "venta", "calienta"},
           NEW etapa \in {"cuentas", "global"}, NEW n \in Compras \cup Porcentajes \cup {0},
           lado = "compra" => n \in Compras, lado = "venta" => n \in Porcentajes
    PROVE  Leyendo(Nueva(lado, etapa, n)) /\ Nueva(lado, etapa, n).paso = etapa
<1> DEFINE t == Nueva(lado, etapa, n)
<1>1. (CHOOSE c \in Curvas : TRUE) \in Curvas
  BY DEF CadenaInv
<1>2. Orden(0, 0) \in Ordenes
  BY DEF Orden, Ordenes
<1>3. 0 \in Edades
  BY CifrasAssumption DEF Edades
<1>4. /\ t \in Trabajos /\ t.lado = lado /\ t.cantidad = n /\ t.prueba = 0 /\ t.sims = 0
      /\ t.reintentado = FALSE /\ t.paso = etapa
  BY <1>1, <1>2, <1>3 DEF Nueva, Trabajos, PasosDeOrden, Previos
<1> HIDE DEF t
<1> QED BY <1>4 DEF Leyendo, Pedida, t

-----------------------------------------------------------------------------
(* The steps                                                               *)

\* A request begins.
LEMMA EmpezarLema ==
    ASSUME IInv, NEW p \in Peticiones,
           \/ \E l \in Compras : Comprar(p, l)
           \/ \E pct \in Porcentajes : Vender(p, pct)
           \/ Calentar(p)
    PROVE  IInv'
<1>0. CadenaInv
  BY DEF IInv
<1>1. ASSUME NEW l \in Compras, Comprar(p, l) PROVE IInv'
  <2>1. Leyendo(Nueva("compra", "cuentas", l)) /\ Nueva("compra", "cuentas", l).paso = "cuentas"
    BY <1>0, NuevaLema
  <2>2. Recta(Nueva("compra", "cuentas", l))
    BY <2>1 DEF Recta
  <2> QED BY <1>1, <2>2, UnaLema DEF Comprar
<1>2. ASSUME NEW pct \in Porcentajes, Vender(p, pct) PROVE IInv'
  <2>1. Leyendo(Nueva("venta", "cuentas", pct)) /\ Nueva("venta", "cuentas", pct).paso = "cuentas"
    BY <1>0, NuevaLema
  <2>2. Recta(Nueva("venta", "cuentas", pct))
    BY <2>1 DEF Recta
  <2> QED BY <1>2, <2>2, UnaLema DEF Vender
<1>3. ASSUME Calentar(p) PROVE IInv'
  <2>1. Leyendo(Nueva("calienta", "global", 0))
    BY <1>0, NuevaLema
  <2>2. Recta(Seguir(Nueva("calienta", "global", 0), "global", cache))
    BY <2>1, SeguirLema
  <2> QED BY <1>3, <2>2, UnaLema DEF Calentar
<1> QED BY <1>1, <1>2, <1>3

\* The accounts arrive.
LEMMA CuentasLema == ASSUME IInv, NEW p \in Peticiones, LlegarCuentas(p) PROVE IInv'
<1>1. Leyendo(pet[p]) /\ curva \in Curvas
  BY DEF LlegarCuentas, IInv, PetInv, Recta, Libre, CadenaInv
<1>2. PICK n \in {1, 2}, alcanza \in BOOLEAN :
        Poner(p, Seguir([pet[p] EXCEPT !.curva = curva, !.comps = n, !.alcanza = alcanza],
                        "global", cache))
  BY DEF LlegarCuentas
<1> DEFINE t == [pet[p] EXCEPT !.curva = curva, !.comps = n, !.alcanza = alcanza]
<1>3. pet[p] \in Trabajos
  BY <1>1 DEF Leyendo, Pedida
<1>8. n \in 1 .. 2
  OBVIOUS
<1>4. /\ t \in Trabajos /\ t.lado = pet[p].lado /\ t.cantidad = pet[p].cantidad
      /\ t.prueba = pet[p].prueba /\ t.sims = pet[p].sims /\ t.reintentado = pet[p].reintentado
  BY <1>1, <1>3, <1>8 DEF Trabajos
<1>5. Poner(p, Seguir(t, "global", cache))
  BY <1>2
<1> HIDE DEF t
<1>6. Leyendo(t)
  BY <1>1, <1>4 DEF Leyendo, Pedida
<1>7. Recta(Seguir(t, "global", cache))
  BY <1>6, SeguirLema
<1> QED BY <1>5, <1>7, UnaLema DEF LlegarCuentas

\* A cached datum arrives, with the stamp of the moment it was asked for.
LEMMA DatoLema ==
    ASSUME IInv, NEW p \in Peticiones, NEW d \in Datos, LlegarDato(p, d)
    PROVE  IInv'
<1>1. pet[p].paso = d /\ Recta(pet[p])
  BY DEF LlegarDato, IInv, PetInv
<1>2. Leyendo(pet[p])
  BY <1>1 DEF Recta, Datos, Libre
<1>3. pet[p].edad \in Edades
  BY <1>2 DEF Leyendo, Pedida, Trabajos
<1>4. PICK r \in 0 .. pet[p].edad :
        LET datos == [cache EXCEPT ![d] =
                        IF d = "token" THEN Dato(0, 0) ELSE Dato(Sello(pet[p]), r)]
        IN  /\ cache' = datos
            /\ Poner(p, Seguir(pet[p], d, datos))
  BY DEF LlegarDato
<1> DEFINE e == IF d = "token" THEN Dato(0, 0) ELSE Dato(Sello(pet[p]), r)
           datos == [cache EXCEPT ![d] = e]
<1>5. cache' = datos /\ Poner(p, Seguir(pet[p], d, datos))
  BY <1>4
<1>6. /\ e \in [edad : Edades, real : Edades, hay : BOOLEAN]
      /\ e.real <= e.edad
  BY <1>3, CifrasAssumption DEF Dato, Sello, Edades
<1> HIDE DEF e
<1>7. CacheInv(datos)
  BY <1>6 DEF IInv, CacheInv, Datos
<1> HIDE DEF datos
<1>8. Recta(Seguir(pet[p], d, datos))
  BY <1>2, SeguirLema
<1>9. PetInv'
  BY <1>5, <1>8, PonerLema DEF IInv
<1>10. CadenaInv'
  BY DEF LlegarDato, IInv, CadenaInv, cadena
<1> QED BY <1>5, <1>7, <1>9, <1>10 DEF IInv, CacheInv

\* The balance arrives, and with it the order of the sale.
LEMMA SaldoLema == ASSUME IInv, NEW p \in Peticiones, LlegarSaldo(p) PROVE IInv'
<1> DEFINE t == pet[p]
           o == OrdenVenta(t.curva, saldo, t.cantidad)
           n == [t EXCEPT !.saldo = saldo, !.orden = o, !.resumen = o]
<1>1. Leyendo(t) /\ t.lado = "venta"
  BY DEF LlegarSaldo, IInv, PetInv, Recta, Libre
<1>2. t \in Trabajos /\ t.cantidad \in Porcentajes /\ t.curva \in Curvas /\ saldo \in Nat
  BY <1>1, ConjuntosAssumption DEF Leyendo, Pedida, Trabajos, IInv, CadenaInv
<1>3. o \in Ordenes /\ o.limite = Suelo(Ingreso(t.curva, o.tokens))
  BY <1>2, OrdenVentaLema
<1>4. Poner(p, Libre) \/ Poner(p, Construir(n))
  BY DEF LlegarSaldo
<1> HIDE DEF o
<1>5. /\ n \in Trabajos /\ n.lado = t.lado /\ n.cantidad = t.cantidad /\ n.curva = t.curva
      /\ n.orden = o /\ n.resumen = o /\ n.prueba = t.prueba /\ n.comps = t.comps
      /\ n.sims = t.sims /\ n.reintentado = t.reintentado
  BY <1>2, <1>3 DEF Trabajos
<1> HIDE DEF n
<1>6. n.prueba < n.comps /\ n.prueba <= n.comps /\ n.sims <= n.prueba + Extra(n)
  BY <1>1, <1>2, <1>5 DEF Leyendo, Trabajos, Extra
<1>7. OrdenBuena(n, n.orden)
  BY <1>1, <1>3, <1>5 DEF OrdenBuena
<1>8. Lista(n)
  BY <1>1, <1>2, <1>5, <1>6, <1>7 DEF Lista, Pedida
<1>9. Recta(Construir(n)) /\ Recta(Libre)
  BY <1>6, <1>8, ConstruirLema DEF Recta
<1> QED BY <1>4, <1>9, UnaLema DEF LlegarSaldo

\* An answer to a simulation is counted.
LEMMA SimuladaLema ==
    ASSUME NEW t, Recta(t), t.paso \in {"simula", "reintento"}
    PROVE  /\ Propone(Simulada(t)) /\ Simulada(t).sims <= Simulada(t).prueba + Extra(Simulada(t))
           /\ Simulada(t).paso = t.paso /\ Simulada(t).lado = t.lado
           /\ Simulada(t).reintentado = t.reintentado
           /\ ~ t.reintentado => Simulada(t).sims <= Simulada(t).prueba
<1> DEFINE s == Simulada(t)
<1>1. Propone(t) /\ t \in Trabajos
  BY DEF Recta, Propone, Lista, Pedida, Libre
<1>2. t.sims + 1 <= t.prueba + Extra(t)
  BY <1>1 DEF Recta, Extra, Trabajos, Libre
<1>3. /\ s \in Trabajos /\ s.sims = t.sims + 1 /\ s.paso = t.paso /\ s.lado = t.lado
      /\ s.cantidad = t.cantidad /\ s.curva = t.curva /\ s.orden = t.orden
      /\ s.resumen = t.resumen /\ s.mensaje = t.mensaje /\ s.prueba = t.prueba
      /\ s.comps = t.comps /\ s.reintentado = t.reintentado
  BY <1>1 DEF Simulada, Trabajos
<1> HIDE DEF s
<1>4. s.sims <= s.prueba + Extra(s)
  BY <1>2, <1>3 DEF Extra
<1>5. ~ t.reintentado => s.sims <= s.prueba
  BY <1>1, <1>2, <1>3 DEF Extra, Trabajos
<1>6. OrdenBuena(s, s.orden)
  BY <1>1, <1>3 DEF Propone, Lista, OrdenBuena
<1>7. Propone(s)
  BY <1>1, <1>3, <1>4, <1>6 DEF Propone, Lista, Pedida
<1> QED BY <1>3, <1>4, <1>5, <1>7 DEF s

\* Another step of the same order keeps what was computed.
LEMMA PasoIgualLema ==
    ASSUME NEW t, Lista(t), NEW etapa \in PasosDeOrden
    PROVE  LET n == [t EXCEPT !.reintentado = TRUE, !.paso = etapa] IN
           /\ Lista(n) /\ n.paso = etapa /\ n.reintentado /\ n.lado = t.lado
           /\ n.sims = t.sims /\ n.prueba = t.prueba
           /\ n.orden = t.orden /\ n.mensaje = t.mensaje
<1> DEFINE n == [t EXCEPT !.reintentado = TRUE, !.paso = etapa]
<1>1. t \in Trabajos
  BY DEF Lista, Pedida
<1>2. /\ n \in Trabajos /\ n.paso = etapa /\ n.reintentado /\ n.lado = t.lado
      /\ n.cantidad = t.cantidad /\ n.curva = t.curva /\ n.orden = t.orden /\ n.mensaje = t.mensaje
      /\ n.resumen = t.resumen /\ n.prueba = t.prueba /\ n.comps = t.comps /\ n.sims = t.sims
  BY <1>1 DEF Trabajos
<1> HIDE DEF n
<1>3. t.sims \in Nat /\ t.prueba \in Nat /\ t.sims <= t.prueba + Extra(t)
  BY <1>1 DEF Lista, Trabajos
<1>4. n.sims <= n.prueba + Extra(n)
  BY <1>2, <1>3 DEF Extra
<1>5. OrdenBuena(n, n.orden)
  BY <1>2 DEF Lista, OrdenBuena
<1>6. Lista(n)
  BY <1>2, <1>4, <1>5 DEF Lista, Pedida
<1> QED BY <1>2, <1>6 DEF n

\* The chain accepts, and what it accepted is offered.
LEMMA AceptarLema == ASSUME IInv, NEW p \in Peticiones, Aceptar(p) PROVE IInv'
<1> DEFINE s == Simulada(pet[p])
           n == [s EXCEPT !.paso = "ofrecida"]
<1>1. Recta(pet[p]) /\ pet[p].paso \in {"simula", "reintento"}
  BY DEF Aceptar, IInv, PetInv
<1>2. Propone(s) /\ s.sims <= s.prueba + Extra(s)
  BY <1>1, SimuladaLema
<1>3. Poner(p, n)
  BY DEF Aceptar
<1> HIDE DEF s
<1>4. s \in Trabajos
  BY <1>2 DEF Propone, Lista, Pedida
<1>5. /\ n \in Trabajos /\ n.paso = "ofrecida" /\ n.lado = s.lado /\ n.cantidad = s.cantidad
      /\ n.curva = s.curva /\ n.orden = s.orden /\ n.resumen = s.resumen /\ n.mensaje = s.mensaje
      /\ n.prueba = s.prueba /\ n.comps = s.comps /\ n.sims = s.sims /\ n.reintentado = s.reintentado
  BY <1>4 DEF Trabajos, PasosDeOrden, Probando
<1> HIDE DEF n
<1>6. n.sims <= n.prueba + Extra(n)
  BY <1>2, <1>5 DEF Extra
<1>7. OrdenBuena(n, n.orden)
  BY <1>2, <1>5 DEF Propone, Lista, OrdenBuena
<1>8. Propone(n)
  BY <1>2, <1>5, <1>6, <1>7 DEF Propone, Lista, Pedida
<1>9. Recta(n)
  BY <1>5, <1>8 DEF Recta
<1> QED BY <1>3, <1>9, UnaLema DEF Aceptar

\* The chain rejects: the retry, the next composition or the end.
LEMMA RechazarLema == ASSUME IInv, NEW p \in Peticiones, Rechazar(p) PROVE IInv'
<1> DEFINE s == Simulada(pet[p])
           w == IF s.lado = "compra" THEN "curva" ELSE "resaldo"
           n == [s EXCEPT !.reintentado = TRUE, !.paso = w]
<1>1. Recta(pet[p]) /\ pet[p].paso = "simula"
  BY DEF Rechazar, IInv, PetInv
<1>2. Propone(s) /\ s.sims <= s.prueba + Extra(s) /\ (~ s.reintentado => s.sims <= s.prueba)
  BY <1>1, SimuladaLema
<1>3. PICK codigo \in Respuestas(pet[p]) \ {"acepta"} :
        Poner(p, IF Reintenta(s, codigo) THEN n ELSE Continuar(s))
  BY DEF Rechazar
<1> HIDE DEF s
<1>4. Lista(s)
  BY <1>2 DEF Propone
<1>5. Recta(Continuar(s))
  BY <1>2, <1>4, ContinuarLema
<1>6. ASSUME Reintenta(s, codigo) PROVE Recta(n)
  <2>1. ~ s.reintentado /\ s.sims <= s.prueba /\ s.lado \in {"compra", "venta"}
    BY <1>2, <1>6 DEF Reintenta
  <2>2. w \in PasosDeOrden /\ w \in {"curva", "resaldo"} /\ (w = "curva" <=> s.lado = "compra")
    BY DEF PasosDeOrden
  <2> HIDE DEF w
  <2>3. /\ Lista(n) /\ n.paso = w /\ n.reintentado /\ n.lado = s.lado
        /\ n.sims = s.sims /\ n.prueba = s.prueba
    BY <1>4, <2>2, PasoIgualLema
  <2> HIDE DEF n
  <2> QED BY <2>1, <2>2, <2>3 DEF Recta
<1> HIDE DEF n
<1>7. Recta(IF Reintenta(s, codigo) THEN n ELSE Continuar(s))
  BY <1>5, <1>6
<1> QED BY <1>3, <1>7, UnaLema DEF Rechazar

\* The retry is rejected too.
LEMMA RechazarReintentoLema ==
    ASSUME IInv, NEW p \in Peticiones, RechazarReintento(p) PROVE IInv'
<1> DEFINE s == Simulada(pet[p])
<1>1. Recta(pet[p]) /\ pet[p].paso = "reintento"
  BY DEF RechazarReintento, IInv, PetInv
<1>2. Propone(s) /\ s.sims <= s.prueba + Extra(s)
  BY <1>1, SimuladaLema
<1>3. Poner(p, Continuar(s))
  BY DEF RechazarReintento
<1> HIDE DEF s
<1>4. Recta(Continuar(s))
  BY <1>2, ContinuarLema DEF Propone
<1> QED BY <1>3, <1>4, UnaLema DEF RechazarReintento

\* A second reading, of the price or of the balance.
LEMMA RelecturaLema ==
    ASSUME IInv, NEW p \in Peticiones, LlegarCurva(p) \/ LlegarResaldo(p) \/ FallarRelectura(p)
    PROVE  IInv'
<1> DEFINE t == pet[p]
<1>1. /\ Lista(t) /\ t.reintentado /\ t.sims <= t.prueba
      /\ t.paso \in {"curva", "resaldo"} /\ (t.paso = "curva" <=> t.lado = "compra")
  BY DEF LlegarCurva, LlegarResaldo, FallarRelectura, IInv, PetInv, Recta, Libre
<1>2. /\ t \in Trabajos /\ t.lado # "calienta" /\ Pedida(t) /\ t.prueba <= t.comps
      /\ OrdenBuena(t, t.orden)
  BY <1>1 DEF Lista, Pedida
<1>3. t.sims <= t.prueba + Extra(t)
  BY <1>1, <1>2 DEF Trabajos, Extra
<1>4. Recta(Continuar(t))
  BY <1>1, <1>3, ContinuarLema
<1>5. UNCHANGED <<cadena, cache>>
  BY DEF LlegarCurva, LlegarResaldo, FallarRelectura
<1>6. CASE LlegarCurva(p)
  <2> DEFINE n == [t EXCEPT !.curva = curva]
             o == Orden(TokensPor(curva, Neto(t.cantidad)), t.orden.limite)
  <2>1. Poner(p, IF completa THEN Continuar(t) ELSE Recalcular(n, o))
    BY <1>6 DEF LlegarCurva
  <2>2. /\ curva \in Curvas /\ t.lado = "compra" /\ t.cantidad \in Compras
        /\ t.orden.limite = Tope(t.cantidad)
    BY <1>1, <1>2, <1>6 DEF LlegarCurva, IInv, CadenaInv, Pedida, OrdenBuena
  <2>3. o = OrdenCompra(curva, t.cantidad)
    BY <2>2, OrdenCompraLema
  <2>4. /\ o \in Ordenes /\ Cobro(curva, o.tokens) <= t.cantidad + 1
        /\ o.limite = Tope(t.cantidad)
    BY <2>2, <2>3, OrdenCompraLema
  <2> HIDE DEF o
  <2>5. /\ n \in Trabajos /\ n.lado = t.lado /\ n.cantidad = t.cantidad /\ n.curva = curva
        /\ n.prueba = t.prueba /\ n.comps = t.comps /\ n.sims = t.sims
        /\ n.reintentado = t.reintentado
    BY <1>2, <2>2 DEF Trabajos
  <2> HIDE DEF n
  <2>6. Pedida(n) /\ OrdenBuena(n, o)
    BY <1>2, <2>2, <2>4, <2>5 DEF Pedida, OrdenBuena
  <2>7. Recta(Recalcular(n, o))
    BY <1>1, <1>2, <2>4, <2>5, <2>6, RecalcularLema
  <2>8. Recta(IF completa THEN Continuar(t) ELSE Recalcular(n, o))
    BY <1>4, <2>7
  <2> QED BY <1>5, <2>1, <2>8, UnaLema
<1>7. CASE LlegarResaldo(p)
  <2> DEFINE n == [t EXCEPT !.saldo = saldo]
             o == OrdenDeMenos(t, saldo)
  <2>1. Poner(p, IF 0 < saldo /\ saldo < t.saldo THEN Recalcular(n, o) ELSE Continuar(t))
    BY <1>7 DEF LlegarResaldo
  <2>2. /\ saldo \in Nat /\ t.lado = "venta" /\ t.cantidad \in Porcentajes /\ t.curva \in Curvas
    BY <1>1, <1>2, <1>7, ConjuntosAssumption DEF LlegarResaldo, IInv, CadenaInv, Pedida, Trabajos
  <2>3. o \in Ordenes /\ o.limite = Suelo(Ingreso(t.curva, o.tokens))
    BY <2>2, OrdenVentaLema DEF OrdenDeMenos
  <2> HIDE DEF o
  <2>5. /\ n \in Trabajos /\ n.lado = t.lado /\ n.cantidad = t.cantidad /\ n.curva = t.curva
        /\ n.prueba = t.prueba /\ n.comps = t.comps /\ n.sims = t.sims
        /\ n.reintentado = t.reintentado
    BY <1>2, <2>2 DEF Trabajos
  <2> HIDE DEF n
  <2>6. Pedida(n) /\ OrdenBuena(n, o)
    BY <1>2, <2>2, <2>3, <2>5 DEF Pedida, OrdenBuena
  <2>7. Recta(Recalcular(n, o))
    BY <1>1, <1>2, <2>3, <2>5, <2>6, RecalcularLema
  <2>8. Recta(IF 0 < saldo /\ saldo < t.saldo THEN Recalcular(n, o) ELSE Continuar(t))
    BY <1>4, <2>7
  <2> QED BY <1>5, <2>1, <2>8, UnaLema
<1>8. CASE FallarRelectura(p)
  <2>1. Poner(p, Continuar(t))
    BY <1>8 DEF FallarRelectura
  <2> QED BY <1>4, <1>5, <2>1, UnaLema
<1> QED BY <1>6, <1>7, <1>8

\* Ages grow together, and a stamp stays at least as old as its datum.
LEMMA TiempoLema == ASSUME IInv, PasarTiempo PROVE IInv'
<1>1. ASSUME NEW a \in Edades, NEW b \in Edades
      PROVE  Mas(a) \in Edades /\ (a <= b => Mas(a) <= Mas(b))
  BY CifrasAssumption DEF Mas, Edades
<1>2. CacheInv(cache')
  <2> DEFINE f(d) == IF d = "token" \/ ~ cache[d].hay THEN cache[d]
                     ELSE Dato(Mas(cache[d].edad), Mas(cache[d].real))
  <2>1. cache \in [Datos -> [edad : Edades, real : Edades, hay : BOOLEAN]]
    BY DEF IInv, CacheInv
  <2>2. cache' = [d \in Datos |-> f(d)]
    BY <2>1 DEF PasarTiempo
  <2>3. ASSUME NEW d \in Datos
        PROVE  /\ f(d) \in [edad : Edades, real : Edades, hay : BOOLEAN]
               /\ d # "token" /\ f(d).hay => f(d).real <= f(d).edad
    <3>1. cache[d] \in [edad : Edades, real : Edades, hay : BOOLEAN]
      BY <2>1
    <3>2. CASE d = "token" \/ ~ cache[d].hay
      BY <3>1, <3>2
    <3>3. CASE ~ (d = "token" \/ ~ cache[d].hay)
      <4>1. cache[d].real <= cache[d].edad /\ cache[d].real \in Edades /\ cache[d].edad \in Edades
        BY <3>1, <3>3 DEF IInv, CacheInv, Datos
      <4>2. Mas(cache[d].real) <= Mas(cache[d].edad) /\ Mas(cache[d].real) \in Edades
            /\ Mas(cache[d].edad) \in Edades
        BY <1>1, <4>1
      <4> QED BY <3>3, <4>2 DEF Dato
    <3> QED BY <3>2, <3>3
  <2> HIDE DEF f
  <2> QED BY <2>2, <2>3 DEF CacheInv, Datos
<1>3. PetInv'
  <2> DEFINE g(p) == IF pet[p].paso \in {"global", "hash"}
                     THEN [pet[p] EXCEPT !.edad = Mas(pet[p].edad)] ELSE pet[p]
  <2>1. pet' = [p \in Peticiones |-> g(p)]
    BY DEF PasarTiempo
  <2>2. ASSUME NEW p \in Peticiones PROVE Recta(g(p))
    <3>1. Recta(pet[p])
      BY DEF IInv, PetInv
    <3>2. CASE pet[p].paso \in {"global", "hash"}
      <4> DEFINE n == [pet[p] EXCEPT !.edad = Mas(pet[p].edad)]
      <4>1. Leyendo(pet[p])
        BY <3>1, <3>2 DEF Recta, Libre
      <4>2. pet[p] \in Trabajos /\ pet[p].edad \in Edades
        BY <4>1 DEF Leyendo, Pedida, Trabajos
      <4>3. Mas(pet[p].edad) \in Edades
        BY <1>1, <4>2
      <4>4. /\ n \in Trabajos /\ n.paso = pet[p].paso /\ n.lado = pet[p].lado
            /\ n.cantidad = pet[p].cantidad /\ n.prueba = pet[p].prueba
            /\ n.sims = pet[p].sims /\ n.reintentado = pet[p].reintentado
        BY <4>2, <4>3 DEF Trabajos
      <4>5. g(p) = n
        BY <3>2
      <4> HIDE DEF n, g
      <4>6. Leyendo(n)
        BY <4>1, <4>4 DEF Leyendo, Pedida
      <4> QED BY <3>2, <4>4, <4>5, <4>6 DEF Recta
    <3>3. CASE pet[p].paso \notin {"global", "hash"}
      BY <3>1, <3>3
    <3> QED BY <3>2, <3>3
  <2> HIDE DEF g
  <2> QED BY <2>1, <2>2 DEF PetInv
<1>4. CadenaInv'
  BY DEF PasarTiempo, IInv, CadenaInv, cadena
<1> QED BY <1>2, <1>3, <1>4 DEF IInv, CacheInv

\* The end of a request, the chain and the other tokens.
LEMMA EntornoLema ==
    ASSUME IInv,
           \/ \E p \in Peticiones : Terminar(p)
           \/ \E c \in Curvas : MoverCurva(c)
           \/ \E s \in Saldos : MoverSaldo(s)
           \/ Completar
           \/ Desalojar
    PROVE  IInv'
<1>1. ASSUME NEW p \in Peticiones, Terminar(p) PROVE IInv'
  <2>1. Recta(Libre)
    BY DEF Recta
  <2> QED BY <1>1, <2>1, UnaLema DEF Terminar
<1>2. CASE Desalojar
  <2>1. cache' = [cache EXCEPT !["token"] = Nada] /\ UNCHANGED <<cadena, pet>>
    BY <1>2 DEF Desalojar
  <2>2. Nada \in [edad : Edades, real : Edades, hay : BOOLEAN]
    BY CifrasAssumption DEF Nada, Edades
  <2>3. CacheInv(cache')
    BY <2>1, <2>2 DEF IInv, CacheInv, Datos
  <2> QED BY <2>1, <2>3 DEF IInv, CacheInv, CadenaInv, PetInv, cadena
<1>3. CASE (\E c \in Curvas : MoverCurva(c)) \/ (\E s \in Saldos : MoverSaldo(s)) \/ Completar
  <2>1. CadenaInv' /\ cache' = cache /\ pet' = pet
    BY <1>3 DEF MoverCurva, MoverSaldo, Completar, IInv, CadenaInv
  <2> QED BY <2>1 DEF IInv, CacheInv, PetInv
<1> QED BY <1>1, <1>2, <1>3

-----------------------------------------------------------------------------
(* The theorems                                                            *)

\* Nothing is asked and nothing is cached at first.
LEMMA InitLema == InitPreparar => IInv
<1> SUFFICES ASSUME InitPreparar PROVE IInv
  OBVIOUS
<1>1. Nada \in [edad : Edades, real : Edades, hay : BOOLEAN] /\ ~ Nada.hay
  BY CifrasAssumption DEF Nada, Edades
<1>2. CacheInv(cache)
  BY <1>1 DEF InitPreparar, CacheInv, Datos
<1>3. PetInv
  BY DEF InitPreparar, PetInv, Recta
<1>4. CadenaInv
  BY DEF InitPreparar, CadenaInv
<1> QED BY <1>2, <1>3, <1>4 DEF IInv

\* The invariant is inductive.
LEMMA PasoLema == IInv /\ [NextPreparar]_varsPreparar => IInv'
<1> SUFFICES ASSUME IInv, [NextPreparar]_varsPreparar PROVE IInv'
  OBVIOUS
<1>1. CASE UNCHANGED varsPreparar
  BY <1>1 DEF varsPreparar, cadena, IInv, CadenaInv, CacheInv, PetInv
<1>2. CASE \E p \in Preparadoras :
             \/ \E l \in Compras : Comprar(p, l)
             \/ \E pct \in Porcentajes : Vender(p, pct)
             \/ LlegarCuentas(p) \/ LlegarSaldo(p)
             \/ Aceptar(p) \/ Rechazar(p) \/ RechazarReintento(p)
             \/ LlegarCurva(p) \/ LlegarResaldo(p) \/ FallarRelectura(p)
  <2>1. PICK p \in Preparadoras :
             \/ \E l \in Compras : Comprar(p, l)
             \/ \E pct \in Porcentajes : Vender(p, pct)
             \/ LlegarCuentas(p) \/ LlegarSaldo(p)
             \/ Aceptar(p) \/ Rechazar(p) \/ RechazarReintento(p)
             \/ LlegarCurva(p) \/ LlegarResaldo(p) \/ FallarRelectura(p)
    BY <1>2
  <2>2. p \in Peticiones
    BY DEF Peticiones
  <2> QED BY <2>1, <2>2, EmpezarLema, CuentasLema, SaldoLema, AceptarLema, RechazarLema,
             RechazarReintentoLema, RelecturaLema
<1>3. ASSUME NEW p \in Calentadoras, Calentar(p) PROVE IInv'
  BY <1>3, EmpezarLema DEF Peticiones
<1>4. ASSUME NEW p \in Peticiones, NEW d \in Datos, LlegarDato(p, d) PROVE IInv'
  BY <1>4, DatoLema
<1>5. CASE PasarTiempo
  BY <1>5, TiempoLema
<1>6. CASE \/ \E p \in Peticiones : Terminar(p)
           \/ \E c \in Curvas : MoverCurva(c)
           \/ \E s \in Saldos : MoverSaldo(s)
           \/ Completar
           \/ Desalojar
  BY <1>6, EntornoLema
<1> QED BY <1>1, <1>2, <1>3, <1>4, <1>5, <1>6 DEF NextPreparar, Datos

\* The invariant holds of every behaviour.
LEMMA InvLema == SpecPreparar => []IInv
BY InitLema, PasoLema, PTL DEF SpecPreparar

\* What the invariant says of a transaction that is asked about or offered.
LEMMA PropuestaLema ==
    ASSUME IInv, NEW p \in Peticiones, Propuesta(p)
    PROVE  Propone(pet[p])
BY DEF IInv, PetInv, Recta, Propuesta, Libre

\* Every request carries what prepare or warm put in it, and no composition
\* is tried beyond those there are.
THEOREM TypeCorrect == SpecPreparar => []PrepararTypeOK
<1>1. IInv => PrepararTypeOK
  <2> SUFFICES ASSUME IInv PROVE PrepararTypeOK
    OBVIOUS
  <2>1. ASSUME NEW p \in Peticiones PROVE pet[p] \in Tareas
    <3>1. pet[p] = Libre \/ pet[p] \in Trabajos
      BY RectaLema DEF IInv, PetInv
    <3> QED BY <3>1 DEF Tareas, Trabajos, PasosDeOrden, Previos, Probando
  <2>2. pet \in [Peticiones -> Tareas]
    BY <2>1 DEF IInv, PetInv
  <2> QED BY <2>2 DEF PrepararTypeOK, IInv, CadenaInv, CacheInv, Datos
<1> QED BY <1>1, InvLema, PTL

\* What memory gives is really younger than its time to live.
THEOREM LaMemoriaEsFresca == SpecPreparar => []MemoriaFresca
<1>1. IInv => MemoriaFresca
  <2> SUFFICES ASSUME IInv, NEW d \in {"global", "hash"}, Vigente(d, cache)
               PROVE  cache[d].real < (IF d = "hash" THEN BLOCKHASH_TTL ELSE GLOBAL_TTL)
    BY DEF MemoriaFresca
  <2>1. cache[d].hay /\ cache[d].edad < (IF d = "hash" THEN BLOCKHASH_TTL ELSE GLOBAL_TTL)
    BY DEF Vigente
  <2>2. cache[d].real <= cache[d].edad /\ cache[d].real \in Nat /\ cache[d].edad \in Nat
    BY <2>1 DEF IInv, CacheInv, Datos, Edades
  <2> QED BY <2>1, <2>2, CifrasAssumption
<1> QED BY <1>1, InvLema, PTL

\* What is offered is what the summary says.
THEOREM OfreceLoQueDice == SpecPreparar => []ResumenEsLaOrden
<1>1. IInv => ResumenEsLaOrden
  BY PropuestaLema DEF ResumenEsLaOrden, Propone, Lista
<1> QED BY <1>1, InvLema, PTL

\* The floor of a sale is the one of the tokens it sells.
THEOREM SueloSeguro == SpecPreparar => []SueloDeLoVendido
<1>1. IInv => SueloDeLoVendido
  BY PropuestaLema DEF SueloDeLoVendido, Propone, Lista, OrdenBuena
<1> QED BY <1>1, InvLema, PTL

\* At the price it was computed with, a purchase costs what the user wrote.
THEOREM GastoSeguro == SpecPreparar => []GastoEsElImporte
<1>1. IInv => GastoEsElImporte
  BY PropuestaLema DEF GastoEsElImporte, Propone, Lista, OrdenBuena
<1> QED BY <1>1, InvLema, PTL

\* The chain is asked at most once more than there are compositions.
THEOREM ReintentoUnico == SpecPreparar => []UnSoloReintento
<1>1. IInv => UnSoloReintento
  <2> SUFFICES ASSUME IInv, NEW p \in Peticiones, pet[p].paso # "libre"
               PROVE  pet[p].sims <= pet[p].comps + 1
    BY DEF UnSoloReintento
  <2>1. Recta(pet[p]) /\ pet[p] \in Trabajos
    BY RectaLema DEF IInv, PetInv, Libre
  <2>2. Leyendo(pet[p]) \/ Lista(pet[p])
    BY <2>1 DEF Recta, Propone, Libre
  <2>3. pet[p].sims \in Nat /\ pet[p].comps \in 1 .. 2 /\ pet[p].prueba \in 0 .. 2
    BY <2>1 DEF Trabajos
  <2>4. CASE Leyendo(pet[p])
    BY <2>3, <2>4 DEF Leyendo
  <2>5. CASE Lista(pet[p])
    BY <2>3, <2>5 DEF Lista, Extra
  <2> QED BY <2>2, <2>4, <2>5
<1> QED BY <1>1, InvLema, PTL
=============================================================================
