---------------------------- MODULE IngestaProofs ----------------------------
(***************************************************************************)
(* What the detection path guarantees for any engines, events and          *)
(* capacities: no creation vanishes, no event is delivered twice while it  *)
(* is remembered, no token is announced twice.                             *)
(*                                                                         *)
(* None of the three is inductive alone.  That nothing vanishes needs that *)
(* whatever the two memories hold did go through; that an event is         *)
(* delivered once needs that the race's memory is the end of what it       *)
(* delivered; that a token is announced once needs that what was announced *)
(* is in the database.                                                     *)
(***************************************************************************)
EXTENDS Ingesta, SequenceTheorems, TLAPS

Cubiertas == EnManejo \cup tokens \cup perdidas

\* What the memories hold went through.
MemoriaInv ==
    /\ NadaSeEsfuma
    /\ Range(vistas) \cap Creaciones \subseteq Cubiertas
    /\ Range(dedup) \subseteq Cubiertas

\* The race's memory is the end of what it delivered.
VistasInv ==
    /\ EntregaUnaVez
    /\ Len(vistas) <= Len(entregas)
    /\ Len(vistas) = CapCarrera \/ Len(vistas) = Len(entregas)
    /\ \A n \in 1 .. Len(vistas) : vistas[n] = entregas[Len(entregas) - Len(vistas) + n]

\* What was announced is in the database, and what is about to be was not
\* announced before.
AnuncioInv ==
    /\ PublicadaUnaVez
    /\ \A e \in Creaciones :
         /\ publicados[e] # 0 => e \in tokens
         /\ manejo = En("publica", e) => e \in tokens /\ publicados[e] = 0

-----------------------------------------------------------------------------
(* The queues                                                              *)

\* Taking the head of a queue loses nothing but the head.
LEMMA TailLema ==
    ASSUME NEW T, NEW q \in Seq(T), q # <<>>
    PROVE  /\ Head(q) \in T /\ Tail(q) \in Seq(T)
           /\ Len(Tail(q)) = Len(q) - 1
           /\ Head(q) \in Range(q)
           /\ Range(q) \subseteq Range(Tail(q)) \cup {Head(q)}
           /\ Range(Tail(q)) \subseteq Range(q)
<1>1. /\ Head(q) \in T /\ Tail(q) \in Seq(T) /\ Len(q) \in Nat /\ Len(q) # 0
      /\ Len(Tail(q)) = Len(q) - 1 /\ Head(q) = q[1]
      /\ \A n \in 1 .. Len(q) - 1 : Tail(q)[n] = q[n + 1]
      /\ DOMAIN q = 1 .. Len(q) /\ DOMAIN Tail(q) = 1 .. Len(q) - 1
  OBVIOUS
<1>2. Head(q) \in Range(q)
  BY <1>1 DEF Range
<1>3. Range(q) \subseteq Range(Tail(q)) \cup {Head(q)}
  <2> SUFFICES ASSUME NEW n \in DOMAIN q, n # 1 PROVE q[n] \in Range(Tail(q))
    BY <1>1 DEF Range
  <2>1. n - 1 \in 1 .. Len(q) - 1 /\ (n - 1) + 1 = n
    BY <1>1
  <2>2. Tail(q)[n - 1] = q[n]
    BY <1>1, <2>1
  <2> QED BY <1>1, <2>1, <2>2 DEF Range
<1>4. Range(Tail(q)) \subseteq Range(q)
  <2> SUFFICES ASSUME NEW n \in DOMAIN Tail(q) PROVE Tail(q)[n] \in Range(q)
    BY DEF Range
  <2>1. n + 1 \in DOMAIN q /\ Tail(q)[n] = q[n + 1]
    BY <1>1
  <2> QED BY <2>1 DEF Range
<1> QED BY <1>1, <1>2, <1>3, <1>4

\* Appending adds one element to the range.
LEMMA AppendLema ==
    ASSUME NEW T, NEW q \in Seq(T), NEW e \in T
    PROVE  /\ Append(q, e) \in Seq(T)
           /\ Len(Append(q, e)) = Len(q) + 1
           /\ Range(Append(q, e)) = Range(q) \cup {e}
<1>1. /\ Append(q, e) \in Seq(T) /\ Len(Append(q, e)) = Len(q) + 1 /\ Len(q) \in Nat
      /\ DOMAIN q = 1 .. Len(q) /\ DOMAIN Append(q, e) = 1 .. Len(q) + 1
      /\ \A n \in 1 .. Len(q) : Append(q, e)[n] = q[n]
      /\ Append(q, e)[Len(q) + 1] = e
  OBVIOUS
<1>2. Range(Append(q, e)) \subseteq Range(q) \cup {e}
  <2> SUFFICES ASSUME NEW n \in DOMAIN Append(q, e), n # Len(q) + 1
               PROVE  Append(q, e)[n] \in Range(q)
    BY <1>1 DEF Range
  <2>1. n \in 1 .. Len(q)
    BY <1>1
  <2> QED BY <1>1, <2>1 DEF Range
<1>3. Range(q) \subseteq Range(Append(q, e))
  <2> SUFFICES ASSUME NEW n \in DOMAIN q PROVE q[n] \in Range(Append(q, e))
    BY DEF Range
  <2>1. n \in DOMAIN Append(q, e) /\ Append(q, e)[n] = q[n]
    BY <1>1
  <2> QED BY <2>1 DEF Range
<1>4. e \in Range(Append(q, e))
  BY <1>1 DEF Range
<1> QED BY <1>1, <1>2, <1>3, <1>4

\* A bounded memory takes the new element, keeps its bound and forgets only
\* its oldest: what it holds is the end of the longer sequence.
LEMMA RecordarLema ==
    ASSUME NEW T, NEW s \in Seq(T), NEW e \in T, NEW cap \in Nat \ {0}, Len(s) <= cap
    PROVE  /\ Recordar(s, e, cap) \in Seq(T)
           /\ Len(Recordar(s, e, cap)) <= cap
           /\ Range(Recordar(s, e, cap)) \subseteq Range(s) \cup {e}
           /\ Len(s) < cap => Recordar(s, e, cap) = Append(s, e)
           /\ Len(s) = cap => /\ Len(Recordar(s, e, cap)) = cap
                              /\ \A n \in 1 .. cap : Recordar(s, e, cap)[n] = Append(s, e)[n + 1]
<1>1. /\ Append(s, e) \in Seq(T)
      /\ Len(Append(s, e)) = Len(s) + 1
      /\ Range(Append(s, e)) = Range(s) \cup {e}
      /\ Len(s) \in Nat
  BY AppendLema
<1>2. CASE Len(s) < cap
  BY <1>1, <1>2 DEF Recordar
<1>3. CASE Len(s) = cap
  <2> DEFINE q == Append(s, e)
  <2>1. Append(s, e) # <<>>
    OBVIOUS
  <2>2. Recordar(s, e, cap) = Tail(q)
    BY <1>3 DEF Recordar
  <2>3. q \in Seq(T) /\ Len(q) = cap + 1 /\ Range(q) = Range(s) \cup {e}
    BY <1>1, <1>3
  <2>0. q # <<>>
    BY <2>1
  <2> HIDE DEF q
  <2>4. Tail(q) \in Seq(T) /\ Len(Tail(q)) = Len(q) - 1 /\ Range(Tail(q)) \subseteq Range(q)
    BY <2>0, <2>3, TailLema, Zenon
  <2>5. Len(Tail(q)) = cap
    BY <2>3, <2>4
  <2>6. \A n \in 1 .. cap : Tail(q)[n] = q[n + 1]
    BY <2>0, <2>3
  <2>7. Recordar(s, e, cap) \in Seq(T) /\ Range(Recordar(s, e, cap)) \subseteq Range(s) \cup {e}
    BY <2>2, <2>3, <2>4
  <2>8. Len(Recordar(s, e, cap)) = cap
    BY <2>2, <2>5
  <2>9. \A n \in 1 .. cap : Recordar(s, e, cap)[n] = Append(s, e)[n + 1]
    BY <2>2, <2>6 DEF q
  <2> QED BY <1>3, <2>7, <2>8, <2>9
<1> QED BY <1>1, <1>2, <1>3

\* The shared queue takes the new event, keeps its bound and drops at most
\* its oldest.
LEMMA EncolarLema ==
    ASSUME NEW T, NEW q \in Seq(T), NEW e \in T, Len(q) <= TamCola
    PROVE  /\ Encolar(q, e) \in Seq(T)
           /\ Len(Encolar(q, e)) <= TamCola
           /\ e \in Range(Encolar(q, e))
           /\ Range(q) \cap Creaciones \subseteq Range(Encolar(q, e)) \cup Desbordada(q)
<1>1. TamCola \in Nat \ {0} /\ Len(q) \in Nat
  BY CapacidadesAssumption
<1>2. CASE Len(q) < TamCola
  BY <1>1, <1>2, AppendLema DEF Encolar
<1>3. CASE Len(q) = TamCola
  <2>1. q # <<>> /\ Encolar(q, e) = Append(Tail(q), e) /\ Desbordada(q) = {Head(q)} \cap Creaciones
    BY <1>1, <1>3 DEF Encolar, Desbordada
  <2>2. /\ Tail(q) \in Seq(T) /\ Len(Tail(q)) = Len(q) - 1
        /\ Range(q) \subseteq Range(Tail(q)) \cup {Head(q)}
    BY <2>1, TailLema, Zenon
  <2>3. /\ Append(Tail(q), e) \in Seq(T)
        /\ Len(Append(Tail(q), e)) = Len(Tail(q)) + 1
        /\ Range(Append(Tail(q), e)) = Range(Tail(q)) \cup {e}
    <3> DEFINE r == Tail(q)
    <3>1. r \in Seq(T)
      BY <2>2
    <3> HIDE DEF r
    <3>2. /\ Append(r, e) \in Seq(T)
          /\ Len(Append(r, e)) = Len(r) + 1
          /\ Range(Append(r, e)) = Range(r) \cup {e}
      BY <3>1, AppendLema
    <3> QED BY <3>2 DEF r
  <2>4. Len(Encolar(q, e)) <= TamCola
    BY <1>1, <1>3, <2>1, <2>2, <2>3
  <2>5. Encolar(q, e) \in Seq(T) /\ Range(Encolar(q, e)) = Range(Tail(q)) \cup {e}
    BY <2>1, <2>3, Zenon
  <2>6. Range(q) \cap Creaciones \subseteq Range(Encolar(q, e)) \cup Desbordada(q)
    BY <2>1, <2>2, <2>5
  <2> QED BY <2>4, <2>5, <2>6
<1> QED BY <1>1, <1>2, <1>3

-----------------------------------------------------------------------------
(* The types                                                               *)

\* What taking an event from the queue leaves of it.
LEMMA SacarTipo ==
    ASSUME TypeOK, Sacar
    PROVE  /\ Head(cola) \in Eventos
           /\ cola' \in Seq(Eventos) /\ Len(cola') <= TamCola
           /\ Head(cola) \in Range(cola)
           /\ Range(cola) \subseteq Range(cola') \cup {Head(cola)}
<1> DEFINE q == cola
<1>1. q \in Seq(Eventos) /\ q # <<>> /\ Len(q) <= TamCola /\ cola' = Tail(q) /\ TamCola \in Nat
  BY CapacidadesAssumption DEF TypeOK, Sacar
<1> HIDE DEF q
<1>2. /\ Head(q) \in Eventos /\ Tail(q) \in Seq(Eventos)
      /\ Len(Tail(q)) = Len(q) - 1
      /\ Head(q) \in Range(q)
      /\ Range(q) \subseteq Range(Tail(q)) \cup {Head(q)}
  BY <1>1, TailLema, Zenon
<1>3. Len(Tail(q)) <= TamCola
  BY <1>1, <1>2
<1> QED BY <1>1, <1>2, <1>3 DEF q

\* A delivery keeps the race's memory typed and within its capacity, and adds
\* to it only what is delivered.
LEMMA EntregarTipo ==
    ASSUME TypeOK, NEW e \in Eventos, Entregar(e)
    PROVE  /\ vistas' \in Seq(Eventos) /\ Len(vistas') <= CapCarrera
           /\ Range(vistas') \subseteq Range(vistas) \cup {e}
           /\ entregas' \in Seq(Eventos)
<1>1. vistas \in Seq(Eventos) /\ Len(vistas) <= CapCarrera /\ entregas \in Seq(Eventos)
  BY DEF TypeOK
<1>2. CapCarrera \in Nat \ {0}
  BY CapacidadesAssumption
<1>3. vistas' = Recordar(vistas, e, CapCarrera) /\ entregas' = Append(entregas, e)
  BY DEF Entregar
<1>4. /\ Recordar(vistas, e, CapCarrera) \in Seq(Eventos)
      /\ Len(Recordar(vistas, e, CapCarrera)) <= CapCarrera
      /\ Range(Recordar(vistas, e, CapCarrera)) \subseteq Range(vistas) \cup {e}
  BY <1>1, <1>2, RecordarLema, Zenon
<1>5. Append(entregas, e) \in Seq(Eventos)
  BY <1>1
<1> QED BY <1>3, <1>4, <1>5, Zenon

\* Every step keeps the types and the bounds of the queues.
LEMMA TypeOK_Step == TypeOK /\ [Next]_vars => TypeOK'
<1> SUFFICES ASSUME TypeOK, [Next]_vars PROVE TypeOK'
  OBVIOUS
<1> USE EventosAssumption, CreadoresAssumption, CapacidadesAssumption
<1>1. ASSUME NEW i \in Motores, Conectar(i) PROVE TypeOK'
  BY <1>1 DEF TypeOK, Conectar, PasarA, SoloTransporte, memoria, base
<1>2. ASSUME NEW i \in Motores, Confirmar(i) \/ Rechazar(i) \/ Cortar(i) PROVE TypeOK'
  BY <1>2 DEF TypeOK, Confirmar, Rechazar, Cortar, PasarA, SoloTransporte, memoria, base
<1>3. ASSUME NEW i \in Motores, NEW e \in Eventos, Traer(i, e) PROVE TypeOK'
  <2>1. cola' \in Seq(Eventos) /\ Len(cola') <= TamCola
    BY <1>3, EncolarLema DEF TypeOK, Traer
  <2>2. pos' \in [Motores -> 0 .. UltimoEvento]
    BY <1>3 DEF TypeOK, Traer, Eventos
  <2>3. traidas' \subseteq Creaciones /\ perdidas' \subseteq Creaciones
    BY <1>3 DEF TypeOK, Traer, Desbordada
  <2> QED BY <1>3, <2>1, <2>2, <2>3 DEF TypeOK, Traer, memoria, base
<1>4. CASE SacarRepetido
  <2>1. Sacar
    BY <1>4 DEF SacarRepetido
  <2>2. cola' \in Seq(Eventos) /\ Len(cola') <= TamCola
    BY <2>1, SacarTipo
  <2> QED BY <1>4, <2>2 DEF TypeOK, SacarRepetido, Sacar, transporte, base
<1>5. CASE SacarOtro
  <2>1. Sacar /\ Entregar(Head(cola))
    BY <1>5 DEF SacarOtro
  <2>2. Head(cola) \in Eventos /\ cola' \in Seq(Eventos) /\ Len(cola') <= TamCola
    BY <2>1, SacarTipo
  <2>3. /\ vistas' \in Seq(Eventos) /\ Len(vistas') <= CapCarrera
        /\ entregas' \in Seq(Eventos)
    BY <2>1, <2>2, EntregarTipo
  <2> QED BY <1>5, <2>2, <2>3 DEF TypeOK, SacarOtro, Sacar, transporte, base
<1>6. CASE SacarCreacion
  <2>1. Sacar /\ Entregar(Head(cola)) /\ Head(cola) \in Creaciones
    BY <1>6 DEF SacarCreacion
  <2>2. Head(cola) \in Eventos /\ cola' \in Seq(Eventos) /\ Len(cola') <= TamCola
    BY <2>1, SacarTipo
  <2>3. /\ vistas' \in Seq(Eventos) /\ Len(vistas') <= CapCarrera
        /\ entregas' \in Seq(Eventos)
    BY <2>1, <2>2, EntregarTipo
  <2>4. dedup' \in Seq(Creaciones) /\ Len(dedup') <= CapDetector
    <3>1. dedup \in Seq(Creaciones) /\ Len(dedup) <= CapDetector
      BY DEF TypeOK
    <3>2. dedup' = Recordar(dedup, Head(cola), CapDetector)
      BY <1>6 DEF SacarCreacion
    <3>3. CapDetector \in Nat \ {0}
      OBVIOUS
    <3>4. /\ Recordar(dedup, Head(cola), CapDetector) \in Seq(Creaciones)
          /\ Len(Recordar(dedup, Head(cola), CapDetector)) <= CapDetector
      BY <2>1, <3>1, <3>3, RecordarLema, Zenon
    <3> QED BY <3>2, <3>4, Zenon
  <2>5. manejo' \in [paso : {"guarda", "publica"}, evento : Creaciones]
    BY <1>6, <2>1 DEF SacarCreacion, En
  <2> QED BY <1>6, <2>2, <2>3, <2>4, <2>5 DEF TypeOK, SacarCreacion, Sacar, transporte, base
<1>7. ASSUME NEW e \in Creaciones, Transaccion(e)
      PROVE  tokens' \subseteq Creaciones /\ creados' \in [Creadores -> Nat]
  BY <1>7 DEF TypeOK, Transaccion
<1>8. ASSUME NEW e \in Creaciones, Guardar(e) PROVE TypeOK'
  <2>1. tokens' \subseteq Creaciones /\ creados' \in [Creadores -> Nat]
    BY <1>7, <1>8 DEF Guardar
  <2>2. manejo' = Libre \/ manejo' \in [paso : {"guarda", "publica"}, evento : Creaciones]
    BY <1>8 DEF Guardar, TrasInsertar, En
  <2> QED BY <1>8, <2>1, <2>2 DEF TypeOK, Guardar, TrasGuardar, transporte
<1>9. ASSUME NEW e \in Creaciones, FallarAlGuardar(e) PROVE TypeOK'
  <2>1. tokens' \subseteq Creaciones /\ creados' \in [Creadores -> Nat]
    BY <1>7, <1>9 DEF TypeOK, FallarAlGuardar, base
  <2> QED BY <1>9, <2>1 DEF TypeOK, FallarAlGuardar, TrasGuardar, transporte
<1>10. ASSUME NEW e \in Creaciones, Publicar(e) PROVE TypeOK'
  <2>1. analisis' \in Seq(Creaciones) /\ Len(analisis') <= TamAnalisis
    BY <1>10 DEF TypeOK, Publicar
  <2>2. publicados' \in [Creaciones -> Nat]
    BY <1>10 DEF TypeOK, Publicar
  <2> QED BY <1>10, <2>1, <2>2 DEF TypeOK, Publicar, transporte, base
<1>11. CASE Analizar
  <2>1. analisis' \in Seq(Creaciones) /\ Len(analisis') <= TamAnalisis
    BY <1>11 DEF TypeOK, Analizar
  <2> QED BY <1>11, <2>1 DEF TypeOK, Analizar, transporte, base
<1>12. CASE Reiniciar
  <2>1. EnManejo \subseteq Creaciones /\ EnCola \subseteq Creaciones
    BY DEF TypeOK, EnManejo, EnCola, Libre
  <2> QED BY <1>12, <2>1 DEF TypeOK, Reiniciar, base
<1>13. CASE UNCHANGED vars
  BY <1>13 DEF TypeOK, vars, transporte, memoria, base
<1> QED
  BY <1>1, <1>2, <1>3, <1>4, <1>5, <1>6, <1>8, <1>9, <1>10, <1>11, <1>12, <1>13 DEF Next

-----------------------------------------------------------------------------
(* Nothing vanishes                                                        *)

\* Every step keeps account of every creation, and of what the two memories
\* hold.
LEMMA Memoria_Step == TypeOK /\ MemoriaInv /\ [Next]_vars => MemoriaInv'
<1> SUFFICES ASSUME TypeOK, MemoriaInv, [Next]_vars PROVE MemoriaInv'
  OBVIOUS
<1> USE DEF MemoriaInv
<1>1. ASSUME NEW i \in Motores, Conectar(i) \/ Confirmar(i) \/ Rechazar(i) \/ Cortar(i)
      PROVE  MemoriaInv'
  BY <1>1 DEF Conectar, Confirmar, Rechazar, Cortar, SoloTransporte, memoria, base,
     NadaSeEsfuma, Cubiertas, EnManejo, EnCola
<1>2. ASSUME NEW i \in Motores, NEW e \in Eventos, Traer(i, e) PROVE MemoriaInv'
  <2>1. /\ e \in Range(cola')
        /\ Range(cola) \cap Creaciones \subseteq Range(cola') \cup Desbordada(cola)
    BY <1>2, EncolarLema DEF TypeOK, Traer
  <2>2. /\ traidas' = traidas \cup ({e} \cap Creaciones)
        /\ perdidas' = perdidas \cup Desbordada(cola)
        /\ UNCHANGED <<vistas, dedup, manejo, tokens>>
    BY <1>2 DEF Traer, memoria, base
  <2> QED BY <2>1, <2>2 DEF NadaSeEsfuma, Cubiertas, EnManejo, EnCola
<1>3. ASSUME Sacar, UNCHANGED dedup, Head(cola) \in Creaciones => Head(cola) \in Cubiertas,
             UNCHANGED manejo, Range(vistas') \subseteq Range(vistas) \cup {Head(cola)}
      PROVE  MemoriaInv'
  <2>1. Range(cola) \subseteq Range(cola') \cup {Head(cola)}
    BY <1>3, SacarTipo
  <2>2. UNCHANGED <<tokens, perdidas, traidas>>
    BY <1>3 DEF Sacar, base
  <2> QED BY <1>3, <2>1, <2>2 DEF NadaSeEsfuma, Cubiertas, EnManejo, EnCola
<1>4. CASE SacarRepetido
  <2>1. /\ Sacar /\ UNCHANGED dedup /\ UNCHANGED manejo /\ UNCHANGED vistas
        /\ Head(cola) \in Range(vistas)
    BY <1>4 DEF SacarRepetido
  <2>2. Head(cola) \in Creaciones => Head(cola) \in Cubiertas
    BY <2>1
  <2>3. Range(vistas') \subseteq Range(vistas) \cup {Head(cola)}
    BY <2>1
  <2> QED BY <1>3, <2>1, <2>2, <2>3
<1>5. CASE SacarOtro
  <2>1. /\ Sacar /\ UNCHANGED dedup /\ UNCHANGED manejo /\ Entregar(Head(cola))
        /\ Head(cola) \notin Creaciones \/ Head(cola) \in Range(dedup)
    BY <1>5 DEF SacarOtro
  <2>2. Head(cola) \in Creaciones => Head(cola) \in Cubiertas
    BY <2>1
  <2>3. Range(vistas') \subseteq Range(vistas) \cup {Head(cola)}
    BY <2>1, SacarTipo, EntregarTipo
  <2> QED BY <1>3, <2>1, <2>2, <2>3
<1>6. CASE SacarCreacion
  <2>1. /\ Sacar /\ Entregar(Head(cola)) /\ Head(cola) \in Creaciones
        /\ manejo = Libre /\ manejo' = En("guarda", Head(cola))
        /\ dedup' = Recordar(dedup, Head(cola), CapDetector)
        /\ UNCHANGED <<tokens, perdidas, traidas>>
    BY <1>6 DEF SacarCreacion, Sacar, base
  <2>2. /\ Range(cola) \subseteq Range(cola') \cup {Head(cola)}
        /\ Range(vistas') \subseteq Range(vistas) \cup {Head(cola)}
    BY <2>1, SacarTipo, EntregarTipo
  <2>3. Range(dedup') \subseteq Range(dedup) \cup {Head(cola)}
    <3>1. dedup \in Seq(Creaciones) /\ Len(dedup) <= CapDetector /\ CapDetector \in Nat \ {0}
      BY CapacidadesAssumption DEF TypeOK
    <3>2. Range(Recordar(dedup, Head(cola), CapDetector)) \subseteq Range(dedup) \cup {Head(cola)}
      BY <2>1, <3>1, RecordarLema, Zenon
    <3> QED BY <2>1, <3>2, Zenon
  <2>4. EnManejo = {} /\ EnManejo' = {Head(cola)}
    BY <2>1 DEF EnManejo, Libre, En
  <2> QED BY <2>1, <2>2, <2>3, <2>4 DEF NadaSeEsfuma, Cubiertas, EnCola
<1>7. ASSUME NEW e \in Creaciones, Guardar(e) \/ FallarAlGuardar(e) PROVE MemoriaInv'
  <2>1. /\ EnManejo = {e} /\ EnManejo' = {}
        /\ UNCHANGED <<cola, vistas, dedup, traidas>>
    BY <1>7 DEF Guardar, FallarAlGuardar, Guardando, TrasGuardar, TrasInsertar, EnManejo,
       Libre, En
  <2>2. /\ tokens \subseteq tokens' /\ perdidas \subseteq perdidas'
        /\ e \in tokens' \cup perdidas'
    BY <1>7 DEF Guardar, FallarAlGuardar, Transaccion, base
  <2> QED BY <2>1, <2>2 DEF NadaSeEsfuma, Cubiertas, EnCola
<1>8. ASSUME NEW e \in Creaciones, Publicar(e) PROVE MemoriaInv'
  <2>1. /\ EnManejo = {} /\ EnManejo' = {}
        /\ UNCHANGED <<cola, vistas, dedup, traidas, tokens, perdidas>>
    BY <1>8 DEF Publicar, EnManejo, Libre, En, base
  <2> QED BY <2>1 DEF NadaSeEsfuma, Cubiertas, EnCola
<1>9. CASE Analizar
  BY <1>9 DEF Analizar, base, NadaSeEsfuma, Cubiertas, EnManejo, EnCola
<1>10. CASE Reiniciar
  <2>1. /\ perdidas' = perdidas \cup EnManejo \cup EnCola
        /\ UNCHANGED <<tokens, traidas>>
    BY <1>10 DEF Reiniciar, base
  <2>2. Range(vistas') = {} /\ Range(dedup') = {}
    BY <1>10 DEF Reiniciar, Range
  <2> QED BY <2>1, <2>2 DEF NadaSeEsfuma, Cubiertas
<1>11. CASE UNCHANGED vars
  BY <1>11 DEF vars, memoria, base, NadaSeEsfuma, Cubiertas, EnManejo, EnCola
<1> QED
  BY <1>1, <1>2, <1>4, <1>5, <1>6, <1>7, <1>8, <1>9, <1>10, <1>11 DEF Next

-----------------------------------------------------------------------------
(* An event is delivered once                                              *)

\* Delivering what the memory does not hold keeps the memory the end of what
\* was delivered, and the repetitions beyond its capacity.
LEMMA Entregar_Step ==
    ASSUME TypeOK, VistasInv, NEW e \in Eventos, e \notin Range(vistas), Entregar(e)
    PROVE  VistasInv'
<1>1. /\ vistas \in Seq(Eventos) /\ Len(vistas) \in Nat /\ Len(vistas) <= CapCarrera
      /\ entregas \in Seq(Eventos) /\ Len(entregas) \in Nat
      /\ CapCarrera \in Nat \ {0}
  BY CapacidadesAssumption DEF TypeOK
<1>2. /\ entregas' = Append(entregas, e) /\ Len(entregas') = Len(entregas) + 1
      /\ entregas'[Len(entregas) + 1] = e
      /\ \A n \in 1 .. Len(entregas) : entregas'[n] = entregas[n]
      /\ DOMAIN entregas' = 1 .. Len(entregas) + 1 /\ DOMAIN entregas = 1 .. Len(entregas)
      /\ vistas' = Recordar(vistas, e, CapCarrera)
  BY <1>1 DEF Entregar
<1>3. /\ Len(vistas) <= Len(entregas)
      /\ Len(vistas) = CapCarrera \/ Len(vistas) = Len(entregas)
      /\ \A n \in 1 .. Len(vistas) : vistas[n] = entregas[Len(entregas) - Len(vistas) + n]
      /\ \A j, k \in 1 .. Len(entregas) :
            j < k /\ entregas[j] = entregas[k] => k - j > CapCarrera
  BY <1>2 DEF VistasInv, EntregaUnaVez
<1>4. \A n \in 1 .. Len(vistas) : vistas[n] # e
  BY <1>1 DEF Range
<1>5. \A j \in 1 .. Len(entregas) : entregas[j] = e => Len(entregas) + 1 - j > CapCarrera
  <2> SUFFICES ASSUME NEW j \in 1 .. Len(entregas), entregas[j] = e,
                      Len(entregas) + 1 - j <= CapCarrera
               PROVE  FALSE
    BY <1>1
  <2> DEFINE n == j - (Len(entregas) - Len(vistas))
  <2>1. n \in 1 .. Len(vistas)
    BY <1>1, <1>3
  <2>2. Len(entregas) - Len(vistas) + n = j
    BY <1>1
  <2> QED BY <1>3, <1>4, <2>1, <2>2
<1>6. EntregaUnaVez'
  <2> SUFFICES ASSUME NEW j \in 1 .. Len(entregas) + 1, NEW k \in 1 .. Len(entregas) + 1,
                      j < k, entregas'[j] = entregas'[k]
               PROVE  k - j > CapCarrera
    BY <1>2 DEF EntregaUnaVez
  <2>1. j \in 1 .. Len(entregas) /\ entregas'[j] = entregas[j]
    BY <1>1, <1>2
  <2>2. CASE k = Len(entregas) + 1
    BY <1>2, <1>5, <2>1, <2>2
  <2>3. CASE k # Len(entregas) + 1
    <3>1. k \in 1 .. Len(entregas) /\ entregas'[k] = entregas[k]
      BY <1>1, <1>2, <2>3
    <3> QED BY <1>3, <2>1, <3>1
  <2> QED BY <2>2, <2>3
<1>7. CASE Len(vistas) < CapCarrera
  <2>1. vistas' = Append(vistas, e) /\ Len(vistas) = Len(entregas)
    BY <1>1, <1>2, <1>3, <1>7 DEF Recordar
  <2>2. /\ Len(vistas') = Len(entregas') /\ Len(vistas') = Len(vistas) + 1
        /\ vistas'[Len(vistas) + 1] = e
        /\ \A n \in 1 .. Len(vistas) : vistas'[n] = vistas[n]
    BY <1>1, <1>2, <2>1
  <2>3. \A n \in 1 .. Len(vistas') : vistas'[n] = entregas'[Len(entregas') - Len(vistas') + n]
    <3> SUFFICES ASSUME NEW n \in 1 .. Len(vistas') PROVE vistas'[n] = entregas'[n]
      BY <1>1, <1>2, <2>2
    <3>1. CASE n = Len(vistas) + 1
      BY <1>2, <2>1, <2>2, <3>1
    <3>2. CASE n # Len(vistas) + 1
      <4>1. n \in 1 .. Len(vistas) /\ n \in 1 .. Len(entregas)
        BY <1>1, <2>1, <2>2, <3>2
      <4>2. Len(entregas) - Len(vistas) + n = n
        BY <1>1, <2>1
      <4> QED BY <1>2, <1>3, <2>2, <4>1, <4>2
    <3> QED BY <3>1, <3>2
  <2> QED BY <1>1, <1>2, <1>6, <2>2, <2>3 DEF VistasInv
<1>8. CASE Len(vistas) = CapCarrera
  <2>1. /\ Len(vistas') = CapCarrera
        /\ \A n \in 1 .. CapCarrera : vistas'[n] = Append(vistas, e)[n + 1]
    <3>1. vistas' = Tail(Append(vistas, e)) /\ Append(vistas, e) # <<>>
      BY <1>1, <1>2, <1>8 DEF Recordar
    <3>2. Append(vistas, e) \in Seq(Eventos) /\ Len(Append(vistas, e)) = CapCarrera + 1
      BY <1>1, <1>8
    <3> QED BY <1>1, <3>1, <3>2
  <2>2. \A n \in 1 .. CapCarrera : vistas'[n] = entregas'[Len(entregas') - Len(vistas') + n]
    <3>0. Len(entregas') - Len(vistas') = Len(entregas) + 1 - CapCarrera
      BY <1>2, <2>1
    <3> SUFFICES ASSUME NEW n \in 1 .. CapCarrera
                 PROVE  Append(vistas, e)[n + 1] = entregas'[Len(entregas) + 1 - CapCarrera + n]
      BY <2>1, <3>0
    <3>1. CASE n = CapCarrera
      <4>1. Append(vistas, e)[n + 1] = e
        BY <1>1, <1>8, <3>1
      <4>2. Len(entregas) + 1 - CapCarrera + n = Len(entregas) + 1
        BY <1>1, <3>1
      <4> QED BY <1>2, <4>1, <4>2
    <3>2. CASE n # CapCarrera
      <4>1. n + 1 \in 1 .. Len(vistas) /\ Append(vistas, e)[n + 1] = vistas[n + 1]
        BY <1>1, <1>8, <3>2
      <4>2. Len(entregas) - Len(vistas) + (n + 1) = Len(entregas) + 1 - CapCarrera + n
        BY <1>1, <1>8
      <4>3. Len(entregas) + 1 - CapCarrera + n \in 1 .. Len(entregas)
        BY <1>1, <1>3, <1>8, <3>2
      <4> QED BY <1>2, <1>3, <4>1, <4>2, <4>3
    <3> QED BY <3>1, <3>2
  <2>3. Len(vistas') <= Len(entregas')
    BY <1>1, <1>2, <1>3, <1>8, <2>1
  <2>4. \A n \in 1 .. Len(vistas') : vistas'[n] = entregas'[Len(entregas') - Len(vistas') + n]
    BY <2>1, <2>2
  <2> QED BY <1>6, <2>1, <2>3, <2>4 DEF VistasInv
<1> QED BY <1>1, <1>7, <1>8

\* Only a delivery and a restart touch the race's memory.
LEMMA Vistas_Step == TypeOK /\ VistasInv /\ [Next]_vars => VistasInv'
<1> SUFFICES ASSUME TypeOK, VistasInv, [Next]_vars PROVE VistasInv'
  OBVIOUS
<1>1. CASE UNCHANGED <<vistas, entregas>>
  BY <1>1 DEF VistasInv, EntregaUnaVez
<1>2. CASE SacarOtro \/ SacarCreacion
  <2>1. Sacar /\ Entregar(Head(cola)) /\ Head(cola) \notin Range(vistas)
    BY <1>2 DEF SacarOtro, SacarCreacion
  <2> QED BY <2>1, SacarTipo, Entregar_Step
<1>3. CASE Reiniciar
  <2>1. vistas' = <<>> /\ entregas' = <<>>
    BY <1>3 DEF Reiniciar
  <2> QED BY <2>1 DEF VistasInv, EntregaUnaVez
<1>4. ASSUME NEW i \in Motores,
             \/ Conectar(i) \/ Confirmar(i) \/ Rechazar(i) \/ Cortar(i)
             \/ \E e \in Eventos : Traer(i, e)
      PROVE  UNCHANGED <<vistas, entregas>>
  BY <1>4 DEF Conectar, Confirmar, Rechazar, Cortar, Traer, SoloTransporte, memoria
<1>5. CASE SacarRepetido \/ Analizar \/ UNCHANGED vars
  BY <1>1, <1>5 DEF SacarRepetido, Analizar, vars, memoria
<1>6. ASSUME NEW e \in Creaciones, Guardar(e) \/ FallarAlGuardar(e) \/ Publicar(e)
      PROVE  UNCHANGED <<vistas, entregas>>
  BY <1>6 DEF Guardar, FallarAlGuardar, Publicar, TrasGuardar
<1> QED BY <1>1, <1>2, <1>3, <1>4, <1>5, <1>6 DEF Next

-----------------------------------------------------------------------------
(* A token is announced once                                               *)

\* Only what was not in the database goes on to be announced.
LEMMA Anuncio_Step == TypeOK /\ AnuncioInv /\ [Next]_vars => AnuncioInv'
<1> SUFFICES ASSUME TypeOK, AnuncioInv, [Next]_vars PROVE AnuncioInv'
  OBVIOUS
<1> USE DEF AnuncioInv, PublicadaUnaVez, En, Libre
<1>1. ASSUME NEW i \in Motores,
             \/ Conectar(i) \/ Confirmar(i) \/ Rechazar(i) \/ Cortar(i)
             \/ \E e \in Eventos : Traer(i, e)
      PROVE  AnuncioInv'
  BY <1>1 DEF Conectar, Confirmar, Rechazar, Cortar, Traer, SoloTransporte, memoria, base
<1>2. CASE SacarRepetido \/ SacarOtro \/ SacarCreacion
  BY <1>2 DEF SacarRepetido, SacarOtro, SacarCreacion, Sacar, base
<1>3. ASSUME NEW e \in Creaciones, Guardar(e) PROVE AnuncioInv'
  <2>1. tokens' = tokens \cup {e} /\ UNCHANGED publicados /\ manejo' = TrasInsertar(e)
    BY <1>3 DEF Guardar, Transaccion, TrasGuardar
  <2>2. publicados[e] \in Nat
    BY DEF TypeOK
  <2> QED BY <2>1, <2>2 DEF TrasInsertar
<1>4. ASSUME NEW e \in Creaciones, FallarAlGuardar(e) PROVE AnuncioInv'
  BY <1>4 DEF FallarAlGuardar, Transaccion, TrasGuardar, base
<1>5. ASSUME NEW e \in Creaciones, Publicar(e) PROVE AnuncioInv'
  <2>1. /\ manejo' = Libre /\ e \in tokens /\ publicados[e] = 0
        /\ publicados' = [publicados EXCEPT ![e] = @ + 1] /\ UNCHANGED tokens
        /\ publicados \in [Creaciones -> Nat]
    BY <1>5 DEF TypeOK, Publicar, base
  <2> QED BY <2>1
<1>6. CASE Analizar \/ UNCHANGED vars
  BY <1>6 DEF Analizar, vars, memoria, base
<1>7. CASE Reiniciar
  BY <1>7 DEF Reiniciar, base
<1> QED BY <1>1, <1>2, <1>3, <1>4, <1>5, <1>6, <1>7 DEF Next

-----------------------------------------------------------------------------

\* The inductive invariant: the queue and the memories are typed and bounded,
\* and each of the three promises holds with what it rests on.
THEOREM Spec_IInv == Spec => [](TypeOK /\ MemoriaInv /\ VistasInv /\ AnuncioInv)
<1>1. Init => TypeOK
  BY CapacidadesAssumption, EventosAssumption DEF Init, TypeOK
<1>2. Init => MemoriaInv /\ VistasInv /\ AnuncioInv
  <2> SUFFICES ASSUME Init PROVE MemoriaInv /\ VistasInv /\ AnuncioInv
    OBVIOUS
  <2>1. Range(vistas) = {} /\ Range(dedup) = {} /\ traidas = {}
    BY DEF Init, Range
  <2>2. MemoriaInv
    BY <2>1 DEF MemoriaInv, NadaSeEsfuma
  <2>3. VistasInv
    BY DEF Init, VistasInv, EntregaUnaVez
  <2>4. AnuncioInv
    BY DEF Init, AnuncioInv, PublicadaUnaVez, Libre, En
  <2> QED BY <2>2, <2>3, <2>4
<1> QED
  BY <1>1, <1>2, TypeOK_Step, Memoria_Step, Vistas_Step, Anuncio_Step, PTL DEF Spec

\* The types and the bounds of every queue and memory hold for any engines,
\* events and capacities.
THEOREM Spec_TypeOK == Spec => []TypeOK
  BY Spec_IInv, PTL

\* No creation an engine brought vanishes without being counted as lost.
THEOREM Spec_NadaSeEsfuma == Spec => []NadaSeEsfuma
<1>1. MemoriaInv => NadaSeEsfuma
  BY DEF MemoriaInv
<1> QED BY <1>1, Spec_IInv, PTL

\* However many engines bring an event, it is delivered once while the race
\* remembers it.
THEOREM Spec_EntregaUnaVez == Spec => []EntregaUnaVez
<1>1. VistasInv => EntregaUnaVez
  BY DEF VistasInv
<1> QED BY <1>1, Spec_IInv, PTL

\* No token is announced twice, whatever fails, repeats or restarts.
THEOREM Spec_PublicadaUnaVez == Spec => []PublicadaUnaVez
<1>1. AnuncioInv => PublicadaUnaVez
  BY DEF AnuncioInv
<1> QED BY <1>1, Spec_IInv, PTL

=============================================================================
