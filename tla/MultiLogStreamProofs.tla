------------------------ MODULE MultiLogStreamProofs ------------------------
(***************************************************************************)
(* Type correctness of MultiLogStream, the right attribution of its        *)
(* notifications and that no served subscription is lost sight of, for any *)
(* keys, subscription ids and bounds.  Neither is inductive alone.  A      *)
(* table entry is right because the confirmation it comes from was right,  *)
(* and that one because the request it answers was.  A subscription stays  *)
(* known because no two messages on their way carry the same request id,   *)
(* so that what one answer settles never forgets another.                  *)
(*                                                                         *)
(* And of the live view of a token, which reads such a stream: its types,  *)
(* and that an answer holds together although operations arrive while it   *)
(* is computed.                                                            *)
(***************************************************************************)
EXTENDS MultiLogStream, Vista, PlieguesProofs, SequenceTheorems

\* Nothing travels and nothing is served on a connection that is gone.
RedInv ==
    /\ ~viva => alServidor = <<>> /\ servidor = {}
    /\ fase = "fuera" => ~viva /\ alCliente = <<>>

\* A request on its way carries the key it was noted for, and a confirmation
\* on its way answers for the key the provider served it with.
MensajesInv ==
    /\ \A n \in DOMAIN alServidor :
         alServidor[n].tipo = "logsSubscribe" =>
           /\ alServidor[n].id \in 1 .. requestId
           /\ alServidor[n].id \in DOMAIN requestToKey
                => requestToKey[alServidor[n].id] = alServidor[n].clave
    /\ \A n \in DOMAIN alCliente :
         alCliente[n].tipo = "result" =>
           /\ alCliente[n].id \in 1 .. requestId
           /\ alCliente[n].sub \in DOMAIN dadas
           /\ alCliente[n].id \in DOMAIN requestToKey
                => requestToKey[alCliente[n].id] = dadas[alCliente[n].sub]

EsAlta(m) == m.tipo = "logsSubscribe"
EsRespuesta(m) == m.tipo # "logsNotification"

\* On a working connection every request and every answer on its way is still
\* waited for, and no two of them carry the same id: what one answer settles
\* never forgets another.
PendientesInv ==
    viva =>
      /\ \A n \in DOMAIN alServidor :
           EsAlta(alServidor[n]) => alServidor[n].id \in DOMAIN requestToKey
      /\ \A n \in DOMAIN alCliente :
           EsRespuesta(alCliente[n]) => alCliente[n].id \in DOMAIN requestToKey
      /\ \A n, j \in DOMAIN alServidor :
           EsAlta(alServidor[n]) /\ EsAlta(alServidor[j]) /\ alServidor[n].id = alServidor[j].id
             => n = j
      /\ \A n, j \in DOMAIN alCliente :
           EsRespuesta(alCliente[n]) /\ EsRespuesta(alCliente[j])
             /\ alCliente[n].id = alCliente[j].id
             => n = j
      /\ \A n \in DOMAIN alServidor, j \in DOMAIN alCliente :
           EsAlta(alServidor[n]) /\ EsRespuesta(alCliente[j])
             => alServidor[n].id # alCliente[j].id

IInv == TypeOK /\ RedInv /\ MensajesInv /\ Atribucion /\ PendientesInv /\ SinHuerfanas

-----------------------------------------------------------------------------
(* The tables: what Con and Sin do to a partial function                   *)

\* Con adds or overwrites one entry and leaves the others alone.
LEMMA ConLema ==
    ASSUME NEW f, NEW g, NEW k, NEW v, g = Con(f, k, v)
    PROVE  /\ DOMAIN g = DOMAIN f \cup {k}
           /\ g[k] = v
           /\ \A x \in DOMAIN f : x # k => g[x] = f[x]
  BY DEF Con

\* Con keeps the range of the function's values.
LEMMA ConTipo ==
    ASSUME NEW f, NEW g, NEW k, NEW v, NEW S, NEW T,
           DOMAIN f \subseteq S, f \in [DOMAIN f -> T], k \in S, v \in T, g = Con(f, k, v)
    PROVE  DOMAIN g \subseteq S /\ g \in [DOMAIN g -> T]
  BY DEF Con

\* Sin takes one entry away and leaves the others alone.
LEMMA SinLema ==
    ASSUME NEW f, NEW g, NEW k, g = Sin(f, k)
    PROVE  DOMAIN g \subseteq DOMAIN f /\ \A x \in DOMAIN g : g[x] = f[x]
  BY DEF Sin, Restrict

\* Sin keeps the range of the function's values.
LEMMA SinTipo ==
    ASSUME NEW f, NEW g, NEW k, NEW S, NEW T,
           DOMAIN f \subseteq S, f \in [DOMAIN f -> T], g = Sin(f, k)
    PROVE  DOMAIN g \subseteq S /\ g \in [DOMAIN g -> T]
  BY DEF Sin, Restrict

\* A message appended to a queue is its last, and a queue without its head
\* holds messages of the queue.
LEMMA ColaLema ==
    ASSUME NEW T, NEW cola \in Seq(T), NEW m \in T
    PROVE  /\ Append(cola, m) \in Seq(T)
           /\ \A n \in DOMAIN Append(cola, m) :
                (n \in DOMAIN cola /\ Append(cola, m)[n] = cola[n]) \/ Append(cola, m)[n] = m
           /\ cola # <<>> => /\ Head(cola) \in T
                             /\ Head(cola) = cola[1]
                             /\ 1 \in DOMAIN cola
                             /\ Tail(cola) \in Seq(T)
                             /\ \A n \in DOMAIN Tail(cola) :
                                  n + 1 \in DOMAIN cola /\ Tail(cola)[n] = cola[n + 1]
  OBVIOUS

-----------------------------------------------------------------------------
(* Type correctness                                                        *)

\* A subscription request keeps the types of the tables and of the queue.
LEMMA SendSubscribeTipo ==
    ASSUME TypeOK, NEW k \in Claves, SendSubscribe(k)
    PROVE  /\ requestId' = requestId + 1
           /\ requestId' \in Nat
           /\ DOMAIN requestToKey' \subseteq 1 .. requestId'
           /\ requestToKey' \in [DOMAIN requestToKey' -> Claves]
           /\ alServidor' \in Seq(MensajeAlServidor)
<1>1. requestId' \in Nat /\ requestId' = requestId + 1
  BY DEF TypeOK, SendSubscribe
<1>2. DOMAIN requestToKey \subseteq 1 .. requestId' /\ requestId + 1 \in 1 .. requestId'
  <2>1. 1 .. requestId \subseteq 1 .. requestId' /\ requestId + 1 \in 1 .. requestId'
    BY <1>1 DEF TypeOK
  <2> QED BY <2>1 DEF TypeOK
<1>3. /\ DOMAIN requestToKey' \subseteq 1 .. requestId'
      /\ requestToKey' \in [DOMAIN requestToKey' -> Claves]
  <2>1. requestToKey \in [DOMAIN requestToKey -> Claves]
    BY DEF TypeOK
  <2>2. requestToKey' = Con(requestToKey, requestId + 1, k)
    BY DEF SendSubscribe
  <2> QED BY <1>2, <2>1, <2>2 DEF Con
<1>4. Alta(requestId + 1, k) \in MensajeAlServidor
  BY DEF TypeOK, Alta, MensajeAlServidor
<1>5. alServidor' \in Seq(MensajeAlServidor)
  BY <1>4, ColaLema DEF TypeOK, SendSubscribe
<1> QED BY <1>1, <1>3, <1>5

\* Every step keeps the types.
LEMMA TypeOK_Step == TypeOK /\ RedInv /\ [Next]_vars => TypeOK'
<1> SUFFICES ASSUME TypeOK, RedInv, [Next]_vars PROVE TypeOK'
  OBVIOUS
<1> USE DEF tablas, iterador, proveedor
<1>1. CASE Conectar
  <2>1. Vacia \in [DOMAIN Vacia -> Claves] /\ DOMAIN Vacia = {}
    BY DEF Vacia
  <2> QED
    BY <1>1, <2>1 DEF Conectar, ForgetSubscriptions, PorResuscribir, FaseTras, TypeOK
<1>2. ASSUME NEW k \in Claves, Resuscribir(k) PROVE TypeOK'
  <2>1. SendSubscribe(k)
    BY <1>2 DEF Resuscribir
  <2> QED
    BY <1>2, <2>1, SendSubscribeTipo DEF Resuscribir, FaseTras, TypeOK
<1>3. CASE RecibirAck
  <2>1. /\ Head(alCliente) \in MensajeAlCliente
        /\ alCliente' \in Seq(MensajeAlCliente)
        /\ Head(alCliente).tipo = "result"
    BY <1>3, ColaLema DEF RecibirAck, RecibirDe, TypeOK
  <2>2. Head(alCliente).sub \in Subs
    BY <2>1 DEF MensajeAlCliente
  <2>3. CASE Head(alCliente).id \in DOMAIN requestToKey
    <3>1. requestToKey[Head(alCliente).id] \in Claves
      BY <2>3 DEF TypeOK
    <3>2. /\ DOMAIN requestToKey' \subseteq 1 .. requestId
          /\ requestToKey' \in [DOMAIN requestToKey' -> Claves]
      <4>1. requestToKey' = Sin(requestToKey, Head(alCliente).id)
        BY <1>3, <2>3 DEF RecibirAck
      <4>2. DOMAIN requestToKey \subseteq 1 .. requestId
        BY DEF TypeOK
      <4>3. requestToKey \in [DOMAIN requestToKey -> Claves]
        BY DEF TypeOK
      <4> QED BY <4>1, <4>2, <4>3, SinTipo
    <3>3. DOMAIN subToKey' \subseteq Subs /\ subToKey' \in [DOMAIN subToKey' -> Claves]
      <4>1. subToKey' = Con(subToKey, Head(alCliente).sub, requestToKey[Head(alCliente).id])
        BY <1>3, <2>3 DEF RecibirAck
      <4>2. DOMAIN subToKey \subseteq Subs
        BY DEF TypeOK
      <4>3. subToKey \in [DOMAIN subToKey -> Claves]
        BY DEF TypeOK
      <4> QED BY <2>2, <3>1, <4>1, <4>2, <4>3, ConTipo
    <3>4. DOMAIN keyToSub' \subseteq Claves /\ keyToSub' \in [DOMAIN keyToSub' -> Subs]
      <4>1. keyToSub' = Con(keyToSub, requestToKey[Head(alCliente).id], Head(alCliente).sub)
        BY <1>3, <2>3 DEF RecibirAck
      <4>2. DOMAIN keyToSub \subseteq Claves
        BY DEF TypeOK
      <4>3. keyToSub \in [DOMAIN keyToSub -> Subs]
        BY DEF TypeOK
      <4> QED BY <2>2, <3>1, <4>1, <4>2, <4>3, ConTipo
    <3>5. UNCHANGED <<wanted, requestId, iterador, viva, alServidor, proveedor, caidas>>
      BY <1>3 DEF RecibirAck, RecibirDe
    <3> QED
      BY <2>1, <3>2, <3>3, <3>4, <3>5 DEF TypeOK
  <2>4. CASE Head(alCliente).id \notin DOMAIN requestToKey
    BY <1>3, <2>1, <2>4 DEF RecibirAck, RecibirDe, TypeOK
  <2> QED BY <2>3, <2>4
<1>4. CASE RecibirRechazo
  <2>1. alCliente' \in Seq(MensajeAlCliente)
    BY <1>4, ColaLema DEF RecibirRechazo, RecibirDe, TypeOK
  <2>2. /\ DOMAIN requestToKey' \subseteq 1 .. requestId
        /\ requestToKey' \in [DOMAIN requestToKey' -> Claves]
    <3>1. requestToKey' = Sin(requestToKey, Head(alCliente).id)
      BY <1>4 DEF RecibirRechazo
    <3>2. DOMAIN requestToKey \subseteq 1 .. requestId
      BY DEF TypeOK
    <3>3. requestToKey \in [DOMAIN requestToKey -> Claves]
      BY DEF TypeOK
    <3> QED BY <3>1, <3>2, <3>3, SinTipo
  <2> QED BY <1>4, <2>1, <2>2 DEF RecibirRechazo, RecibirDe, TypeOK
<1>5. CASE RecibirAviso
  <2>1. alCliente' \in Seq(MensajeAlCliente)
    BY <1>5, ColaLema DEF RecibirAviso, RecibirDe, TypeOK
  <2> QED BY <1>5, <2>1 DEF RecibirAviso, RecibirDe, TypeOK
<1>6. CASE Caer
  BY <1>6 DEF Caer, TypeOK
<1>7. ASSUME NEW k \in Claves, Watch(k) PROVE TypeOK'
  <2>1. CASE conectado
    <3>1. SendSubscribe(k)
      BY <1>7, <2>1 DEF Watch
    <3> QED BY <1>7, <3>1, SendSubscribeTipo DEF Watch, TypeOK
  <2>2. CASE ~conectado
    BY <1>7, <2>2 DEF Watch, TypeOK
  <2> QED BY <2>1, <2>2
<1>8. ASSUME NEW k \in Claves, Unwatch(k) PROVE TypeOK'
  <2>1. CASE k \in Activas
    <3>1. keyToSub[k] \in Subs
      BY <2>1 DEF Activas, TypeOK
    <3>2. /\ subToKey' = Sin(subToKey, keyToSub[k])
          /\ keyToSub' = Sin(keyToSub, k)
          /\ SendUnsubscribe(keyToSub[k])
      BY <1>8, <2>1 DEF Unwatch
    <3>3. DOMAIN subToKey' \subseteq Subs /\ subToKey' \in [DOMAIN subToKey' -> Claves]
      <4>1. DOMAIN subToKey \subseteq Subs
        BY DEF TypeOK
      <4>2. subToKey \in [DOMAIN subToKey -> Claves]
        BY DEF TypeOK
      <4>3. subToKey' = Sin(subToKey, keyToSub[k])
        BY <3>2
      <4> QED BY <4>1, <4>2, <4>3, SinTipo
    <3>4. DOMAIN keyToSub' \subseteq Claves /\ keyToSub' \in [DOMAIN keyToSub' -> Subs]
      <4>1. DOMAIN keyToSub \subseteq Claves
        BY DEF TypeOK
      <4>2. keyToSub \in [DOMAIN keyToSub -> Subs]
        BY DEF TypeOK
      <4>3. keyToSub' = Sin(keyToSub, k)
        BY <3>2
      <4> QED BY <4>1, <4>2, <4>3, SinTipo
    <3>5. Baja(keyToSub[k]) \in MensajeAlServidor
      BY <3>1 DEF Baja, MensajeAlServidor
    <3>6. alServidor' \in Seq(MensajeAlServidor)
      <4>1. alServidor \in Seq(MensajeAlServidor)
        BY DEF TypeOK
      <4>2. alServidor' = alServidor \/ alServidor' = Append(alServidor, Baja(keyToSub[k]))
        BY <3>2 DEF SendUnsubscribe
      <4> QED BY <3>5, <4>1, <4>2, ColaLema
    <3>7. requestId' \in Nat /\ requestId' >= requestId
      BY <3>2 DEF SendUnsubscribe, TypeOK
    <3>8. 1 .. requestId \subseteq 1 .. requestId'
      BY <3>7 DEF TypeOK
    <3>9. /\ wanted' = wanted \ {k}
          /\ UNCHANGED <<requestToKey, iterador, viva, alCliente, proveedor, caidas>>
      BY <1>8 DEF Unwatch
    <3> QED BY <3>3, <3>4, <3>6, <3>7, <3>8, <3>9 DEF TypeOK
  <2>2. CASE k \notin Activas
    BY <1>8, <2>2 DEF Unwatch, TypeOK
  <2> QED BY <2>1, <2>2
<1>9. ASSUME NEW s \in Subs, Aceptar(s) PROVE TypeOK'
  <2> USE DEF Cliente
  <2>1. /\ Head(alServidor) \in MensajeAlServidor
        /\ alServidor' \in Seq(MensajeAlServidor)
        /\ Head(alServidor).tipo = "logsSubscribe"
    BY <1>9, ColaLema DEF Aceptar, Atender, TypeOK
  <2>2. Head(alServidor).id \in Nat /\ Head(alServidor).clave \in Claves
    BY <2>1 DEF MensajeAlServidor
  <2>3. Ack(Head(alServidor).id, s) \in MensajeAlCliente
    BY <2>2 DEF Ack, MensajeAlCliente
  <2>4. alCliente' \in Seq(MensajeAlCliente)
    BY <1>9, <2>3, ColaLema DEF Aceptar, TypeOK
  <2>5. DOMAIN dadas' \subseteq Subs /\ dadas' \in [DOMAIN dadas' -> Claves]
    <3>1. dadas \in [DOMAIN dadas -> Claves]
      BY DEF TypeOK
    <3>2. DOMAIN dadas \subseteq Subs
      BY DEF TypeOK
    <3>3. dadas' = Con(dadas, s, Head(alServidor).clave)
      BY <1>9 DEF Aceptar
    <3> QED BY <2>2, <3>1, <3>2, <3>3, ConTipo
  <2>6. servidor' \subseteq DOMAIN dadas'
    <3>1. DOMAIN dadas' = DOMAIN dadas \cup {s}
      BY <1>9, ConLema DEF Aceptar
    <3>2. servidor' = servidor \cup {s} /\ servidor \subseteq DOMAIN dadas
      BY <1>9 DEF Aceptar, TypeOK
    <3> QED BY <3>1, <3>2
  <2> QED BY <1>9, <2>1, <2>4, <2>5, <2>6 DEF Aceptar, Atender, TypeOK
<1>10. CASE Rechazar
  <2> USE DEF Cliente
  <2>1. /\ Head(alServidor) \in MensajeAlServidor
        /\ alServidor' \in Seq(MensajeAlServidor)
        /\ Head(alServidor).tipo = "logsSubscribe"
    BY <1>10, ColaLema DEF Rechazar, Atender, TypeOK
  <2>2. Head(alServidor).id \in Nat /\ Head(alServidor).clave \in Claves
    BY <2>1 DEF MensajeAlServidor
  <2>3. Rechazo(Head(alServidor).id) \in MensajeAlCliente
    BY <2>2 DEF Rechazo, MensajeAlCliente
  <2>4. alCliente' \in Seq(MensajeAlCliente)
    BY <1>10, <2>3, ColaLema DEF Rechazar, TypeOK
  <2> QED BY <1>10, <2>1, <2>2, <2>4 DEF Rechazar, Atender, TypeOK
<1>11. CASE DarDeBaja
  <2>1. alServidor' \in Seq(MensajeAlServidor)
    BY <1>11, ColaLema DEF DarDeBaja, Atender, TypeOK
  <2> QED BY <1>11, <2>1 DEF DarDeBaja, Atender, Cliente, TypeOK
<1>12. ASSUME NEW s \in Subs, Avisar(s) PROVE TypeOK'
  <2>1. Aviso(s) \in MensajeAlCliente
    BY DEF Aviso, MensajeAlCliente
  <2>2. alCliente' \in Seq(MensajeAlCliente)
    BY <1>12, <2>1, ColaLema DEF Avisar, TypeOK
  <2> QED BY <1>12, <2>2 DEF Avisar, Cliente, TypeOK
<1>13. CASE Romper
  <2>1. <<>> \in Seq(MensajeAlServidor)
    OBVIOUS
  <2>2. caidas' \in 0 .. MaxCaidas
    BY <1>13, CotasAssumption DEF Romper, TypeOK
  <2>3. alServidor' = <<>> /\ servidor' = {} /\ viva' = FALSE
    BY <1>13 DEF Romper
  <2>4. UNCHANGED <<wanted, tablas, requestId, iterador, alCliente, dadas, rechazadas>>
    BY <1>13 DEF Romper
  <2> QED BY <2>1, <2>2, <2>3, <2>4 DEF TypeOK
<1>14. CASE UNCHANGED vars
  BY <1>14 DEF vars, TypeOK
<1> QED
  BY <1>1, <1>2, <1>3, <1>4, <1>5, <1>6, <1>7, <1>8, <1>9, <1>10, <1>11, <1>12, <1>13, <1>14
     DEF Next, Iterador

-----------------------------------------------------------------------------
(* The dead connection                                                     *)

\* Every step leaves a dead connection empty.
LEMMA Red_Step == TypeOK /\ RedInv /\ [Next]_vars => RedInv'
<1> SUFFICES ASSUME TypeOK, RedInv, [Next]_vars PROVE RedInv'
  OBVIOUS
<1> USE DEF RedInv, tablas, iterador, proveedor
<1>1. CASE Conectar
  BY <1>1 DEF Conectar, FaseTras
<1>2. ASSUME NEW k \in Claves, Resuscribir(k) PROVE RedInv'
  BY <1>2 DEF Resuscribir, SendSubscribe, FaseTras
<1>3. CASE RecibirAck
  BY <1>3 DEF RecibirAck, RecibirDe
<1>4. CASE RecibirRechazo
  BY <1>4 DEF RecibirRechazo, RecibirDe
<1>5. CASE RecibirAviso
  BY <1>5 DEF RecibirAviso, RecibirDe
<1>6. CASE Caer
  BY <1>6 DEF Caer
<1>7. ASSUME NEW k \in Claves, Watch(k) PROVE RedInv'
  BY <1>7 DEF Watch, SendSubscribe
<1>8. ASSUME NEW k \in Claves, Unwatch(k) PROVE RedInv'
  BY <1>8 DEF Unwatch, SendUnsubscribe
<1>9. ASSUME NEW s \in Subs, Aceptar(s) PROVE RedInv'
  BY <1>9 DEF Aceptar, Atender, Cliente
<1>10. CASE Rechazar
  BY <1>10 DEF Rechazar, Atender, Cliente
<1>11. CASE DarDeBaja
  BY <1>11 DEF DarDeBaja, Atender, Cliente
<1>12. ASSUME NEW s \in Subs, Avisar(s) PROVE RedInv'
  BY <1>12 DEF Avisar, Cliente
<1>13. CASE Romper
  BY <1>13 DEF Romper, TypeOK
<1>14. CASE UNCHANGED vars
  BY <1>14 DEF vars
<1> QED
  BY <1>1, <1>2, <1>3, <1>4, <1>5, <1>6, <1>7, <1>8, <1>9, <1>10, <1>11, <1>12, <1>13, <1>14
     DEF Next, Iterador

-----------------------------------------------------------------------------
(* The messages on their way                                               *)

\* What the invariant says of one message on its way to the provider.
PeticionBien(m) ==
    m.tipo = "logsSubscribe" =>
      /\ m.id \in 1 .. requestId
      /\ m.id \in DOMAIN requestToKey => requestToKey[m.id] = m.clave

\* What the invariant says of one message on its way to the client.
RespuestaBien(m) ==
    m.tipo = "result" =>
      /\ m.id \in 1 .. requestId
      /\ m.sub \in DOMAIN dadas
      /\ m.id \in DOMAIN requestToKey => requestToKey[m.id] = dadas[m.sub]

\* The invariant, message by message.
LEMMA MensajesPorUno ==
    MensajesInv <=> /\ \A n \in DOMAIN alServidor : PeticionBien(alServidor[n])
                    /\ \A n \in DOMAIN alCliente : RespuestaBien(alCliente[n])
  BY DEF MensajesInv, PeticionBien, RespuestaBien

\* A new request takes an id no message on its way has.
LEMMA SendSubscribeBien ==
    ASSUME TypeOK, MensajesInv, NEW k \in Claves, SendSubscribe(k),
           UNCHANGED <<alCliente, dadas>>
    PROVE  MensajesInv'
<1>1. /\ requestId' = requestId + 1
      /\ requestId \in Nat
      /\ requestId + 1 \in DOMAIN requestToKey'
      /\ requestToKey'[requestId + 1] = k
      /\ \A id \in 1 .. requestId :
           /\ id \in 1 .. requestId'
           /\ id \in DOMAIN requestToKey' => /\ id \in DOMAIN requestToKey
                                             /\ requestToKey'[id] = requestToKey[id]
  BY DEF SendSubscribe, Con, TypeOK
<1>2. ASSUME NEW n \in DOMAIN alServidor' PROVE PeticionBien(alServidor[n])'
  <2>1. CASE n \in DOMAIN alServidor /\ alServidor'[n] = alServidor[n]
    <3>1. PeticionBien(alServidor[n])
      BY <2>1, MensajesPorUno
    <3> QED BY <1>1, <2>1, <3>1 DEF PeticionBien
  <2>2. CASE alServidor'[n] = Alta(requestId + 1, k)
    BY <1>1, <2>2 DEF PeticionBien, Alta
  <2>3. Alta(requestId + 1, k) \in MensajeAlServidor
    BY DEF TypeOK, Alta, MensajeAlServidor
  <2> QED
    BY <1>2, <2>1, <2>2, <2>3, ColaLema DEF SendSubscribe, TypeOK
<1>3. ASSUME NEW n \in DOMAIN alCliente' PROVE RespuestaBien(alCliente[n])'
  <2>1. RespuestaBien(alCliente[n])
    BY MensajesPorUno
  <2> QED BY <1>1, <2>1 DEF RespuestaBien
<1> QED BY <1>2, <1>3 DEF MensajesInv, PeticionBien, RespuestaBien

\* Forgetting entries of the table and dropping messages keeps the invariant.
LEMMA MenosBien ==
    ASSUME MensajesInv, TypeOK,
           requestId' \in Nat, requestId' >= requestId,
           DOMAIN requestToKey' \subseteq DOMAIN requestToKey,
           \A id \in DOMAIN requestToKey' : requestToKey'[id] = requestToKey[id],
           UNCHANGED dadas,
           \A n \in DOMAIN alServidor' :
               \/ \E j \in DOMAIN alServidor : alServidor'[n] = alServidor[j]
               \/ alServidor'[n].tipo # "logsSubscribe",
           \A n \in DOMAIN alCliente' :
               \/ \E j \in DOMAIN alCliente : alCliente'[n] = alCliente[j]
               \/ alCliente'[n].tipo # "result"
    PROVE  MensajesInv'
<1>1. \A id \in 1 .. requestId : id \in 1 .. requestId'
  BY DEF TypeOK
<1>2. ASSUME NEW n \in DOMAIN alServidor' PROVE PeticionBien(alServidor[n])'
  <2>1. CASE \E j \in DOMAIN alServidor : alServidor'[n] = alServidor[j]
    <3>1. PICK j \in DOMAIN alServidor : alServidor'[n] = alServidor[j]
      BY <2>1
    <3>2. PeticionBien(alServidor[j])
      BY MensajesPorUno
    <3> QED BY <1>1, <3>1, <3>2 DEF PeticionBien
  <2>2. CASE alServidor'[n].tipo # "logsSubscribe"
    BY <2>2 DEF PeticionBien
  <2> QED BY <1>2, <2>1, <2>2
<1>3. ASSUME NEW n \in DOMAIN alCliente' PROVE RespuestaBien(alCliente[n])'
  <2>1. CASE \E j \in DOMAIN alCliente : alCliente'[n] = alCliente[j]
    <3>1. PICK j \in DOMAIN alCliente : alCliente'[n] = alCliente[j]
      BY <2>1
    <3>2. RespuestaBien(alCliente[j])
      BY MensajesPorUno
    <3> QED BY <1>1, <3>1, <3>2 DEF RespuestaBien
  <2>2. CASE alCliente'[n].tipo # "result"
    BY <2>2 DEF RespuestaBien
  <2> QED BY <1>3, <2>1, <2>2
<1> QED BY <1>2, <1>3 DEF MensajesInv, PeticionBien, RespuestaBien

\* Every step keeps what is known of the messages.
LEMMA Mensajes_Step == TypeOK /\ RedInv /\ MensajesInv /\ [Next]_vars => MensajesInv'
<1> SUFFICES ASSUME TypeOK, RedInv, MensajesInv, [Next]_vars PROVE MensajesInv'
  OBVIOUS
<1> USE DEF tablas, iterador, proveedor
<1>0. requestId \in Nat /\ requestId >= requestId
  BY DEF TypeOK
<1>1. CASE Conectar
  <2>1. alServidor' = <<>> /\ alCliente' = <<>>
    BY <1>1 DEF Conectar, RedInv
  <2> QED BY <2>1 DEF MensajesInv
<1>2. ASSUME NEW k \in Claves, Resuscribir(k) PROVE MensajesInv'
  BY <1>2, SendSubscribeBien DEF Resuscribir
<1>3. CASE RecibirAck
  <2>1. \A n \in DOMAIN alCliente' : \E j \in DOMAIN alCliente : alCliente'[n] = alCliente[j]
    BY <1>3, ColaLema DEF RecibirAck, RecibirDe, TypeOK
  <2>2. /\ DOMAIN requestToKey' \subseteq DOMAIN requestToKey
        /\ \A id \in DOMAIN requestToKey' : requestToKey'[id] = requestToKey[id]
    <3>1. requestToKey' = Sin(requestToKey, Head(alCliente).id) \/ UNCHANGED requestToKey
      BY <1>3 DEF RecibirAck
    <3> QED BY <3>1, SinLema
  <2>3. UNCHANGED <<requestId, alServidor, dadas>>
    BY <1>3 DEF RecibirAck, RecibirDe
  <2> QED BY <1>0, <2>1, <2>2, <2>3, MenosBien
<1>4. CASE RecibirRechazo
  <2>1. \A n \in DOMAIN alCliente' : \E j \in DOMAIN alCliente : alCliente'[n] = alCliente[j]
    BY <1>4, ColaLema DEF RecibirRechazo, RecibirDe, TypeOK
  <2>2. /\ DOMAIN requestToKey' \subseteq DOMAIN requestToKey
        /\ \A id \in DOMAIN requestToKey' : requestToKey'[id] = requestToKey[id]
    <3>1. requestToKey' = Sin(requestToKey, Head(alCliente).id)
      BY <1>4 DEF RecibirRechazo
    <3> QED BY <3>1, SinLema
  <2>3. UNCHANGED <<requestId, alServidor, dadas>>
    BY <1>4 DEF RecibirRechazo, RecibirDe
  <2> QED BY <1>0, <2>1, <2>2, <2>3, MenosBien
<1>5. CASE RecibirAviso
  <2>1. \A n \in DOMAIN alCliente' : \E j \in DOMAIN alCliente : alCliente'[n] = alCliente[j]
    BY <1>5, ColaLema DEF RecibirAviso, RecibirDe, TypeOK
  <2>2. UNCHANGED <<requestToKey, requestId, alServidor, dadas>>
    BY <1>5 DEF RecibirAviso, RecibirDe
  <2> QED BY <1>0, <2>1, <2>2, MenosBien
<1>6. CASE Caer
  <2>1. alCliente' = <<>> /\ UNCHANGED <<requestToKey, requestId, alServidor, dadas>>
    BY <1>6 DEF Caer
  <2> QED BY <1>0, <2>1, MenosBien
<1>7. ASSUME NEW k \in Claves, Watch(k) PROVE MensajesInv'
  <2>1. CASE conectado
    BY <1>7, <2>1, SendSubscribeBien DEF Watch
  <2>2. CASE ~conectado
    BY <1>7, <2>2 DEF Watch, MensajesInv
  <2> QED BY <2>1, <2>2
<1>8. ASSUME NEW k \in Claves, Unwatch(k) PROVE MensajesInv'
  <2>1. UNCHANGED <<requestToKey, alCliente, dadas>>
    BY <1>8 DEF Unwatch
  <2>2. /\ requestId' \in Nat /\ requestId' >= requestId
        /\ \/ alServidor' = alServidor
           \/ \E s \in Subs : alServidor' = Append(alServidor, Baja(s))
    <3>1. CASE k \in Activas
      <4>1. keyToSub[k] \in Subs
        BY <3>1 DEF Activas, TypeOK
      <4>2. SendUnsubscribe(keyToSub[k])
        BY <1>8, <3>1 DEF Unwatch
      <4> QED BY <4>1, <4>2 DEF SendUnsubscribe, TypeOK
    <3>2. CASE k \notin Activas
      BY <1>8, <3>2, <1>0 DEF Unwatch
    <3> QED BY <3>1, <3>2
  <2>3. ASSUME NEW n \in DOMAIN alServidor'
        PROVE  \/ \E j \in DOMAIN alServidor : alServidor'[n] = alServidor[j]
               \/ alServidor'[n].tipo # "logsSubscribe"
    <3>1. CASE alServidor' = alServidor
      BY <3>1
    <3>2. ASSUME NEW s \in Subs, alServidor' = Append(alServidor, Baja(s))
          PROVE  \/ n \in DOMAIN alServidor /\ alServidor'[n] = alServidor[n]
                 \/ alServidor'[n] = Baja(s)
      <4>1. Baja(s) \in MensajeAlServidor
        BY DEF Baja, MensajeAlServidor
      <4> QED BY <3>2, <4>1, ColaLema DEF TypeOK
    <3>3. \A s \in Subs : Baja(s).tipo # "logsSubscribe"
      BY DEF Baja
    <3> QED BY <2>2, <3>1, <3>2, <3>3
  <2> QED BY <2>1, <2>2, <2>3, MenosBien
<1>9. ASSUME NEW s \in Subs, Aceptar(s) PROVE MensajesInv'
  <2> DEFINE m == Head(alServidor)
  <2>1. /\ m = alServidor[1] /\ 1 \in DOMAIN alServidor
        /\ m.tipo = "logsSubscribe"
        /\ m \in MensajeAlServidor
        /\ UNCHANGED <<requestToKey, requestId>>
    BY <1>9, ColaLema DEF Aceptar, Atender, Cliente, TypeOK
  <2>2. PeticionBien(m)
    BY <2>1, MensajesPorUno
  <2>3. /\ s \notin DOMAIN dadas
        /\ DOMAIN dadas' = DOMAIN dadas \cup {s}
        /\ dadas'[s] = m.clave
        /\ \A x \in DOMAIN dadas : dadas'[x] = dadas[x]
    <3>1. s \notin DOMAIN dadas /\ dadas' = Con(dadas, s, m.clave)
      BY <1>9 DEF Aceptar
    <3>2. /\ DOMAIN dadas' = DOMAIN dadas \cup {s}
          /\ dadas'[s] = m.clave
          /\ \A x \in DOMAIN dadas : x # s => dadas'[x] = dadas[x]
      BY <3>1 DEF Con
    <3> QED BY <3>1, <3>2
  <2>4. ASSUME NEW n \in DOMAIN alServidor' PROVE PeticionBien(alServidor[n])'
    <3>1. n + 1 \in DOMAIN alServidor /\ alServidor'[n] = alServidor[n + 1]
      BY <1>9, ColaLema DEF Aceptar, Atender, TypeOK
    <3>2. PeticionBien(alServidor[n + 1])
      BY <3>1, MensajesPorUno
    <3> QED BY <2>1, <3>1, <3>2 DEF PeticionBien
  <2>5. ASSUME NEW n \in DOMAIN alCliente' PROVE RespuestaBien(alCliente[n])'
    <3>1. Ack(m.id, s) \in MensajeAlCliente
      BY <2>1 DEF Ack, MensajeAlServidor, MensajeAlCliente
    <3>2. CASE n \in DOMAIN alCliente /\ alCliente'[n] = alCliente[n]
      <4>1. RespuestaBien(alCliente[n])
        BY <3>2, MensajesPorUno
      <4> QED BY <2>1, <2>3, <3>2, <4>1 DEF RespuestaBien
    <3>3. CASE alCliente'[n] = Ack(m.id, s)
      BY <2>1, <2>2, <2>3, <3>3 DEF RespuestaBien, PeticionBien, Ack
    <3>4. alCliente' = Append(alCliente, Ack(m.id, s)) /\ alCliente \in Seq(MensajeAlCliente)
      BY <1>9 DEF Aceptar, TypeOK
    <3> QED BY <2>5, <3>1, <3>2, <3>3, <3>4, ColaLema
  <2> QED BY <2>4, <2>5 DEF MensajesInv, PeticionBien, RespuestaBien
<1>10. CASE Rechazar
  <2>1. /\ UNCHANGED <<requestToKey, requestId, dadas>>
        /\ Head(alServidor) \in MensajeAlServidor
        /\ Head(alServidor).tipo = "logsSubscribe"
        /\ \A n \in DOMAIN alServidor' : \E j \in DOMAIN alServidor : alServidor'[n] = alServidor[j]
    BY <1>10, ColaLema DEF Rechazar, Atender, Cliente, TypeOK
  <2>2. Rechazo(Head(alServidor).id) \in MensajeAlCliente
    BY <2>1 DEF Rechazo, MensajeAlServidor, MensajeAlCliente
  <2>3. Rechazo(Head(alServidor).id).tipo # "result"
    BY DEF Rechazo
  <2>4. alCliente' = Append(alCliente, Rechazo(Head(alServidor).id))
        /\ alCliente \in Seq(MensajeAlCliente)
    BY <1>10 DEF Rechazar, TypeOK
  <2>5. \A n \in DOMAIN alCliente' : \/ \E j \in DOMAIN alCliente : alCliente'[n] = alCliente[j]
                                     \/ alCliente'[n].tipo # "result"
    BY <2>2, <2>3, <2>4, ColaLema
  <2> QED BY <1>0, <2>1, <2>5, MenosBien
<1>11. CASE DarDeBaja
  <2>1. /\ UNCHANGED <<requestToKey, requestId, dadas, alCliente>>
        /\ \A n \in DOMAIN alServidor' : \E j \in DOMAIN alServidor : alServidor'[n] = alServidor[j]
    BY <1>11, ColaLema DEF DarDeBaja, Atender, Cliente, TypeOK
  <2> QED BY <1>0, <2>1, MenosBien
<1>12. ASSUME NEW s \in Subs, Avisar(s) PROVE MensajesInv'
  <2>1. Aviso(s) \in MensajeAlCliente /\ Aviso(s).tipo # "result"
    BY DEF Aviso, MensajeAlCliente
  <2>2. /\ UNCHANGED <<requestToKey, requestId, dadas, alServidor>>
        /\ alCliente' = Append(alCliente, Aviso(s)) /\ alCliente \in Seq(MensajeAlCliente)
    BY <1>12 DEF Avisar, Cliente, TypeOK
  <2>3. \A n \in DOMAIN alCliente' : \/ \E j \in DOMAIN alCliente : alCliente'[n] = alCliente[j]
                                     \/ alCliente'[n].tipo # "result"
    BY <2>1, <2>2, ColaLema
  <2> QED BY <1>0, <2>2, <2>3, MenosBien
<1>13. CASE Romper
  <2>1. alServidor' = <<>> /\ UNCHANGED <<requestToKey, requestId, dadas, alCliente>>
    BY <1>13 DEF Romper
  <2> QED BY <1>0, <2>1, MenosBien
<1>14. CASE UNCHANGED vars
  BY <1>14 DEF vars, MensajesInv
<1> QED
  BY <1>1, <1>2, <1>3, <1>4, <1>5, <1>6, <1>7, <1>8, <1>9, <1>10, <1>11, <1>12, <1>13, <1>14
     DEF Next, Iterador

-----------------------------------------------------------------------------
(* The attribution                                                         *)

\* A table entry only comes from a confirmation on its way, and what the
\* provider served an id with never changes within a connection.
LEMMA Atribucion_Step ==
    TypeOK /\ RedInv /\ MensajesInv /\ Atribucion /\ [Next]_vars => Atribucion'
<1> SUFFICES ASSUME TypeOK, RedInv, MensajesInv, Atribucion, [Next]_vars PROVE Atribucion'
  OBVIOUS
<1> USE DEF tablas, iterador, proveedor
<1>1. CASE Conectar
  BY <1>1 DEF Conectar, ForgetSubscriptions, Vacia, Atribucion
<1>2. CASE RecibirAck
  <2>1. /\ Head(alCliente) = alCliente[1] /\ 1 \in DOMAIN alCliente
        /\ Head(alCliente).tipo = "result"
        /\ UNCHANGED dadas
    BY <1>2, ColaLema DEF RecibirAck, RecibirDe, TypeOK
  <2>2. RespuestaBien(Head(alCliente))
    BY <2>1, MensajesPorUno
  <2>3. CASE Head(alCliente).id \in DOMAIN requestToKey
    <3>1. subToKey' = Con(subToKey, Head(alCliente).sub, requestToKey[Head(alCliente).id])
      BY <1>2, <2>3 DEF RecibirAck
    <3>2. /\ Head(alCliente).sub \in DOMAIN dadas
          /\ requestToKey[Head(alCliente).id] = dadas[Head(alCliente).sub]
      BY <2>1, <2>2, <2>3 DEF RespuestaBien
    <3> QED BY <2>1, <3>1, <3>2 DEF Atribucion, Con
  <2>4. CASE Head(alCliente).id \notin DOMAIN requestToKey
    BY <1>2, <2>1, <2>4 DEF RecibirAck, Atribucion
  <2> QED BY <2>3, <2>4
<1>3. ASSUME NEW k \in Claves, Unwatch(k) PROVE Atribucion'
  <2>1. CASE k \in Activas
    <3>1. subToKey' = Sin(subToKey, keyToSub[k]) /\ UNCHANGED dadas
      BY <1>3, <2>1 DEF Unwatch
    <3>2. DOMAIN subToKey' \subseteq DOMAIN subToKey
          /\ \A x \in DOMAIN subToKey' : subToKey'[x] = subToKey[x]
      BY <3>1, SinLema
    <3> QED BY <3>1, <3>2 DEF Atribucion
  <2>2. CASE k \notin Activas
    BY <1>3, <2>2 DEF Unwatch, Atribucion
  <2> QED BY <2>1, <2>2
<1>4. ASSUME NEW s \in Subs, Aceptar(s) PROVE Atribucion'
  <2>1. /\ s \notin DOMAIN dadas
        /\ dadas' = Con(dadas, s, Head(alServidor).clave)
        /\ UNCHANGED subToKey
    BY <1>4 DEF Aceptar, Atender, Cliente
  <2>2. /\ DOMAIN dadas' = DOMAIN dadas \cup {s}
        /\ \A x \in DOMAIN dadas : x # s => dadas'[x] = dadas[x]
    BY <2>1 DEF Con
  <2> QED BY <2>1, <2>2 DEF Atribucion
<1>5. ASSUME UNCHANGED <<subToKey, dadas>> PROVE Atribucion'
  BY <1>5 DEF Atribucion
<1>6. ASSUME NEW k \in Claves, Resuscribir(k) \/ Watch(k) PROVE Atribucion'
  BY <1>5, <1>6 DEF Resuscribir, Watch
<1>7. CASE RecibirRechazo \/ RecibirAviso \/ Caer
  BY <1>5, <1>7 DEF RecibirRechazo, RecibirAviso, RecibirDe, Caer
<1>8. CASE Rechazar \/ DarDeBaja \/ Romper
  BY <1>5, <1>8 DEF Rechazar, DarDeBaja, Romper, Atender, Cliente
<1>9. ASSUME NEW s \in Subs, Avisar(s) PROVE Atribucion'
  BY <1>5, <1>9 DEF Avisar, Cliente
<1>10. CASE UNCHANGED vars
  BY <1>5, <1>10 DEF vars
<1> QED
  BY <1>1, <1>2, <1>3, <1>4, <1>6, <1>7, <1>8, <1>9, <1>10 DEF Next, Iterador

-----------------------------------------------------------------------------
(* The requests waited for                                                 *)

\* The positions of a queue after an append and after its head is taken.
LEMMA PosicionesLema ==
    ASSUME NEW T, NEW cola \in Seq(T), NEW m \in T
    PROVE  /\ DOMAIN Append(cola, m) = DOMAIN cola \cup {Len(cola) + 1}
           /\ Len(cola) + 1 \notin DOMAIN cola
           /\ Append(cola, m)[Len(cola) + 1] = m
           /\ \A n \in DOMAIN cola : Append(cola, m)[n] = cola[n]
           /\ cola # <<>> =>
                /\ \A n \in DOMAIN Tail(cola) :
                     /\ n + 1 \in DOMAIN cola /\ n + 1 # 1 /\ n \in Nat
                     /\ Tail(cola)[n] = cola[n + 1]
                /\ \A n \in DOMAIN cola : n # 1 =>
                     n - 1 \in DOMAIN Tail(cola) /\ Tail(cola)[n - 1] = cola[n]
  OBVIOUS

\* An answer taken by the client settles its own request and no other.
LEMMA ContestadaPendientes ==
    ASSUME TypeOK, PendientesInv, alCliente # <<>>, EsRespuesta(Head(alCliente)),
           UNCHANGED <<alServidor, viva>>, alCliente' = Tail(alCliente),
           DOMAIN requestToKey \ {Head(alCliente).id} \subseteq DOMAIN requestToKey'
    PROVE  PendientesInv'
<1> SUFFICES ASSUME viva PROVE PendientesInv'
  BY DEF PendientesInv
<1>1. Head(alCliente) = alCliente[1] /\ 1 \in DOMAIN alCliente
  BY ColaLema DEF TypeOK
<1>2. \A n \in DOMAIN alCliente' : /\ n + 1 \in DOMAIN alCliente /\ n + 1 # 1 /\ n \in Nat
                                   /\ alCliente'[n] = alCliente[n + 1]
  BY PosicionesLema DEF TypeOK
<1>3. ASSUME NEW n \in DOMAIN alServidor, EsAlta(alServidor[n])
      PROVE  alServidor[n].id \in DOMAIN requestToKey'
  BY <1>1, <1>3 DEF PendientesInv
<1>4. ASSUME NEW n \in DOMAIN alCliente', EsRespuesta(alCliente'[n])
      PROVE  alCliente'[n].id \in DOMAIN requestToKey'
  <2>1. alCliente[n + 1].id # alCliente[1].id
    BY <1>1, <1>2, <1>4 DEF PendientesInv
  <2> QED BY <1>1, <1>2, <1>4, <2>1 DEF PendientesInv
<1>5. ASSUME NEW n \in DOMAIN alCliente', NEW j \in DOMAIN alCliente',
             EsRespuesta(alCliente'[n]), EsRespuesta(alCliente'[j]),
             alCliente'[n].id = alCliente'[j].id
      PROVE  n = j
  <2>1. n + 1 = j + 1 /\ n \in Nat /\ j \in Nat
    BY <1>2, <1>5 DEF PendientesInv
  <2> QED BY <2>1
<1>6. ASSUME NEW n \in DOMAIN alServidor, NEW j \in DOMAIN alCliente',
             EsAlta(alServidor[n]), EsRespuesta(alCliente'[j])
      PROVE  alServidor[n].id # alCliente'[j].id
  BY <1>2, <1>6 DEF PendientesInv
<1> QED BY <1>3, <1>4, <1>5, <1>6 DEF PendientesInv

\* A request sent has an id that nothing on its way carries.
LEMMA PedidaPendientes ==
    ASSUME TypeOK, PendientesInv, NEW k \in Claves, SendSubscribe(k),
           UNCHANGED <<alCliente, viva>>
    PROVE  PendientesInv'
<1> SUFFICES ASSUME viva PROVE PendientesInv'
  BY DEF PendientesInv
<1> DEFINE nueva == Len(alServidor) + 1
<1>1. /\ DOMAIN requestToKey' = DOMAIN requestToKey \cup {requestId + 1}
      /\ requestId + 1 \notin DOMAIN requestToKey
  <2>1. requestToKey' = Con(requestToKey, requestId + 1, k)
    BY DEF SendSubscribe
  <2>2. requestId \in Nat /\ DOMAIN requestToKey \subseteq 1 .. requestId
    BY DEF TypeOK
  <2> QED BY <2>1, <2>2 DEF Con
<1>2. Alta(requestId + 1, k) \in MensajeAlServidor
  BY DEF TypeOK, Alta, MensajeAlServidor
<1>3. /\ DOMAIN alServidor' = DOMAIN alServidor \cup {nueva}
      /\ nueva \notin DOMAIN alServidor
      /\ alServidor'[nueva] = Alta(requestId + 1, k)
      /\ \A n \in DOMAIN alServidor : alServidor'[n] = alServidor[n]
  BY <1>2, PosicionesLema DEF TypeOK, SendSubscribe
<1>4. Alta(requestId + 1, k).id = requestId + 1
  BY DEF Alta
<1> HIDE DEF nueva
<1>5. \A n \in DOMAIN alServidor' :
        EsAlta(alServidor'[n]) => alServidor'[n].id \in DOMAIN requestToKey'
  BY <1>1, <1>3, <1>4 DEF PendientesInv
<1>6. \A n \in DOMAIN alCliente :
        EsRespuesta(alCliente[n]) => alCliente[n].id \in DOMAIN requestToKey'
  BY <1>1 DEF PendientesInv
<1>7. ASSUME NEW n \in DOMAIN alServidor', NEW j \in DOMAIN alServidor',
             EsAlta(alServidor'[n]), EsAlta(alServidor'[j]),
             alServidor'[n].id = alServidor'[j].id
      PROVE  n = j
  BY <1>1, <1>3, <1>4, <1>7 DEF PendientesInv
<1>8. \A n \in DOMAIN alServidor', j \in DOMAIN alCliente :
        EsAlta(alServidor'[n]) /\ EsRespuesta(alCliente[j])
          => alServidor'[n].id # alCliente[j].id
  BY <1>1, <1>3, <1>4 DEF PendientesInv
<1> QED BY <1>5, <1>6, <1>7, <1>8 DEF PendientesInv

\* The provider's answer takes the place of the request it answers.
LEMMA AtendidaPendientes ==
    ASSUME TypeOK, PendientesInv, alServidor # <<>>, EsAlta(Head(alServidor)),
           alServidor' = Tail(alServidor), UNCHANGED <<requestToKey, viva>>,
           NEW r \in MensajeAlCliente, r.id = Head(alServidor).id,
           alCliente' = Append(alCliente, r)
    PROVE  PendientesInv'
<1> SUFFICES ASSUME viva PROVE PendientesInv'
  BY DEF PendientesInv
<1> DEFINE nueva == Len(alCliente) + 1
<1>1. Head(alServidor) = alServidor[1] /\ 1 \in DOMAIN alServidor
  BY ColaLema DEF TypeOK
<1>2. \A n \in DOMAIN alServidor' : /\ n + 1 \in DOMAIN alServidor /\ n + 1 # 1 /\ n \in Nat
                                    /\ alServidor'[n] = alServidor[n + 1]
  BY PosicionesLema DEF TypeOK
<1>3. /\ DOMAIN alCliente' = DOMAIN alCliente \cup {nueva}
      /\ nueva \notin DOMAIN alCliente
      /\ alCliente'[nueva] = r
      /\ \A n \in DOMAIN alCliente : alCliente'[n] = alCliente[n]
  BY PosicionesLema DEF TypeOK
<1> HIDE DEF nueva
<1>4. \A n \in DOMAIN alServidor' :
        EsAlta(alServidor'[n]) => alServidor'[n].id \in DOMAIN requestToKey
  BY <1>2 DEF PendientesInv
<1>5. \A n \in DOMAIN alCliente' :
        EsRespuesta(alCliente'[n]) => alCliente'[n].id \in DOMAIN requestToKey
  BY <1>1, <1>3 DEF PendientesInv
<1>6. ASSUME NEW n \in DOMAIN alServidor', NEW j \in DOMAIN alServidor',
             EsAlta(alServidor'[n]), EsAlta(alServidor'[j]),
             alServidor'[n].id = alServidor'[j].id
      PROVE  n = j
  <2>1. n + 1 = j + 1 /\ n \in Nat /\ j \in Nat
    BY <1>2, <1>6 DEF PendientesInv
  <2> QED BY <2>1
<1>7. ASSUME NEW n \in DOMAIN alCliente', NEW j \in DOMAIN alCliente',
             EsRespuesta(alCliente'[n]), EsRespuesta(alCliente'[j]),
             alCliente'[n].id = alCliente'[j].id
      PROVE  n = j
  BY <1>1, <1>3, <1>7 DEF PendientesInv
<1>8. ASSUME NEW n \in DOMAIN alServidor', NEW j \in DOMAIN alCliente',
             EsAlta(alServidor'[n]), EsRespuesta(alCliente'[j])
      PROVE  alServidor'[n].id # alCliente'[j].id
  <2>1. CASE j \in DOMAIN alCliente
    BY <1>2, <1>3, <1>8, <2>1 DEF PendientesInv
  <2>2. CASE j = nueva
    BY <1>1, <1>2, <1>3, <1>8, <2>2 DEF PendientesInv
  <2> QED BY <1>3, <2>1, <2>2
<1> QED BY <1>4, <1>5, <1>6, <1>7, <1>8 DEF PendientesInv

\* Every step keeps the requests waited for.
LEMMA Pendientes_Step ==
    TypeOK /\ RedInv /\ PendientesInv /\ [Next]_vars => PendientesInv'
<1> SUFFICES ASSUME TypeOK, RedInv, PendientesInv, [Next]_vars PROVE PendientesInv'
  OBVIOUS
<1> USE DEF tablas, iterador, proveedor
<1>0. alServidor \in Seq(MensajeAlServidor) /\ alCliente \in Seq(MensajeAlCliente)
  BY DEF TypeOK
<1>1. CASE Conectar
  <2>1. alServidor' = <<>> /\ alCliente' = <<>>
    BY <1>1 DEF Conectar, RedInv
  <2> QED BY <2>1 DEF PendientesInv
<1>2. ASSUME NEW k \in Claves, Resuscribir(k) PROVE PendientesInv'
  BY <1>2, PedidaPendientes DEF Resuscribir
<1>3. CASE RecibirAck
  <2>1. /\ alCliente # <<>> /\ EsRespuesta(Head(alCliente))
        /\ UNCHANGED <<alServidor, viva>> /\ alCliente' = Tail(alCliente)
    BY <1>3 DEF RecibirAck, RecibirDe, EsRespuesta
  <2>2. requestToKey' = Sin(requestToKey, Head(alCliente).id) \/ UNCHANGED requestToKey
    BY <1>3 DEF RecibirAck
  <2>3. DOMAIN requestToKey \ {Head(alCliente).id} \subseteq DOMAIN requestToKey'
    BY <2>2 DEF Sin, Restrict
  <2> QED BY <2>1, <2>3, ContestadaPendientes
<1>4. CASE RecibirRechazo
  <2>1. /\ alCliente # <<>> /\ EsRespuesta(Head(alCliente))
        /\ UNCHANGED <<alServidor, viva>> /\ alCliente' = Tail(alCliente)
    BY <1>4 DEF RecibirRechazo, RecibirDe, EsRespuesta
  <2>2. requestToKey' = Sin(requestToKey, Head(alCliente).id)
    BY <1>4 DEF RecibirRechazo
  <2>3. DOMAIN requestToKey \ {Head(alCliente).id} \subseteq DOMAIN requestToKey'
    BY <2>2 DEF Sin, Restrict
  <2> QED BY <2>1, <2>3, ContestadaPendientes
<1>5. CASE RecibirAviso
  <2>1. /\ UNCHANGED <<alServidor, viva, requestToKey>>
        /\ \A n \in DOMAIN alCliente' : /\ n + 1 \in DOMAIN alCliente /\ n \in Nat
                                        /\ alCliente'[n] = alCliente[n + 1]
    BY <1>0, <1>5, PosicionesLema DEF RecibirAviso, RecibirDe
  <2>2. \A n, j \in Nat : n + 1 = j + 1 => n = j
    OBVIOUS
  <2> QED BY <2>1, <2>2 DEF PendientesInv
<1>6. CASE Caer
  BY <1>6 DEF Caer, PendientesInv
<1>7. ASSUME NEW k \in Claves, Watch(k) PROVE PendientesInv'
  <2>1. CASE conectado
    BY <1>7, <2>1, PedidaPendientes DEF Watch
  <2>2. CASE ~conectado
    BY <1>7, <2>2 DEF Watch, PendientesInv
  <2> QED BY <2>1, <2>2
<1>8. ASSUME NEW k \in Claves, Unwatch(k) PROVE PendientesInv'
  <2>1. UNCHANGED <<requestToKey, alCliente, viva>>
    BY <1>8 DEF Unwatch
  <2>2. \/ alServidor' = alServidor
        \/ \E s \in Subs : alServidor' = Append(alServidor, Baja(s))
    <3>1. k \in Activas => keyToSub[k] \in Subs
      BY DEF Activas, TypeOK
    <3> QED BY <1>8, <3>1 DEF Unwatch, SendUnsubscribe
  <2>3. CASE alServidor' = alServidor
    BY <2>1, <2>3 DEF PendientesInv
  <2>4. ASSUME NEW s \in Subs, alServidor' = Append(alServidor, Baja(s))
        PROVE  PendientesInv'
    <3>1. Baja(s) \in MensajeAlServidor /\ ~EsAlta(Baja(s))
      BY DEF Baja, MensajeAlServidor, EsAlta
    <3>2. \A n \in DOMAIN alServidor' : EsAlta(alServidor'[n]) =>
            n \in DOMAIN alServidor /\ alServidor'[n] = alServidor[n]
      BY <1>0, <2>4, <3>1, PosicionesLema
    <3> QED BY <2>1, <3>2 DEF PendientesInv
  <2> QED BY <2>2, <2>3, <2>4
<1>9. ASSUME NEW s \in Subs, Aceptar(s) PROVE PendientesInv'
  <2>1. Head(alServidor) \in MensajeAlServidor /\ Head(alServidor).tipo = "logsSubscribe"
    BY <1>0, <1>9, ColaLema DEF Aceptar, Atender
  <2>2. /\ Ack(Head(alServidor).id, s) \in MensajeAlCliente
        /\ Ack(Head(alServidor).id, s).id = Head(alServidor).id
    BY <2>1 DEF Ack, MensajeAlServidor, MensajeAlCliente
  <2>3. EsAlta(Head(alServidor))
    BY <2>1 DEF EsAlta
  <2>4. /\ alServidor # <<>> /\ alServidor' = Tail(alServidor)
        /\ UNCHANGED <<requestToKey, viva>>
        /\ alCliente' = Append(alCliente, Ack(Head(alServidor).id, s))
    BY <1>9 DEF Aceptar, Atender, Cliente
  <2> QED BY <2>2, <2>3, <2>4, AtendidaPendientes
<1>10. CASE Rechazar
  <2>1. Head(alServidor) \in MensajeAlServidor /\ Head(alServidor).tipo = "logsSubscribe"
    BY <1>0, <1>10, ColaLema DEF Rechazar, Atender
  <2>2. /\ Rechazo(Head(alServidor).id) \in MensajeAlCliente
        /\ Rechazo(Head(alServidor).id).id = Head(alServidor).id
    BY <2>1 DEF Rechazo, MensajeAlServidor, MensajeAlCliente
  <2>3. EsAlta(Head(alServidor))
    BY <2>1 DEF EsAlta
  <2>4. /\ alServidor # <<>> /\ alServidor' = Tail(alServidor)
        /\ UNCHANGED <<requestToKey, viva>>
        /\ alCliente' = Append(alCliente, Rechazo(Head(alServidor).id))
    BY <1>10 DEF Rechazar, Atender, Cliente
  <2> QED BY <2>2, <2>3, <2>4, AtendidaPendientes
<1>11. CASE DarDeBaja
  <2>1. /\ UNCHANGED <<alCliente, viva, requestToKey>>
        /\ \A n \in DOMAIN alServidor' : /\ n + 1 \in DOMAIN alServidor /\ n \in Nat
                                         /\ alServidor'[n] = alServidor[n + 1]
    BY <1>0, <1>11, PosicionesLema DEF DarDeBaja, Atender, Cliente
  <2>2. \A n, j \in Nat : n + 1 = j + 1 => n = j
    OBVIOUS
  <2> QED BY <2>1, <2>2 DEF PendientesInv
<1>12. ASSUME NEW s \in Subs, Avisar(s) PROVE PendientesInv'
  <2>1. Aviso(s) \in MensajeAlCliente /\ ~EsRespuesta(Aviso(s))
    BY DEF Aviso, MensajeAlCliente, EsRespuesta
  <2>2. UNCHANGED <<alServidor, viva, requestToKey>> /\ alCliente' = Append(alCliente, Aviso(s))
    BY <1>12 DEF Avisar, Cliente
  <2>3. \A n \in DOMAIN alCliente' : EsRespuesta(alCliente'[n]) =>
          n \in DOMAIN alCliente /\ alCliente'[n] = alCliente[n]
    BY <1>0, <2>1, <2>2, PosicionesLema
  <2> QED BY <2>2, <2>3 DEF PendientesInv
<1>13. CASE Romper
  BY <1>13 DEF Romper, PendientesInv
<1>14. CASE UNCHANGED vars
  BY <1>14 DEF vars, PendientesInv
<1> QED
  BY <1>1, <1>2, <1>3, <1>4, <1>5, <1>6, <1>7, <1>8, <1>9, <1>10, <1>11, <1>12, <1>13, <1>14
     DEF Next, Iterador

-----------------------------------------------------------------------------
(* The subscriptions served                                                *)

\* What is in a queue stays in it after an append, and after the head is
\* taken if it is not the head.
LEMMA EnLema ==
    ASSUME NEW T, NEW cola \in Seq(T), NEW m \in T, NEW x, En(cola, x)
    PROVE  /\ En(Append(cola, m), x)
           /\ cola # <<>> /\ x # Head(cola) => En(Tail(cola), x)
<1>1. PICK n \in DOMAIN cola : cola[n] = x
  BY DEF En
<1>2. En(Append(cola, m), x)
  BY <1>1, PosicionesLema DEF En
<1>3. ASSUME cola # <<>>, x # Head(cola) PROVE En(Tail(cola), x)
  <2>1. Head(cola) = cola[1]
    BY <1>3
  <2>2. n # 1
    BY <1>1, <1>3, <2>1
  <2>3. n - 1 \in DOMAIN Tail(cola) /\ Tail(cola)[n - 1] = x
    BY <1>1, <1>3, <2>2
  <2> QED BY <2>3 DEF En
<1> QED BY <1>2, <1>3

\* The client knows of s, or will: the disjunction of SinHuerfanas.
Localizada(s) ==
    \/ s \in DOMAIN subToKey
    \/ \E id \in DOMAIN requestToKey : En(alCliente, Ack(id, s))
    \/ En(alServidor, Baja(s))

\* A served subscription stays known while a step takes nothing away from
\* the tables or from the queues.
LEMMA MasLocalizada ==
    ASSUME NEW s, Localizada(s),
           DOMAIN subToKey \subseteq DOMAIN subToKey',
           DOMAIN requestToKey \subseteq DOMAIN requestToKey',
           \A id : En(alCliente, Ack(id, s)) => En(alCliente', Ack(id, s)),
           En(alServidor, Baja(s)) => En(alServidor', Baja(s))
    PROVE  Localizada(s)'
  BY DEF Localizada

\* An answer that settles s's request puts s in the table; any other leaves
\* the request of s, which has another id, waiting.
LEMMA ContestadaLocalizada ==
    ASSUME TypeOK, PendientesInv, viva, alCliente # <<>>, EsRespuesta(Head(alCliente)),
           alCliente' = Tail(alCliente), UNCHANGED alServidor,
           DOMAIN requestToKey \ {Head(alCliente).id} \subseteq DOMAIN requestToKey',
           DOMAIN subToKey \subseteq DOMAIN subToKey',
           NEW s \in Subs, Localizada(s),
           \A id \in DOMAIN requestToKey :
               Head(alCliente) = Ack(id, s) => s \in DOMAIN subToKey'
    PROVE  Localizada(s)'
<1>1. CASE s \in DOMAIN subToKey
  BY <1>1 DEF Localizada
<1>2. CASE En(alServidor, Baja(s))
  BY <1>2 DEF Localizada
<1>3. ASSUME NEW id \in DOMAIN requestToKey, En(alCliente, Ack(id, s))
      PROVE  Localizada(s)'
  <2>1. CASE Head(alCliente) = Ack(id, s)
    BY <2>1 DEF Localizada
  <2>2. CASE Head(alCliente) # Ack(id, s)
    <3>1. alCliente \in Seq(MensajeAlCliente) /\ Head(alCliente) \in MensajeAlCliente
      BY ColaLema DEF TypeOK
    <3>2. En(alCliente', Ack(id, s))
      BY <1>3, <2>2, <3>1, EnLema
    <3>3. PICK n \in DOMAIN alCliente : alCliente[n] = Ack(id, s)
      BY <1>3 DEF En
    <3>4. EsRespuesta(alCliente[n]) /\ alCliente[n].id = id
      BY <3>3 DEF Ack, EsRespuesta
    <3>5. Head(alCliente) = alCliente[1] /\ 1 \in DOMAIN alCliente
      BY <3>1
    <3>6. n # 1
      BY <2>2, <3>3, <3>5
    <3>7. alCliente[1].id # id
      BY <3>3, <3>4, <3>5, <3>6 DEF PendientesInv
    <3> QED BY <3>2, <3>5, <3>7 DEF Localizada
  <2> QED BY <2>1, <2>2
<1> QED BY <1>1, <1>2, <1>3 DEF Localizada

\* Every step keeps every served subscription known.
LEMMA SinHuerfanas_Step ==
    TypeOK /\ RedInv /\ PendientesInv /\ SinHuerfanas /\ [Next]_vars => SinHuerfanas'
<1> SUFFICES ASSUME TypeOK, RedInv, PendientesInv, SinHuerfanas, [Next]_vars,
                    NEW s \in servidor'
             PROVE  Localizada(s)'
  BY DEF SinHuerfanas, Localizada
<1> USE DEF tablas, iterador, proveedor
<1>0. /\ \A x \in servidor : viva /\ Localizada(x) /\ x \in Subs
      /\ alServidor \in Seq(MensajeAlServidor) /\ alCliente \in Seq(MensajeAlCliente)
  BY DEF SinHuerfanas, Localizada, RedInv, TypeOK
<1>1. CASE Conectar
  BY <1>1 DEF Conectar
<1>2. ASSUME NEW k \in Claves, SendSubscribe(k), UNCHANGED <<servidor, subToKey, alCliente>>
      PROVE  Localizada(s)'
  <2>1. requestToKey' = Con(requestToKey, requestId + 1, k)
    BY <1>2 DEF SendSubscribe
  <2>2. DOMAIN requestToKey \subseteq DOMAIN requestToKey'
    BY <2>1 DEF Con
  <2>3. Alta(requestId + 1, k) \in MensajeAlServidor
    BY DEF TypeOK, Alta, MensajeAlServidor
  <2>4. En(alServidor, Baja(s)) => En(alServidor', Baja(s))
    BY <1>0, <1>2, <2>3, EnLema DEF SendSubscribe
  <2> QED BY <1>0, <1>2, <2>2, <2>4, MasLocalizada
<1>3. ASSUME NEW k \in Claves, Resuscribir(k) PROVE Localizada(s)'
  BY <1>2, <1>3 DEF Resuscribir
<1>4. CASE RecibirAck
  <2>1. /\ alCliente # <<>> /\ EsRespuesta(Head(alCliente))
        /\ UNCHANGED <<alServidor, servidor>> /\ alCliente' = Tail(alCliente)
    BY <1>4 DEF RecibirAck, RecibirDe, EsRespuesta
  <2>2. CASE Head(alCliente).id \in DOMAIN requestToKey
    <3>1. /\ requestToKey' = Sin(requestToKey, Head(alCliente).id)
          /\ subToKey' = Con(subToKey, Head(alCliente).sub, requestToKey[Head(alCliente).id])
      BY <1>4, <2>2 DEF RecibirAck
    <3>2. /\ DOMAIN requestToKey \ {Head(alCliente).id} \subseteq DOMAIN requestToKey'
          /\ DOMAIN subToKey' = DOMAIN subToKey \cup {Head(alCliente).sub}
      BY <3>1 DEF Sin, Restrict, Con
    <3>3. \A id : Head(alCliente) = Ack(id, s) => Head(alCliente).sub = s
      BY DEF Ack
    <3> QED BY <1>0, <2>1, <3>2, <3>3, ContestadaLocalizada
  <2>3. CASE Head(alCliente).id \notin DOMAIN requestToKey
    <3>1. UNCHANGED tablas
      BY <1>4, <2>3 DEF RecibirAck
    <3>2. \A id : Head(alCliente) = Ack(id, s) => Head(alCliente).id = id
      BY DEF Ack
    <3> QED BY <1>0, <2>1, <2>3, <3>1, <3>2, ContestadaLocalizada
  <2> QED BY <2>2, <2>3
<1>5. CASE RecibirRechazo
  <2>1. /\ alCliente # <<>> /\ EsRespuesta(Head(alCliente))
        /\ UNCHANGED <<alServidor, servidor, subToKey>> /\ alCliente' = Tail(alCliente)
        /\ requestToKey' = Sin(requestToKey, Head(alCliente).id)
        /\ Head(alCliente).tipo = "error"
    BY <1>5 DEF RecibirRechazo, RecibirDe, EsRespuesta
  <2>2. DOMAIN requestToKey \ {Head(alCliente).id} \subseteq DOMAIN requestToKey'
    BY <2>1 DEF Sin, Restrict
  <2>3. \A id : Head(alCliente) # Ack(id, s)
    BY <2>1 DEF Ack
  <2> QED BY <1>0, <2>1, <2>2, <2>3, ContestadaLocalizada
<1>6. CASE RecibirAviso
  <2>1. /\ alCliente # <<>> /\ alCliente' = Tail(alCliente)
        /\ UNCHANGED <<alServidor, servidor, subToKey, requestToKey>>
        /\ Head(alCliente).tipo = "logsNotification"
    BY <1>6 DEF RecibirAviso, RecibirDe
  <2>2. Head(alCliente) \in MensajeAlCliente
    BY <1>0, <2>1, ColaLema
  <2>3. \A id : Head(alCliente) # Ack(id, s)
    BY <2>1 DEF Ack
  <2>4. \A id : En(alCliente, Ack(id, s)) => En(alCliente', Ack(id, s))
    BY <1>0, <2>1, <2>2, <2>3, EnLema
  <2> QED BY <1>0, <2>1, <2>4, MasLocalizada
<1>7. CASE Caer
  BY <1>7, <1>0 DEF Caer
<1>8. ASSUME NEW k \in Claves, Watch(k) PROVE Localizada(s)'
  <2>1. CASE conectado
    BY <1>2, <1>8, <2>1 DEF Watch
  <2>2. CASE ~conectado
    BY <1>0, <1>8, <2>2, MasLocalizada DEF Watch
  <2> QED BY <2>1, <2>2
<1>9. ASSUME NEW k \in Claves, Unwatch(k) PROVE Localizada(s)'
  <2>1. UNCHANGED <<requestToKey, alCliente, servidor>>
    BY <1>9 DEF Unwatch
  <2>2. CASE k \in Activas
    <3>1. keyToSub[k] \in Subs
      BY <2>2 DEF Activas, TypeOK
    <3>2. Baja(keyToSub[k]) \in MensajeAlServidor
      BY <3>1 DEF Baja, MensajeAlServidor
    <3>3. viva /\ conectado
      BY <1>0, <2>1 DEF TypeOK, RedInv
    <3>4. /\ subToKey' = Sin(subToKey, keyToSub[k])
          /\ alServidor' = Append(alServidor, Baja(keyToSub[k]))
      BY <1>9, <2>2, <3>3 DEF Unwatch, SendUnsubscribe
    <3>5. CASE s = keyToSub[k]
      <4>1. En(alServidor', Baja(s))
        <5>1. /\ Len(alServidor) + 1 \in DOMAIN alServidor'
              /\ alServidor'[Len(alServidor) + 1] = Baja(s)
          BY <1>0, <3>2, <3>4, <3>5, PosicionesLema
        <5> QED BY <5>1 DEF En
      <4> QED BY <4>1 DEF Localizada
    <3>6. CASE s # keyToSub[k]
      <4>1. s \in DOMAIN subToKey => s \in DOMAIN subToKey'
        BY <3>4, <3>6 DEF Sin, Restrict
      <4>2. En(alServidor, Baja(s)) => En(alServidor', Baja(s))
        BY <1>0, <3>2, <3>4, EnLema
      <4> QED BY <1>0, <2>1, <4>1, <4>2 DEF Localizada
    <3> QED BY <3>5, <3>6
  <2>3. CASE k \notin Activas
    BY <1>0, <1>9, <2>1, <2>3, MasLocalizada DEF Unwatch
  <2> QED BY <2>2, <2>3
<1>10. ASSUME NEW x \in Subs, Aceptar(x) PROVE Localizada(s)'
  <2> DEFINE m == Head(alServidor)
  <2>1. /\ m \in MensajeAlServidor /\ m = alServidor[1] /\ 1 \in DOMAIN alServidor
        /\ m.tipo = "logsSubscribe"
    BY <1>0, <1>10, ColaLema DEF Aceptar, Atender
  <2>2. /\ alServidor # <<>> /\ alServidor' = Tail(alServidor)
        /\ UNCHANGED <<requestToKey, subToKey, viva>>
        /\ alCliente' = Append(alCliente, Ack(m.id, x))
        /\ servidor' = servidor \cup {x}
    BY <1>10 DEF Aceptar, Atender, Cliente
  <2>3. Ack(m.id, x) \in MensajeAlCliente
    BY <2>1 DEF Ack, MensajeAlServidor, MensajeAlCliente
  <2>4. CASE s = x
    <3>1. viva
      BY <2>2 DEF RedInv
    <3>2. m.id \in DOMAIN requestToKey'
      BY <2>1, <2>2, <3>1 DEF PendientesInv, EsAlta
    <3>3. /\ Len(alCliente) + 1 \in DOMAIN alCliente'
          /\ alCliente'[Len(alCliente) + 1] = Ack(m.id, x)
      BY <1>0, <2>2, <2>3, PosicionesLema
    <3>4. En(alCliente', Ack(m.id, s))
      BY <2>4, <3>3 DEF En
    <3> QED BY <3>2, <3>4 DEF Localizada
  <2>5. CASE s # x
    <3>1. \A id : En(alCliente, Ack(id, s)) => En(alCliente', Ack(id, s))
      BY <1>0, <2>2, <2>3, EnLema
    <3>2. Baja(s) # m
      BY <2>1 DEF Baja
    <3>3. En(alServidor, Baja(s)) => En(alServidor', Baja(s))
      BY <1>0, <2>1, <2>2, <3>2, EnLema
    <3> QED BY <1>0, <2>2, <2>5, <3>1, <3>3, MasLocalizada
  <2> QED BY <2>4, <2>5
<1>11. CASE Rechazar
  <2> DEFINE m == Head(alServidor)
  <2>1. m \in MensajeAlServidor /\ m.tipo = "logsSubscribe"
    BY <1>0, <1>11, ColaLema DEF Rechazar, Atender
  <2>2. /\ alServidor # <<>> /\ alServidor' = Tail(alServidor)
        /\ UNCHANGED <<requestToKey, subToKey, servidor>>
        /\ alCliente' = Append(alCliente, Rechazo(m.id))
    BY <1>11 DEF Rechazar, Atender, Cliente
  <2>3. Rechazo(m.id) \in MensajeAlCliente
    BY <2>1 DEF Rechazo, MensajeAlServidor, MensajeAlCliente
  <2>4. \A id : En(alCliente, Ack(id, s)) => En(alCliente', Ack(id, s))
    BY <1>0, <2>2, <2>3, EnLema
  <2>5. Baja(s) # m
    BY <2>1 DEF Baja
  <2>6. En(alServidor, Baja(s)) => En(alServidor', Baja(s))
    BY <1>0, <2>1, <2>2, <2>5, EnLema
  <2> QED BY <1>0, <2>2, <2>4, <2>6, MasLocalizada
<1>12. CASE DarDeBaja
  <2> DEFINE m == Head(alServidor)
  <2>1. m \in MensajeAlServidor
    BY <1>0, <1>12, ColaLema DEF DarDeBaja, Atender
  <2>2. /\ alServidor # <<>> /\ alServidor' = Tail(alServidor)
        /\ UNCHANGED <<requestToKey, subToKey, alCliente>>
        /\ servidor' = servidor \ {m.sub}
    BY <1>12 DEF DarDeBaja, Atender, Cliente
  <2>3. Baja(s) # m
    BY <2>2 DEF Baja
  <2>4. En(alServidor, Baja(s)) => En(alServidor', Baja(s))
    BY <1>0, <2>1, <2>2, <2>3, EnLema
  <2> QED BY <1>0, <2>2, <2>4, MasLocalizada
<1>13. ASSUME NEW x \in Subs, Avisar(x) PROVE Localizada(s)'
  <2>1. Aviso(x) \in MensajeAlCliente
    BY DEF Aviso, MensajeAlCliente
  <2>2. /\ UNCHANGED <<alServidor, servidor, subToKey, requestToKey>>
        /\ alCliente' = Append(alCliente, Aviso(x))
    BY <1>13 DEF Avisar, Cliente
  <2>3. \A id : En(alCliente, Ack(id, s)) => En(alCliente', Ack(id, s))
    BY <1>0, <2>1, <2>2, EnLema
  <2> QED BY <1>0, <2>2, <2>3, MasLocalizada
<1>14. CASE Romper
  BY <1>14 DEF Romper
<1>15. CASE UNCHANGED vars
  BY <1>0, <1>15, MasLocalizada DEF vars
<1> QED
  BY <1>1, <1>3, <1>4, <1>5, <1>6, <1>7, <1>8, <1>9, <1>10, <1>11, <1>12, <1>13, <1>14, <1>15
     DEF Next, Iterador

-----------------------------------------------------------------------------

\* The inductive invariant holds of every behaviour.
THEOREM Spec_IInv == Spec => []IInv
<1>1. Init => IInv
  <2> SUFFICES ASSUME Init PROVE IInv
    OBVIOUS
  <2>1. DOMAIN Vacia = {} /\ \A T : Vacia \in [{} -> T]
    BY DEF Vacia
  <2>2. /\ requestToKey \in [DOMAIN requestToKey -> Claves]
        /\ subToKey \in [DOMAIN subToKey -> Claves]
        /\ keyToSub \in [DOMAIN keyToSub -> Subs]
        /\ dadas \in [DOMAIN dadas -> Claves]
        /\ DOMAIN requestToKey = {} /\ DOMAIN subToKey = {}
        /\ DOMAIN keyToSub = {} /\ DOMAIN dadas = {}
    BY <2>1 DEF Init
  <2>3. caidas \in 0 .. MaxCaidas
    BY CotasAssumption DEF Init
  <2>4. alServidor \in Seq(MensajeAlServidor) /\ alCliente \in Seq(MensajeAlCliente)
    BY DEF Init
  <2>5. /\ fase = "fuera" /\ porEnviar = {} /\ conectado = FALSE /\ viva = FALSE
        /\ wanted = {} /\ servidor = {} /\ rechazadas = {} /\ requestId = 0
    BY DEF Init
  <2>6. TypeOK
    BY <2>2, <2>3, <2>4, <2>5 DEF TypeOK
  <2> QED BY <2>2, <2>6 DEF Init, IInv, RedInv, MensajesInv, Atribucion, PendientesInv, SinHuerfanas
<1>2. IInv /\ [Next]_vars => IInv'
  BY TypeOK_Step, Red_Step, Mensajes_Step, Atribucion_Step, Pendientes_Step, SinHuerfanas_Step DEF IInv
<1> QED BY <1>1, <1>2, PTL DEF Spec

\* The stream's tables and queues keep their types.
THEOREM Spec_TypeOK == Spec => []TypeOK
<1>1. IInv => TypeOK
  BY DEF IInv
<1> QED BY <1>1, Spec_IInv, PTL

\* Every notification is attributed to the key the provider was asked for,
\* whatever connections came before and whatever ids they used
\* (multi_log_stream.py:15-18).
THEOREM Spec_Atribucion == Spec => []Atribucion
<1>1. IInv => Atribucion
  BY DEF IInv
<1> QED BY <1>1, Spec_IInv, PTL

\* No subscription the provider serves is lost sight of, for any number of
\* keys, ids, requests and connections (multi_log_stream.py:112-131, 159-187).
THEOREM Spec_SinHuerfanas == Spec => []SinHuerfanas
<1>1. IInv => SinHuerfanas
  BY DEF IInv
<1> QED BY <1>1, Spec_IInv, PTL

-----------------------------------------------------------------------------
(* The live view                                                           *)

\* Disjoint parts of a set are together no more than the set.
LEMMA ParteLema ==
    ASSUME NEW D, IsFiniteSet(D), NEW V, IsFiniteSet(V), NEW P \in [V -> SUBSET D],
           \A v, w \in V : v # w => P[v] \cap P[w] = {},
           NEW f \in [V -> Int], \A v \in V : f[v] = Cardinality(P[v])
    PROVE  SumFunction(f) \in Nat /\ SumFunction(f) <= Cardinality(D)
<1>1. PICK g : EsPliegue(g, V, f)
  BY PliegueLema
<1>2. \A s \in SUBSET D : IsFiniteSet(s) /\ Cardinality(s) \in Nat /\ Cardinality(s) <= Cardinality(D)
  BY FS_Subset, FS_CardinalityType
<1> DEFINE Union(s) == UNION {P[v] : v \in s}
           F == {s \in SUBSET V : g[s] = Cardinality(Union(s))}
<1>3. {} \in F
  <2>1. Union({}) = {} /\ Cardinality({}) = 0
    BY FS_EmptySet
  <2>2. g[{}] = 0
    BY <1>1 DEF EsPliegue
  <2> QED
    BY <2>1, <2>2
<1>4. ASSUME NEW s \in SUBSET V, s # {}, \A x \in s : s \ {x} \in F PROVE s \in F
  <2>1. PICK x \in s : TRUE
    BY <1>4
  <2> DEFINE a == P[x]
             b == Union(s \ {x})
  <2>2. a \in SUBSET D /\ b \in SUBSET D /\ Union(s) = a \cup b /\ a \cap b = {}
    OBVIOUS
  <2>3. f[x] = Cardinality(a) /\ g[s \ {x}] = Cardinality(b)
    BY <1>4
  <2>4. g[s] = f[x] + g[s \ {x}]
    BY <1>1, SacarLema DEF SinOrden
  <2>5. Cardinality(a \cup b) = Cardinality(a) + Cardinality(b)
    <3> HIDE DEF a, b
    <3>1. IsFiniteSet(a) /\ IsFiniteSet(b)
      BY <1>2, <2>2
    <3>2. /\ Cardinality(a \cup b) = Cardinality(a) + Cardinality(b) - Cardinality(a \cap b)
          /\ Cardinality(a \cap b) = 0
      BY <2>2, <3>1, FS_Union, FS_EmptySet
    <3>3. Cardinality(a) \in Nat /\ Cardinality(b) \in Nat
      BY <1>2, <2>2
    <3> QED
      BY <3>2, <3>3
  <2> QED
    BY <2>2, <2>3, <2>4, <2>5
<1>5. V \in F
  <2> HIDE DEF F
  <2>1. \A s \in SUBSET V : s \in F
    BY <1>3, <1>4, InducirPartes
  <2> QED
    BY <2>1
<1>6. Union(V) \in SUBSET D
  OBVIOUS
<1>7. SumFunction(f) = g[V]
  BY <1>1 DEF EsPliegue
<1> QED
  BY <1>2, <1>5, <1>6, <1>7

\* The candles of some operations count no more than there are.
LEMMA VelasLema ==
    ASSUME NEW ops \in Seq(Operaciones)
    PROVE  LET n == SumFunction([v \in build_candles(ops) |-> v.trades])
           IN  n \in Nat /\ n <= Len(ops)
<1> DEFINE D == DOMAIN ops
           con == {i \in D : ops[i].vt > 0}
           EnVela(t) == {i \in con : ops[i].t = t}
           T == {ops[i].t : i \in con}
           Pr(t) == {(ops[i].vs * 1000) \div ops[i].vt : i \in EnVela(t)}
           Ve(t) == [time |-> t, trades |-> Cardinality(EnVela(t)), volume |-> Soles(ops, EnVela(t)),
                     high |-> Max(Pr(t)), low |-> Min(Pr(t))]
           V == {Ve(t) : t \in T}
           P == [v \in V |-> EnVela(v.time)]
           f == [v \in V |-> v.trades]
<1>1. build_candles(ops) = V
  BY DEF build_candles
<1>2. D = 1 .. Len(ops) /\ Len(ops) \in Nat
  OBVIOUS
<1>3. IsFiniteSet(D) /\ Cardinality(D) = Len(ops)
  BY <1>2, FS_Interval
<1>4. IsFiniteSet(con)
  BY <1>3, FS_Subset
<1>5. IsFiniteSet(V)
  <2> DEFINE h == [i \in con |-> Ve(ops[i].t)]
  <2>1. V = {h[i] : i \in con}
    <3> HIDE DEF Ve
    <3> QED OBVIOUS
  <2>2. DOMAIN h = con
    OBVIOUS
  <2> HIDE DEF h, V
  <2> QED
    BY <1>4, <2>1, <2>2, ImagenLema
<1>6. \A v \in V : v.time \in T /\ v = Ve(v.time) /\ v.trades = Cardinality(EnVela(v.time))
  <2> HIDE DEF EnVela, Pr, T
  <2> QED OBVIOUS
<1>7. P \in [V -> SUBSET D]
  <2> HIDE DEF V
  <2> QED OBVIOUS
<1>8. \A v, w \in V : v # w => P[v] \cap P[w] = {}
  <2> SUFFICES ASSUME NEW v \in V, NEW w \in V, v # w PROVE P[v] \cap P[w] = {}
    OBVIOUS
  <2>1. v.time # w.time
    <3> HIDE DEF Ve, V
    <3> QED BY <1>6
  <2> HIDE DEF V
  <2> QED
    BY <2>1
<1>9. f \in [V -> Int] /\ \A v \in V : f[v] = Cardinality(P[v])
  <2>1. \A t : Cardinality(EnVela(t)) \in Int
    <3> SUFFICES ASSUME NEW t PROVE Cardinality(EnVela(t)) \in Int
      OBVIOUS
    <3>1. IsFiniteSet(EnVela(t))
      BY <1>4, FS_Subset
    <3> HIDE DEF EnVela
    <3> QED BY <3>1, FS_CardinalityType
  <2> HIDE DEF V, EnVela
  <2> QED BY <2>1, <1>6
<1>10. SumFunction(f) \in Nat /\ SumFunction(f) <= Cardinality(D)
  <2> HIDE DEF V, P, f, D
  <2> QED
    BY <1>3, <1>5, <1>7, <1>8, <1>9, ParteLema
<1> QED
  BY <1>1, <1>3, <1>10

\* The wallet that is named made one of the operations, and is somebody.
LEMMA BallenaLema ==
    ASSUME NEW ops \in Seq(Operaciones), detect_whale(ops).hay
    PROVE  detect_whale(ops).quien \in {o.quien : o \in ToSet(ops)} \ {ANONIMO}
<1> DEFINE D == DOMAIN ops
           suyos == identificados(ops)
           carteras == {ops[i].quien : i \in suyos}
           So(w) == Soles(ops, DeCartera(ops, w))
           quien == CHOOSE w \in carteras : \A v \in carteras : So(v) <= So(w)
<1>1. detect_whale(ops).quien = quien /\ ~ (Cardinality(carteras) < 2)
  <2> HIDE DEF suyos
  <2> QED BY DEF detect_whale, suyos
<1>2. D = 1 .. Len(ops) /\ Len(ops) \in Nat /\ IsFiniteSet(D)
  BY FS_Interval
<1>3. IsFiniteSet(suyos) /\ suyos \subseteq D
  BY <1>2, FS_Subset DEF identificados
<1>4. \A w \in carteras : So(w) \in Int
  <2> SUFFICES ASSUME NEW w \in carteras PROVE So(w) \in Int
    OBVIOUS
  <2> DEFINE L == DeCartera(ops, w)
             f == [i \in L |-> ops[i].sol]
  <2>1. L \subseteq D /\ IsFiniteSet(L)
    BY <1>3, FS_Subset DEF DeCartera
  <2>2. f \in [L -> Int]
    <3>1. \A i \in D : ops[i] \in Operaciones
      OBVIOUS
    <3>2. \A i \in D : ops[i].sol \in Int
      BY <3>1 DEF Operaciones
    <3> HIDE DEF L, D
    <3> QED BY <2>1, <3>2
  <2>3. SumFunction(f) \in Int
    <3> HIDE DEF L, f
    <3> QED BY <2>1, <2>2, SumaLema
  <2> QED
    BY <2>3 DEF Soles
<1>5. IsFiniteSet(carteras) /\ carteras # {}
  <2>1. IsFiniteSet(carteras)
    <3> DEFINE h == [i \in suyos |-> ops[i].quien]
    <3>1. carteras = {h[i] : i \in suyos} /\ DOMAIN h = suyos
      OBVIOUS
    <3> HIDE DEF h, carteras, suyos
    <3> QED BY <1>3, <3>1, ImagenLema
  <2>2. carteras # {}
    <3>1. Cardinality({}) < 2
      <4>1. Cardinality({}) = 0
        BY FS_EmptySet
      <4> QED BY <4>1
    <3>2. ~ (Cardinality(carteras) < 2)
      BY <1>1
    <3> HIDE DEF carteras, quien
    <3> QED BY <3>1, <3>2, Zenon
  <2> QED BY <2>1, <2>2
<1>6. \E w \in carteras : \A v \in carteras : So(v) <= So(w)
  <2> DEFINE S == {So(w) : w \in carteras}
  <2>1. S \in SUBSET Int /\ S # {}
    BY <1>4, <1>5
  <2>2. IsFiniteSet(S)
    <3> DEFINE h == [w \in carteras |-> So(w)]
    <3>1. S = {h[w] : w \in carteras} /\ DOMAIN h = carteras
      OBVIOUS
    <3> HIDE DEF h, carteras, S
    <3> QED BY <1>5, <3>1, ImagenLema
  <2>3. Max(S) \in S /\ \A y \in S : y <= Max(S)
    <3> HIDE DEF S
    <3> QED BY <2>1, <2>2, MaxLema
  <2> HIDE DEF So, carteras
  <2> QED BY <2>3
<1>7. quien \in carteras
  <2> HIDE DEF So, carteras
  <2> QED BY <1>6
<1>8. carteras \subseteq {o.quien : o \in ToSet(ops)} \ {ANONIMO}
  BY <1>3 DEF identificados, ToSet
<1> QED
  BY <1>1, <1>7, <1>8

\* COMPRA is said of a curve with a way to go.
LEMMA CompraLema ==
    ASSUME NEW ops, NEW c, _recommendation(ops, c) = "COMPRA"
    PROVE  c = SIN_CURVA \/ progress_pct(c) < 80
<1> DEFINE pct == IF c = SIN_CURVA THEN 0 ELSE progress_pct(c)
<1>1. pct < 80
  BY DEF _recommendation
<1> QED
  BY <1>1
-----------------------------------------------------------------------------
(* What the operations of a token may be                                   *)

Estados ==
    [hay : BOOLEAN, eventos : Seq(Operaciones), seen : SUBSET STRING, curva : Reservas,
     acceso : 0 .. OCIO + 1, conectado : BOOLEAN, graduado : BOOLEAN, error : BOOLEAN]

\* The end of a list.
LEMMA FinalLema ==
    ASSUME NEW S, NEW s \in Seq(S), NEW n \in Nat \ {0}
    PROVE  /\ Cola1(s, n) \in Seq(S)
           /\ Len(Cola1(s, n)) = IF Len(s) > n THEN n ELSE Len(s)
<1>1. CASE Len(s) > n
  <2> DEFINE a == Len(s) - n + 1
  <2>1. a \in Nat /\ a >= 1 /\ a <= Len(s) /\ Len(s) \in Nat /\ Len(s) - a + 1 = n
    BY <1>1
  <2>2. \A i \in a .. Len(s) : s[i] \in S
    BY <2>1
  <2>3. SubSeq(s, a, Len(s)) \in Seq(S) /\ Len(SubSeq(s, a, Len(s))) = n
    <3> HIDE DEF a
    <3> QED BY <2>1, <2>2, SubSeqProperties
  <2> QED
    BY <1>1, <2>3 DEF Cola1
<1>2. CASE ~ (Len(s) > n)
  BY <1>2 DEF Cola1
<1> QED
  BY <1>1, <1>2

\* A notification leaves a state like those before it, with no fewer
\* operations.
LEMMA IngestaLema ==
    ASSUME NEW s \in Estados, NEW e \in Entregas, Len(s.eventos) <= VENTANA,
           NEW x \in _ingest(s, e)
    PROVE  x \in Estados /\ Len(x.eventos) <= VENTANA /\ Len(s.eventos) <= Len(x.eventos)
<1> DEFINE firmado == [s EXCEPT !.conectado = TRUE, !.seen = @ \cup ({e.firma} \ {SIN_FIRMA})]
           frescas == IF e.curva # << >> THEN e.curva ELSE e.swap
           todas == Cola1(s.eventos \o frescas, VENTANA)
           con == [firmado EXCEPT !.eventos = todas, !.error = FALSE, !.curva = CurvaVista(Last(todas)),
                                  !.graduado = @ \/ (e.curva = << >> /\ e.migra)]
<1>1. VENTANA \in Nat \ {0} /\ e \in Notificaciones
  BY VistaAssumption
<1>2. /\ s.eventos \in Seq(Operaciones) /\ Len(s.eventos) \in Nat
      /\ e.curva \in Seq(Operaciones) /\ e.swap \in Seq(Operaciones) /\ e.firma \in STRING /\ e.migra \in BOOLEAN
  <2>1. s.eventos \in Seq(Operaciones)
    BY DEF Estados
  <2>2. e.curva \in Seq(Operaciones) /\ e.swap \in Seq(Operaciones) /\ e.firma \in STRING /\ e.migra \in BOOLEAN
    BY <1>1 DEF Notificaciones
  <2> QED
    BY <2>1, <2>2
<1>3. [s EXCEPT !.conectado = TRUE] \in Estados /\ [s EXCEPT !.conectado = TRUE].eventos = s.eventos
  BY DEF Estados
<1>4. /\ firmado \in Estados /\ firmado.eventos = s.eventos
      /\ [firmado EXCEPT !.error = TRUE] \in Estados /\ [firmado EXCEPT !.error = TRUE].eventos = s.eventos
  BY <1>2 DEF Estados
<1>5. ASSUME frescas # << >>
      PROVE  con \in Estados /\ con.eventos = todas /\ Len(todas) <= VENTANA /\ Len(s.eventos) <= Len(todas)
  <2>1. frescas \in Seq(Operaciones) /\ Len(frescas) \in Nat /\ Len(frescas) >= 1
    BY <1>2, <1>5
  <2>2. s.eventos \o frescas \in Seq(Operaciones) /\ Len(s.eventos \o frescas) = Len(s.eventos) + Len(frescas)
    <3> HIDE DEF frescas
    <3> QED BY <1>2, <2>1, ConcatProperties
  <2>3. /\ todas \in Seq(Operaciones)
        /\ Len(todas) = IF Len(s.eventos \o frescas) > VENTANA THEN VENTANA ELSE Len(s.eventos \o frescas)
    <3> HIDE DEF frescas
    <3> QED BY <1>1, <2>2, FinalLema
  <2>4. Len(todas) \in Nat /\ Len(todas) <= VENTANA /\ Len(s.eventos) <= Len(todas) /\ Len(todas) >= 1
    <3> HIDE DEF todas, frescas
    <3> QED BY <1>1, <1>2, <2>1, <2>2, <2>3
  <2>5. Last(todas) \in Operaciones
    <3> HIDE DEF todas
    <3>1. todas \in Seq(Operaciones) /\ Len(todas) \in 1 .. Len(todas)
      <4>1. Len(todas) \in 1 .. Len(todas)
        BY <2>4
      <4> QED BY <2>3, <4>1
    <3>2. todas[Len(todas)] \in Operaciones
      BY <3>1, ElementOfSeq
    <3> QED BY <3>2 DEF Last
  <2>6. CurvaVista(Last(todas)) \in Reservas
    <3> HIDE DEF todas
    <3> QED BY <2>5 DEF CurvaVista, Reservas, Operaciones, Mayor
  <2>7. con \in Estados /\ con.eventos = todas
    <3> HIDE DEF todas, firmado
    <3> QED BY <1>2, <1>4, <2>3, <2>6 DEF Estados
  <2> QED
    BY <2>4, <2>7
<1>6. \/ x = [s EXCEPT !.conectado = TRUE]
      \/ x = firmado
      \/ x = [firmado EXCEPT !.error = TRUE]
      \/ frescas # << >> /\ x = con
      \/ frescas # << >> /\ \E q \in SUBSET con.seen : x = [con EXCEPT !.seen = q]
  BY DEF _ingest, kSubset
<1>7. CASE x = [s EXCEPT !.conectado = TRUE] \/ x = firmado \/ x = [firmado EXCEPT !.error = TRUE]
  <2>1. x \in Estados /\ x.eventos = s.eventos
    <3> HIDE DEF firmado
    <3> QED BY <1>3, <1>4, <1>7
  <2> QED BY <1>2, <2>1
<1>8. CASE frescas # << >> /\ x = con
  <2> HIDE DEF con, todas, frescas
  <2> QED BY <1>5, <1>8
<1>9. CASE frescas # << >> /\ \E q \in SUBSET con.seen : x = [con EXCEPT !.seen = q]
  <2> HIDE DEF con, todas, frescas
  <2>1. PICK q \in SUBSET con.seen : x = [con EXCEPT !.seen = q]
    BY <1>9
  <2>2. x \in Estados /\ x.eventos = con.eventos
    BY <1>5, <1>9, <2>1 DEF Estados
  <2> QED
    BY <1>5, <1>9, <2>2
<1> QED
  BY <1>6, <1>7, <1>8, <1>9
-----------------------------------------------------------------------------
(* The inductive invariant                                                 *)

\* The candles a request has drawn count no more operations than there are:
\* those that have arrived since only take the place of older ones.
VistaInv ==
    /\ VistaTypeOK
    /\ \A m \in Mints : previo[m].trades <= Len(estado[m].eventos)

LEMMA VelasDe ==
    ASSUME VistaInv, NEW m \in Mints, Velas(m)
    PROVE  /\ previo' \in [Mints -> [trades : Nat, curva : Reservas]]
           /\ \A n \in Mints : previo'[n].trades <= Len(estado[n].eventos)
<1> DEFINE ops == estado[m].eventos
           n1 == SumFunction([v \in build_candles(ops) |-> v.trades])
           r == [trades |-> n1, curva |-> estado[m].curva]
<1>1. ops \in Seq(Operaciones) /\ estado[m].curva \in Reservas
  BY DEF VistaInv, VistaTypeOK
<1>2. n1 \in Nat /\ n1 <= Len(ops)
  <2> HIDE DEF ops
  <2> QED BY <1>1, VelasLema
<1>3. previo' = [previo EXCEPT ![m] = r]
  BY DEF Velas
<1>4. r \in [trades : Nat, curva : Reservas] /\ r.trades = n1
  <2> HIDE DEF n1
  <2> QED BY <1>1, <1>2
<1>5. previo \in [Mints -> [trades : Nat, curva : Reservas]]
  BY DEF VistaInv, VistaTypeOK
<1> HIDE DEF r, n1
<1> QED
  BY <1>2, <1>3, <1>4, <1>5 DEF VistaInv

\* To watch a token leaves its operations as they were.
LEMMA VigilarLema ==
    ASSUME VistaInv, NEW m \in Mints, watch(m)
    PROVE  /\ estado' \in [Mints -> Estados]
           /\ \A n \in Mints : estado'[n].eventos = estado[n].eventos
           /\ tarea' \in [Mints -> {"no", "vigila", "cierra", "acabada"}]
           /\ consumidor' \in [Mints -> {"lee", "roto"}]
<1>1. 0 \in 0 .. OCIO + 1
  <2>1. OCIO \in Nat
    BY VistaAssumption
  <2> QED BY <2>1
<1>2. estado \in [Mints -> Estados]
  BY DEF VistaInv, VistaTypeOK, Estados
<1>3. estado' = [estado EXCEPT ![m] = [estado[m] EXCEPT !.hay = TRUE, !.acceso = 0]]
  BY <1>2 DEF watch
<1>4. /\ [estado[m] EXCEPT !.hay = TRUE, !.acceso = 0] \in Estados
      /\ [estado[m] EXCEPT !.hay = TRUE, !.acceso = 0].eventos = estado[m].eventos
  BY <1>1, <1>2 DEF Estados
<1>5. /\ estado' \in [Mints -> Estados]
      /\ \A n \in Mints : estado'[n].eventos = estado[n].eventos
  BY <1>2, <1>3, <1>4
<1> QED
  BY <1>5 DEF watch, VistaInv, VistaTypeOK

\* The tokens that were asked for stay under their limit.
LEMMA VistosLema ==
    ASSUME VistaInv, NEW m \in Mints
    PROVE  /\ ConMint(m) \in Seq([mint : Mints, edad : 0 .. ESPERA_PRIMERA])
           /\ Len(ConMint(m)) <= MAX_VISTOS
           /\ EdadDe(m) \in 0 .. ESPERA_PRIMERA
<1> DEFINE S == [mint : Mints, edad : 0 .. ESPERA_PRIMERA]
           v == Append(vistos, [mint |-> m, edad |-> 0])
           suyas == {i \in DOMAIN vistos : vistos[i].mint = m}
<1>1. ESPERA_PRIMERA \in Nat \ {0} /\ MAX_VISTOS \in Nat \ {0}
  BY VistaAssumption
<1>2. vistos \in Seq(S) /\ Len(vistos) <= MAX_VISTOS
  BY DEF VistaInv, VistaTypeOK
<1>3. [mint |-> m, edad |-> 0] \in S
  BY <1>1
<1>4. v \in Seq(S)
  BY <1>2, <1>3, AppendProperties
<1>5. Cola1(v, MAX_VISTOS) \in Seq(S) /\ Len(Cola1(v, MAX_VISTOS)) <= MAX_VISTOS
  <2> HIDE DEF v, S
  <2>1. /\ Cola1(v, MAX_VISTOS) \in Seq(S)
        /\ Len(Cola1(v, MAX_VISTOS)) = IF Len(v) > MAX_VISTOS THEN MAX_VISTOS ELSE Len(v)
    BY <1>1, <1>4, FinalLema
  <2>2. Len(v) \in Nat
    BY <1>4
  <2> QED BY <1>1, <2>1, <2>2
<1>6. EdadDe(m) \in 0 .. ESPERA_PRIMERA
  <2>1. CASE suyas = {}
    BY <1>1, <2>1 DEF EdadDe
  <2>2. CASE suyas # {}
    <3> DEFINE i == CHOOSE i \in suyas : TRUE
    <3>1. i \in DOMAIN vistos
      BY <2>2
    <3>2. vistos[i] \in S
      <4> HIDE DEF i, S
      <4> QED BY <1>2, <3>1
    <3> HIDE DEF i
    <3>3. vistos[i].edad \in 0 .. ESPERA_PRIMERA
      BY <3>2
    <3>4. EdadDe(m) = vistos[i].edad
      BY <2>2 DEF EdadDe, i
    <3> QED
      BY <3>3, <3>4
  <2> QED
    BY <2>1, <2>2
<1> QED
  BY <1>2, <1>5, <1>6 DEF ConMint

\* and grow older up to the longest wait.
LEMMA EdadesLema ==
    ASSUME NEW e \in Nat, NEW v \in Seq([mint : Mints, edad : 0 .. e]),
           NEW w, w = [i \in DOMAIN v |-> [v[i] EXCEPT !.edad = Menor(@ + 1, e)]]
    PROVE  w \in Seq([mint : Mints, edad : 0 .. e]) /\ Len(w) = Len(v)
<1> DEFINE S == [mint : Mints, edad : 0 .. e]
           Mas(x) == [x EXCEPT !.edad = Menor(@ + 1, e)]
<1>1. \A x \in S : Mas(x) \in S
  <2> SUFFICES ASSUME NEW x \in S PROVE Mas(x) \in S
    OBVIOUS
  <2>1. x.edad + 1 \in Nat /\ Menor(x.edad + 1, e) \in 0 .. e
    BY DEF Menor
  <2> QED
    BY <2>1
<1>2. DOMAIN v = 1 .. Len(v) /\ Len(v) \in Nat /\ \A i \in DOMAIN v : v[i] \in S
  <2>1. v \in Seq(S)
    OBVIOUS
  <2> HIDE DEF S
  <2> QED BY <2>1
<1>3. DOMAIN w = DOMAIN v /\ \A i \in DOMAIN v : w[i] = Mas(v[i])
  OBVIOUS
<1>4. \A i \in 1 .. Len(v) : w[i] \in S
  <2> HIDE DEF S, Mas
  <2> QED BY <1>1, <1>2, <1>3
<1>5. w = [i \in 1 .. Len(v) |-> w[i]]
  <2> HIDE DEF S, Mas
  <2> QED BY <1>2
<1>6. w \in [1 .. Len(v) -> S]
  <2> HIDE DEF S, Mas
  <2> QED BY <1>4, <1>5, Zenon
<1>7. w \in Seq(S) /\ Len(w) = Len(v)
  <2> HIDE DEF S, Mas
  <2> QED BY <1>2, <1>6, IsASeq
<1> QED
  BY <1>7

LEMMA VistaInicial ==
    ASSUME InitVista
    PROVE  VistaInv
<1>1. << >> \in Seq(Operaciones) /\ << >> \in Seq([mint : Mints, edad : 0 .. ESPERA_PRIMERA])
  OBVIOUS
<1>2. OCIO \in Nat /\ VENTANA \in Nat /\ MAX_VISTOS \in Nat
  BY VistaAssumption
<1>3. SIN_CURVA \in Reservas
  BY DEF SIN_CURVA, Reservas
<1> QED
  BY <1>1, <1>2, <1>3 DEF InitVista, VistaInv, VistaTypeOK, Nuevo, Nada1

LEMMA VistaPaso ==
    ASSUME VistaInv, [NextVista]_varsVista
    PROVE  VistaInv'
<1> USE DEF VistaInv, VistaTypeOK
<1>0. /\ {OCIO, ESPERA_PRIMERA, ESPERA_SIMULA, MAX_VISTOS, VENTANA, FIRMAS} \subseteq Nat \ {0}
  BY VistaAssumption
<1>1. CASE UNCHANGED varsVista
  BY <1>1 DEF varsVista
<1>2. CASE RelojVista
  <2>1. OCIO \in Nat /\ ESPERA_PRIMERA \in Nat
    BY <1>0
  <2>2. \A m \in Mints : estado'[m] \in Estados /\ estado'[m].eventos = estado[m].eventos
    <3> SUFFICES ASSUME NEW m \in Mints
                 PROVE  estado'[m] \in Estados /\ estado'[m].eventos = estado[m].eventos
      OBVIOUS
    <3>1. estado[m] \in Estados
      BY DEF Estados
    <3>2. CASE estado[m].hay /\ ~Ocioso1(m)
      <4> DEFINE a == estado[m].acceso
      <4>1. a \in 0 .. OCIO + 1 /\ ~ (a > OCIO)
        BY <3>1, <3>2 DEF Estados, Ocioso1
      <4>2. a + 1 \in 0 .. OCIO + 1
        <5> HIDE DEF a
        <5> QED BY <2>1, <4>1
      <4>3. estado'[m] = [estado[m] EXCEPT !.acceso = a + 1]
        BY <1>2, <3>2 DEF RelojVista
      <4> HIDE DEF a
      <4> QED BY <3>1, <4>2, <4>3 DEF Estados
    <3>3. CASE ~ (estado[m].hay /\ ~Ocioso1(m))
      BY <1>2, <3>1, <3>3 DEF RelojVista
    <3> QED
      BY <3>2, <3>3
  <2>3. estado' \in [Mints -> Estados]
    BY <1>2, <2>2 DEF RelojVista
  <2>4. /\ vistos' \in Seq([mint : Mints, edad : 0 .. ESPERA_PRIMERA])
        /\ Len(vistos') = Len(vistos)
    <3>1. vistos' = [i \in DOMAIN vistos |-> [vistos[i] EXCEPT !.edad = Menor(@ + 1, ESPERA_PRIMERA)]]
      BY <1>2 DEF RelojVista
    <3>2. vistos \in Seq([mint : Mints, edad : 0 .. ESPERA_PRIMERA])
      OBVIOUS
    <3> HIDE DEF VistaInv, VistaTypeOK
    <3> QED
      BY <2>1, <3>1, <3>2, EdadesLema, Zenon
  <2>5. plazo' \in [Mints -> Nat]
    <3>1. \A m \in Mints : Mayor(plazo[m] - 1, 0) \in Nat
      BY DEF Mayor
    <3> QED BY <1>2, <3>1 DEF RelojVista
  <2>6. UNCHANGED <<tarea, consumidor, mirada, peticion, previo>>
    BY <1>2 DEF RelojVista
  <2> QED
    BY <2>2, <2>3, <2>4, <2>5, <2>6 DEF Estados
<1>3. ASSUME NEW m \in Mints, Abrir(m) \/ Apartar(m) PROVE VistaInv'
  BY <1>3 DEF Abrir, Apartar
<1>4. ASSUME NEW m \in Mints, Pedir(m) PROVE VistaInv'
  <2>1. watch(m) /\ vistos' = ConMint(m) /\ mirada' = mirada
    BY <1>4 DEF Pedir
  <2>2. /\ estado' \in [Mints -> Estados]
        /\ \A n \in Mints : estado'[n].eventos = estado[n].eventos
        /\ tarea' \in [Mints -> {"no", "vigila", "cierra", "acabada"}]
        /\ consumidor' \in [Mints -> {"lee", "roto"}]
    BY <2>1, VigilarLema
  <2>3. /\ vistos' \in Seq([mint : Mints, edad : 0 .. ESPERA_PRIMERA]) /\ Len(vistos') <= MAX_VISTOS
        /\ EdadDe(m) \in 0 .. ESPERA_PRIMERA
    BY <2>1, VistosLema
  <2>4. /\ peticion' \in [Mints -> {"nada", "espera", "grado", "cuenta", "simula"}]
        /\ plazo' \in [Mints -> Nat]
        /\ previo' \in [Mints -> [trades : Nat, curva : Reservas]]
        /\ \A n \in Mints : previo'[n].trades <= Len(estado[n].eventos)
    <3>1. CASE Vacio1(m) /\ EdadDe(m) < ESPERA_PRIMERA
      <4>1. ESPERA_PRIMERA - EdadDe(m) \in Nat
        BY <1>0, <2>3, <3>1
      <4> QED BY <1>4, <3>1, <4>1 DEF Pedir
    <3>2. CASE ~ (Vacio1(m) /\ EdadDe(m) < ESPERA_PRIMERA)
      <4>1. Velas(m) /\ plazo' = plazo /\ peticion' = [peticion EXCEPT ![m] = "grado"]
        BY <1>4, <3>2 DEF Pedir
      <4> QED BY <4>1, VelasDe
    <3> QED BY <3>1, <3>2
  <2> QED
    BY <2>1, <2>2, <2>3, <2>4 DEF Estados
<1>5. ASSUME NEW m \in Mints, Simular(m) PROVE VistaInv'
  <2>1. watch(m)
    BY <1>5 DEF Simular
  <2>2. /\ estado' \in [Mints -> Estados]
        /\ \A n \in Mints : estado'[n].eventos = estado[n].eventos
        /\ tarea' \in [Mints -> {"no", "vigila", "cierra", "acabada"}]
        /\ consumidor' \in [Mints -> {"lee", "roto"}]
    BY <2>1, VigilarLema
  <2>3. ESPERA_SIMULA \in Nat
    BY <1>0
  <2>4. /\ peticion' \in [Mints -> {"nada", "espera", "grado", "cuenta", "simula"}]
        /\ plazo' \in [Mints -> Nat]
        /\ UNCHANGED <<vistos, mirada, previo>>
    BY <1>5, <2>3 DEF Simular
  <2> QED
    BY <2>2, <2>4 DEF Estados
<1>6. ASSUME NEW m \in Mints, Rehusar(m) PROVE VistaInv'
  BY <1>6 DEF Rehusar
<1>7. ASSUME NEW m \in Mints, Servir(m) PROVE VistaInv'
  <2>1. Velas(m) /\ UNCHANGED <<estado, tarea, consumidor, vistos, mirada, plazo>>
        /\ peticion' = [peticion EXCEPT ![m] = "grado"]
    BY <1>7 DEF Servir
  <2>2. /\ previo' \in [Mints -> [trades : Nat, curva : Reservas]]
        /\ \A n \in Mints : previo'[n].trades <= Len(estado[n].eventos)
    BY <2>1, VelasDe
  <2> QED
    BY <2>1, <2>2
<1>8. ASSUME NEW m \in Mints, Grado(m) PROVE VistaInv'
  BY <1>8 DEF Grado
<1>9. ASSUME NEW m \in Mints, Cuenta(m) PROVE VistaInv'
  <2>1. Nada1 \in [trades : Nat, curva : Reservas] /\ Nada1.trades = 0
    BY DEF Nada1, SIN_CURVA, Reservas
  <2>2. \A n \in Mints : Len(estado[n].eventos) \in Nat
    OBVIOUS
  <2> QED
    BY <1>9, <2>1, <2>2 DEF Cuenta
<1>10. ASSUME NEW m \in Mints, Simulado(m) PROVE VistaInv'
  BY <1>10 DEF Simulado
<1>11. ASSUME NEW m \in Mints, Soltar(m) PROVE VistaInv'
  <2>1. estado[m] \in Estados
    BY DEF Estados
  <2> DEFINE x == [estado[m] EXCEPT !.conectado = FALSE, !.error = @ \/ consumidor[m] = "roto"]
  <2>2. x \in Estados /\ x.eventos = estado[m].eventos
    BY <2>1 DEF Estados
  <2>3. estado' = [estado EXCEPT ![m] = x]
    BY <1>11 DEF Soltar
  <2>4. /\ tarea' \in [Mints -> {"no", "vigila", "cierra", "acabada"}]
        /\ UNCHANGED <<consumidor, vistos, mirada, peticion, plazo, previo>>
    BY <1>11 DEF Soltar
  <2> HIDE DEF x
  <2> QED
    BY <2>2, <2>3, <2>4 DEF Estados
<1>12. ASSUME NEW m \in Mints, Terminar(m) PROVE VistaInv'
  BY <1>12 DEF Terminar
<1>13. ASSUME NEW m \in Mints, NEW e \in Entregas, Notificar(m, e) PROVE VistaInv'
  <2>1. PICK x \in _ingest(estado[m], e) : estado' = [estado EXCEPT ![m] = x]
    BY <1>13 DEF Notificar
  <2>2. estado[m] \in Estados /\ Len(estado[m].eventos) <= VENTANA
    BY DEF Estados
  <2>3. x \in Estados /\ Len(x.eventos) <= VENTANA /\ Len(estado[m].eventos) <= Len(x.eventos)
    <3> HIDE DEF VistaInv, VistaTypeOK
    <3> QED BY <2>1, <2>2, IngestaLema
  <2>4. UNCHANGED <<tarea, consumidor, vistos, mirada, peticion, plazo, previo>>
    BY <1>13 DEF Notificar
  <2> QED
    BY <2>1, <2>3, <2>4 DEF Estados
<1> QED
  BY <1>1, <1>2, <1>3, <1>4, <1>5, <1>6, <1>7, <1>8, <1>9, <1>10, <1>11, <1>12, <1>13
     DEF NextVista, Contestar, Vigilar
LEMMA VistaSiempre == SpecVista => []VistaInv
<1>1. InitVista => VistaInv
  BY VistaInicial
<1>2. VistaInv /\ [NextVista]_varsVista => VistaInv'
  BY VistaPaso
<1> QED
  BY <1>1, <1>2, PTL DEF SpecVista

\* The live view keeps its types for any tokens, notifications and limits:
\* no list of operations or of tokens grows beyond its own.
THEOREM Vista_TypeOK == SpecVista => []VistaTypeOK
<1>1. VistaInv => VistaTypeOK
  BY DEF VistaInv
<1> QED
  BY <1>1, VistaSiempre, PTL

\* COMPRA is said of no account that is nearly sold.
LEMMA CuentaLema ==
    ASSUME NEW ops, NEW m, NEW c, c.curva \in Reservas, ~c.completa, c.curva.vt > 0,
           _recommendation(ops, Elegida(m, c)) = "COMPRA"
    PROVE  progress_pct(c.curva) < 80
<1> DEFINE k == c.curva
           cu == Elegida(m, c)
<1>1. k.vs \in Nat /\ k.vt \in Nat /\ k.rt \in Nat /\ k.sup \in Nat /\ k.vt > 0
  BY DEF Reservas
<1>2. k # SIN_CURVA
  BY <1>1 DEF SIN_CURVA
<1>3. cu.vt = k.vt /\ cu.rt = k.rt /\ (k.sup > 0 => cu.sup = k.sup)
  BY <1>1, <1>2 DEF Elegida, Mayor
<1>4. cu # SIN_CURVA
  BY <1>1, <1>3 DEF SIN_CURVA
<1>5. progress_pct(cu) < 80
  <2> HIDE DEF cu
  <2> QED BY <1>4, CompraLema DEF cu
<1>6. CASE k.sup > 0
  <2>1. progress_pct(cu) = progress_pct(k)
    <3> HIDE DEF cu, k
    <3> QED BY <1>3, <1>6 DEF progress_pct
  <2> QED
    BY <1>5, <2>1
<1>7. CASE k.sup = 0
  BY <1>1, <1>7 DEF progress_pct
<1> QED
  BY <1>1, <1>6, <1>7

\* An answer holds together although operations arrive, and the oldest leave,
\* between its candles and the rest of it, for any number of operations and
\* any curves, and advises to buy nothing whose account says that it is nearly
\* sold (token_live, main.py:355-493).
THEOREM Vista_RespuestaFiel == SpecVista => []RespuestaFiel
<1>1. ASSUME VistaInv PROVE RespuestaFiel
  <2> SUFFICES ASSUME NEW m \in Mints, NEW c \in Leidas
               PROVE  LET r == Respuesta(m, c)
                      IN  /\ r.candles <= r.trades
                          /\ r.whale.hay => r.whale.quien \in r.unique_traders \ {ANONIMO}
                          /\ r.recommendation = "COMPRA" /\ ~c.completa /\ c.curva.vt > 0
                                => progress_pct(c.curva) < 80
    BY DEF RespuestaFiel
  <2> DEFINE ops == estado[m].eventos
             cu == Elegida(m, c)
             r == Respuesta(m, c)
  <2>1. ops \in Seq(Operaciones) /\ previo[m].trades <= Len(ops)
    BY <1>1 DEF VistaInv, VistaTypeOK
  <2>2. /\ r.candles = previo[m].trades /\ r.trades = Len(ops) /\ r.curva = cu
        /\ r.whale = detect_whale(ops) /\ r.unique_traders = {o.quien : o \in ToSet(ops)}
        /\ r.recommendation = _recommendation(ops, cu)
    BY DEF Respuesta
  <2>3. detect_whale(ops).hay => detect_whale(ops).quien \in {o.quien : o \in ToSet(ops)} \ {ANONIMO}
    <3> HIDE DEF ops
    <3> QED BY <2>1, BallenaLema
  <2>4. _recommendation(ops, cu) = "COMPRA" /\ ~c.completa /\ c.curva.vt > 0 => progress_pct(c.curva) < 80
    <3>1. c.curva \in Reservas
      BY VistaAssumption DEF Leidas, SIN_CURVA, Reservas
    <3> HIDE DEF ops
    <3> QED BY <3>1, CuentaLema
  <2> HIDE DEF ops, cu, r
  <2>5. /\ r.candles <= r.trades
        /\ r.whale.hay => r.whale.quien \in r.unique_traders \ {ANONIMO}
        /\ r.recommendation = "COMPRA" /\ ~c.completa /\ c.curva.vt > 0 => progress_pct(c.curva) < 80
    BY <2>1, <2>2, <2>3, <2>4
  <2> QED
    BY <2>5 DEF r
<1> QED
  BY <1>1, VistaSiempre, PTL
=============================================================================
