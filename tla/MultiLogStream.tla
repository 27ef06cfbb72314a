--------------------------- MODULE MultiLogStream ---------------------------
(***************************************************************************)
(* MultiLogStream (packages/solana/mit_solana/multi_log_stream.py): the    *)
(* log subscriptions of many keys over one WebSocket connection.  One task *)
(* iterates the stream; another calls watch() and unwatch() while the      *)
(* iterator is suspended in connect(), in a send() of the loop that        *)
(* subscribes everything again, in recv() or in the back-off's sleep.      *)
(*                                                                         *)
(* The provider and the network are environment.  The provider answers in  *)
(* order, its subscription ids are only unique within a connection, and    *)
(* it may reject a subscription.  A connection may break at any moment;    *)
(* what was travelling to the provider is then lost, and the client learns *)
(* of it from its next send or recv (or from the silence).                 *)
(***************************************************************************)
EXTENDS Integers, Sequences, Functions

CONSTANTS
    Claves,          \* the keys (mints) one may follow
    Subs,            \* the provider's subscription ids
    MaxPeticiones,   \* bound: no watch/unwatch once this many ids are used
    MaxCaidas,       \* bound: connections that break
    MaxCola          \* bound: notifications travelling to the client

ASSUME SubsAssumption == Subs \subseteq Nat
ASSUME CotasAssumption == MaxPeticiones \in Nat /\ MaxCaidas \in Nat /\ MaxCola \in Nat

VARIABLES
    wanted,         \* _wanted
    conectado,      \* _connection is not None
    requestToKey,   \* _request_to_key
    subToKey,       \* _sub_to_key
    keyToSub,       \* _key_to_sub
    requestId,      \* _request_id
    fase,           \* where the iterator is
    porEnviar,      \* keys the resubscribing loop has still to send
    viva,           \* network: the connection works
    alServidor,     \* network: messages travelling to the provider
    alCliente,      \* network: messages travelling to the client
    dadas,          \* provider: subscriptions accepted on this connection
    servidor,       \* provider: those of them it still serves
    rechazadas,     \* ghost: keys rejected on this connection
    caidas

tablas == <<requestToKey, subToKey, keyToSub>>
iterador == <<fase, porEnviar, conectado>>
proveedor == <<dadas, servidor, rechazadas>>
vars == <<wanted, tablas, requestId, iterador, viva, alServidor, alCliente,
          proveedor, caidas>>

Con(f, k, v) == [x \in DOMAIN f \cup {k} |-> IF x = k THEN v ELSE f[x]]
Sin(f, k) == Restrict(f, DOMAIN f \ {k})
Vacia == [x \in {} |-> x]

Activas == DOMAIN keyToSub

Alta(id, k) == [tipo |-> "logsSubscribe", id |-> id, clave |-> k]
Baja(s) == [tipo |-> "logsUnsubscribe", sub |-> s]
Ack(id, s) == [tipo |-> "result", id |-> id, sub |-> s]
Rechazo(id) == [tipo |-> "error", id |-> id]
Aviso(s) == [tipo |-> "logsNotification", sub |-> s]

Init ==
    /\ wanted = {}
    /\ requestToKey = Vacia
    /\ subToKey = Vacia
    /\ keyToSub = Vacia
    /\ requestId = 0
    /\ fase = "fuera"
    /\ porEnviar = {}
    /\ conectado = FALSE
    /\ viva = FALSE
    /\ alServidor = <<>>
    /\ alCliente = <<>>
    /\ dadas = Vacia
    /\ servidor = {}
    /\ rechazadas = {}
    /\ caidas = 0

-----------------------------------------------------------------------------
(* The iterator                                                            *)

\* Mutant: what the last connection confirmed is kept.
MutForgetSubscriptions == requestToKey' = Vacia /\ UNCHANGED <<subToKey, keyToSub>>

ForgetSubscriptions == requestToKey' = Vacia /\ subToKey' = Vacia /\ keyToSub' = Vacia

\* Mutant: after a reconnection only what the caller asks for is subscribed.
MutPorResuscribir == {}

PorResuscribir == wanted

FaseTras(pendientes) == IF pendientes = {} THEN "escucha" ELSE "resuscribe"

\* connect() succeeds; there is no await between it and sorted(_wanted).
Conectar ==
    /\ fase = "fuera"
    /\ conectado' = TRUE
    /\ ForgetSubscriptions
    /\ porEnviar' = PorResuscribir
    /\ fase' = FaseTras(PorResuscribir)
    /\ viva' = TRUE
    /\ dadas' = Vacia
    /\ servidor' = {}
    /\ rechazadas' = {}
    /\ UNCHANGED <<wanted, requestId, alServidor, alCliente, caidas>>

\* _send_subscribe: the request is noted before the send, which fails if the
\* connection is broken.
SendSubscribe(k) ==
    /\ requestId' = requestId + 1
    /\ requestToKey' = Con(requestToKey, requestId + 1, k)
    /\ alServidor' = IF viva THEN Append(alServidor, Alta(requestId + 1, k))
                     ELSE alServidor

\* The loop goes through the keys of its own sorted copy, whatever has been
\* unwatched since; the order is of no consequence here.
Resuscribir(k) ==
    /\ fase = "resuscribe"
    /\ viva
    /\ k \in porEnviar
    /\ SendSubscribe(k)
    /\ porEnviar' = porEnviar \ {k}
    /\ fase' = FaseTras(porEnviar \ {k})
    /\ UNCHANGED <<wanted, conectado, subToKey, keyToSub, viva, alCliente,
                   proveedor, caidas>>

RecibirDe(tipo) ==
    /\ fase = "escucha"
    /\ alCliente # <<>>
    /\ Head(alCliente).tipo = tipo
    /\ alCliente' = Tail(alCliente)
    /\ UNCHANGED <<wanted, requestId, iterador, viva, alServidor, proveedor, caidas>>

\* _handle_ack, with a result
RecibirAck ==
    /\ RecibirDe("result")
    /\ LET ack == Head(alCliente) IN
         IF ack.id \in DOMAIN requestToKey
         THEN LET k == requestToKey[ack.id] IN
                /\ requestToKey' = Sin(requestToKey, ack.id)
                /\ subToKey' = Con(subToKey, ack.sub, k)
                /\ keyToSub' = Con(keyToSub, k, ack.sub)
         ELSE UNCHANGED tablas

\* _handle_ack, with an error: noted, and not asked for again
RecibirRechazo ==
    /\ RecibirDe("error")
    /\ requestToKey' = Sin(requestToKey, Head(alCliente).id)
    /\ UNCHANGED <<subToKey, keyToSub>>

\* _to_notification: the key is looked up in the table, or the notification
\* is counted as unmapped.
RecibirAviso ==
    /\ RecibirDe("logsNotification")
    /\ UNCHANGED tablas

\* A send or a recv fails, or nothing arrives in silence_timeout: the
\* connection is dropped, the tables stay as they are until the next one.
Caer ==
    /\ fase # "fuera"
    /\ ~viva
    /\ fase' = "fuera"
    /\ porEnviar' = {}
    /\ conectado' = FALSE
    /\ alCliente' = <<>>
    /\ UNCHANGED <<wanted, tablas, requestId, viva, alServidor, proveedor, caidas>>

-----------------------------------------------------------------------------
(* The caller                                                              *)

Watch(k) ==
    /\ requestId < MaxPeticiones
    /\ k \notin wanted
    /\ wanted' = wanted \cup {k}
    /\ IF conectado THEN SendSubscribe(k)
       ELSE UNCHANGED <<requestId, requestToKey, alServidor>>
    /\ UNCHANGED <<subToKey, keyToSub, iterador, viva, alCliente, proveedor, caidas>>

\* Mutant: the provider is not told.
MutSendUnsubscribe(s) == UNCHANGED <<requestId, alServidor>>

\* The send's exceptions are suppressed.
SendUnsubscribe(s) ==
    IF conectado
    THEN /\ requestId' = requestId + 1
         /\ alServidor' = IF viva THEN Append(alServidor, Baja(s)) ELSE alServidor
    ELSE UNCHANGED <<requestId, alServidor>>

Unwatch(k) ==
    /\ requestId < MaxPeticiones
    /\ k \in wanted \cup Activas
    /\ wanted' = wanted \ {k}
    /\ IF k \in Activas
       THEN /\ subToKey' = Sin(subToKey, keyToSub[k])
            /\ keyToSub' = Sin(keyToSub, k)
            /\ SendUnsubscribe(keyToSub[k])
       ELSE UNCHANGED <<subToKey, keyToSub, requestId, alServidor>>
    /\ UNCHANGED <<requestToKey, iterador, viva, alCliente, proveedor, caidas>>

-----------------------------------------------------------------------------
(* The provider and the network                                            *)

Cliente == <<wanted, tablas, requestId, iterador, viva, caidas>>

Atender(tipo) ==
    /\ alServidor # <<>>
    /\ Head(alServidor).tipo = tipo
    /\ alServidor' = Tail(alServidor)
    /\ UNCHANGED Cliente

Aceptar(s) ==
    /\ Atender("logsSubscribe")
    /\ s \in Subs \ DOMAIN dadas
    /\ dadas' = Con(dadas, s, Head(alServidor).clave)
    /\ servidor' = servidor \cup {s}
    /\ alCliente' = Append(alCliente, Ack(Head(alServidor).id, s))
    /\ UNCHANGED rechazadas

Rechazar ==
    /\ Atender("logsSubscribe")
    /\ rechazadas' = rechazadas \cup {Head(alServidor).clave}
    /\ alCliente' = Append(alCliente, Rechazo(Head(alServidor).id))
    /\ UNCHANGED <<dadas, servidor>>

\* The answer names no pending request, so _handle_ack ignores it.
DarDeBaja ==
    /\ Atender("logsUnsubscribe")
    /\ servidor' = servidor \ {Head(alServidor).sub}
    /\ UNCHANGED <<dadas, rechazadas, alCliente>>

Avisar(s) ==
    /\ s \in servidor
    /\ Len(alCliente) < MaxCola
    /\ alCliente' = Append(alCliente, Aviso(s))
    /\ UNCHANGED <<Cliente, alServidor, proveedor>>

Romper ==
    /\ viva
    /\ caidas < MaxCaidas
    /\ caidas' = caidas + 1
    /\ viva' = FALSE
    /\ alServidor' = <<>>
    /\ servidor' = {}
    /\ UNCHANGED <<wanted, tablas, requestId, iterador, alCliente, dadas, rechazadas>>

Iterador ==
    \/ Conectar
    \/ \E k \in Claves : Resuscribir(k)
    \/ RecibirAck
    \/ RecibirRechazo
    \/ RecibirAviso
    \/ Caer

Next ==
    \/ Iterador
    \/ \E k \in Claves : Watch(k) \/ Unwatch(k)
    \/ \E s \in Subs : Aceptar(s) \/ Avisar(s)
    \/ Rechazar
    \/ DarDeBaja
    \/ Romper

Spec == Init /\ [][Next]_vars

\* The event loop resumes the iterator whenever it can go on, connect()
\* succeeds some time, and the provider answers what it is asked.  Nothing is
\* assumed of the caller.
Fairness ==
    /\ WF_vars(Iterador)
    /\ WF_vars(Rechazar \/ DarDeBaja \/ \E s \in Subs : Aceptar(s))

FairSpec == Spec /\ Fairness

-----------------------------------------------------------------------------
(* Properties                                                              *)

Parcial(S, T) == UNION {[D -> T] : D \in SUBSET S}

MensajeAlServidor ==
    [tipo : {"logsSubscribe"}, id : Nat, clave : Claves] \cup [tipo : {"logsUnsubscribe"}, sub : Subs]

MensajeAlCliente ==
    [tipo : {"result"}, id : Nat, sub : Subs] \cup [tipo : {"error"}, id : Nat]
    \cup [tipo : {"logsNotification"}, sub : Subs]

TypeOK ==
    /\ wanted \subseteq Claves
    /\ requestId \in Nat
    /\ DOMAIN requestToKey \subseteq 1 .. requestId
    /\ requestToKey \in [DOMAIN requestToKey -> Claves]
    /\ DOMAIN subToKey \subseteq Subs
    /\ subToKey \in [DOMAIN subToKey -> Claves]
    /\ DOMAIN keyToSub \subseteq Claves
    /\ keyToSub \in [DOMAIN keyToSub -> Subs]
    /\ fase \in {"fuera", "resuscribe", "escucha"}
    /\ porEnviar \subseteq Claves
    /\ fase = "resuscribe" <=> porEnviar # {}
    /\ conectado <=> fase # "fuera"
    /\ viva \in BOOLEAN
    /\ alServidor \in Seq(MensajeAlServidor)
    /\ alCliente \in Seq(MensajeAlCliente)
    /\ DOMAIN dadas \subseteq Subs
    /\ dadas \in [DOMAIN dadas -> Claves]
    /\ servidor \subseteq DOMAIN dadas
    /\ rechazadas \subseteq Claves
    /\ caidas \in 0 .. MaxCaidas

\* A notification is attributed to the key whose subscription produced it,
\* although ids are used again by other connections: what the table says of
\* an id is what the provider was asked for when it gave it
\* (multi_log_stream.py:13-17, 153-178).
Atribucion ==
    \A s \in DOMAIN subToKey : s \in DOMAIN dadas /\ subToKey[s] = dadas[s]

En(cola, mensaje) == \E n \in DOMAIN cola : cola[n] = mensaje

\* No subscription is lost sight of: as long as the provider serves one, its
\* notifications are attributed, or its confirmation or its cancellation is
\* on the way (multi_log_stream.py:112-131, 159-187).
SinHuerfanas ==
    \A s \in servidor :
        \/ s \in DOMAIN subToKey
        \/ \E id \in DOMAIN requestToKey : En(alCliente, Ack(id, s))
        \/ En(alServidor, Baja(s))

\* What stays watched gets its subscription, whatever the connection went
\* through while it was asked for, unless the provider rejected it
\* (multi_log_stream.py:19-21, 241-244).
SeguidaAcabaActiva ==
    \A k \in Claves : <>[](k \in wanted) => <>[](k \in Activas \cup rechazadas)

=============================================================================
