--------------------------------- MODULE Rpc ---------------------------------
(***************************************************************************)
(* SolanaRpc (packages/solana: rpc.py): the client that the analysis, the  *)
(* detail of a token and the probes share among their tasks.  One lock,    *)
(* which asyncio hands over in the order it was asked for, is held while a *)
(* call waits for its turn and while it is answered, and released before   *)
(* it backs off.                                                           *)
(*                                                                         *)
(* Time is discrete and relative: the age of the last call saturates at    *)
(* the gap.  What is asked and answered is left out.                       *)
(***************************************************************************)
EXTENDS Integers, Sequences

CONSTANTS
    Tareas,            \* tasks of the event loop
    HUECO,             \* 1 / requests_per_second
    MAX_ATTEMPTS,      \* max_attempts
    INICIAL, TOPE      \* initial_backoff, max_backoff

ASSUME RpcAssumption ==
    /\ {HUECO, MAX_ATTEMPTS, INICIAL, TOPE} \subseteq Nat \ {0}
    /\ INICIAL <= TOPE

VARIABLES
    cerrojo,           \* _lock: who waits for it, the first holds it
    ultimo,            \* age of _last_call
    tramo,             \* task -> how far its call is
    duerme,            \* task -> time left to sleep
    intentos,          \* task -> attempts made
    backoff,           \* task -> the next back-off at most
    enviado            \* ghost: age of the last request on the wire

varsRpc == <<cerrojo, ultimo, tramo, duerme, intentos, backoff, enviado>>

Resultados == {"bien", "agotado", "rechazado"}
Tramos == Resultados \cup {"nada", "cola", "frena", "pide", "pausa"}

\* Mutant: the call waits for its turn before it takes the lock.
MutTurno(t) == TRUE

Turno(t) == cerrojo # << >> /\ Head(cerrojo) = t

-----------------------------------------------------------------------------

InitRpc ==
    /\ cerrojo = << >>
    /\ ultimo = HUECO
    /\ tramo = [t \in Tareas |-> "nada"]
    /\ duerme = [t \in Tareas |-> 0]
    /\ intentos = [t \in Tareas |-> 0]
    /\ backoff = [t \in Tareas |-> INICIAL]
    /\ enviado = HUECO

\* call: a task that has no call under way begins one.
Llamar(t) ==
    /\ tramo[t] \in {"nada"} \cup Resultados
    /\ tramo' = [tramo EXCEPT ![t] = "cola"]
    /\ cerrojo' = Append(cerrojo, t)
    /\ intentos' = [intentos EXCEPT ![t] = 0]
    /\ backoff' = [backoff EXCEPT ![t] = INICIAL]
    /\ UNCHANGED <<ultimo, duerme, enviado>>

\* _throttle, with the lock.
Frenar(t) ==
    /\ tramo[t] = "cola"
    /\ Turno(t)
    /\ tramo' = [tramo EXCEPT ![t] = "frena"]
    /\ duerme' = [duerme EXCEPT ![t] = HUECO - ultimo]
    /\ UNCHANGED <<cerrojo, ultimo, intentos, backoff, enviado>>

Publicar(t) ==
    /\ tramo[t] = "frena"
    /\ duerme[t] = 0
    /\ tramo' = [tramo EXCEPT ![t] = "pide"]
    /\ ultimo' = 0
    /\ enviado' = 0
    /\ UNCHANGED <<cerrojo, duerme, intentos, backoff>>

Suelta == cerrojo' = Tail(cerrojo)

\* An answer, or an error in the body, which no attempt would mend.
Responder(t) ==
    /\ tramo[t] = "pide"
    /\ Suelta
    /\ \E r \in {"bien", "rechazado"} : tramo' = [tramo EXCEPT ![t] = r]
    /\ UNCHANGED <<ultimo, duerme, intentos, backoff, enviado>>

\* The transport fails, a 429 or a 5xx: the lock is released and the task
\* sleeps any time up to its back-off, which doubles, but after the last attempt.
Fracasar(t) ==
    /\ tramo[t] = "pide"
    /\ Suelta
    /\ intentos' = [intentos EXCEPT ![t] = @ + 1]
    /\ IF intentos[t] + 1 = MAX_ATTEMPTS
       THEN /\ tramo' = [tramo EXCEPT ![t] = "agotado"]
            /\ UNCHANGED <<duerme, backoff>>
       ELSE /\ tramo' = [tramo EXCEPT ![t] = "pausa"]
            /\ \E d \in 0 .. backoff[t] : duerme' = [duerme EXCEPT ![t] = d]
            /\ backoff' = [backoff EXCEPT ![t] = IF 2 * @ < TOPE THEN 2 * @ ELSE TOPE]
    /\ UNCHANGED <<ultimo, enviado>>

Reanudar(t) ==
    /\ tramo[t] = "pausa"
    /\ duerme[t] = 0
    /\ tramo' = [tramo EXCEPT ![t] = "cola"]
    /\ cerrojo' = Append(cerrojo, t)
    /\ UNCHANGED <<ultimo, duerme, intentos, backoff, enviado>>

Envejece(n) == IF n < HUECO THEN n + 1 ELSE n

RelojRpc ==
    /\ \E t \in Tareas : tramo[t] \notin {"nada"} \cup Resultados
    /\ ultimo' = Envejece(ultimo)
    /\ enviado' = Envejece(enviado)
    /\ duerme' = [t \in Tareas |-> IF duerme[t] > 0 THEN duerme[t] - 1 ELSE 0]
    /\ UNCHANGED <<cerrojo, tramo, intentos, backoff>>

NextRpc ==
    \/ RelojRpc
    \/ \E t \in Tareas : \/ Llamar(t) \/ Frenar(t) \/ Publicar(t) \/ Responder(t)
                         \/ Fracasar(t) \/ Reanudar(t)

SpecRpc == InitRpc /\ [][NextRpc]_varsRpc

-----------------------------------------------------------------------------
(* Properties                                                              *)

\* Every variable keeps its type, and the lock is waited for once by each
\* task (rpc.py:51-74).
RpcTypeOK ==
    /\ cerrojo \in Seq(Tareas)
    /\ ultimo \in 0 .. HUECO /\ enviado \in 0 .. HUECO
    /\ tramo \in [Tareas -> Tramos]
    /\ duerme \in [Tareas -> Nat]
    /\ intentos \in [Tareas -> 0 .. MAX_ATTEMPTS]
    /\ backoff \in [Tareas -> 1 .. TOPE]

\* "Serializado y con espaciado garantizado entre llamadas" (rpc.py:48): two
\* requests are never on the wire closer than the gap, whoever sends them,
\* whatever retries and back-offs lie in between, however many tasks wait.
Espaciadas ==
    [][\A t \in Tareas :
          tramo[t] = "frena" /\ tramo'[t] = "pide" =>
              /\ enviado >= HUECO
              /\ \A s \in Tareas : tramo[s] # "pide"]_varsRpc
=============================================================================
