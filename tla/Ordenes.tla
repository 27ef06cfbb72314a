------------------------------- MODULE Ordenes -------------------------------
(***************************************************************************)
(* One decision, one order (packages/execution: orders.py, settings.py,    *)
(* signing.py): the ledger of idempotency keys, the verdict of the signer  *)
(* on a plan, and the conditions under which an order leaves.              *)
(*                                                                         *)
(* The ledger does not know who calls it.  The caller, the chain and the   *)
(* notifications between them are external: a transaction lands or fails   *)
(* whenever it likes; what the caller is told of it is true, but may come  *)
(* late, twice or never; and a caller that waits too long says TIMEOUT.    *)
(***************************************************************************)
EXTENDS Integers, FiniteSets

CONSTANTS
    Claves,            \* idempotency keys, one per decision
    MAX_RETRIES,       \* max_retries
    IMPORTE,           \* lamports of every decision
    MAX_ORDEN,         \* max_order_lamports
    MAX_DIA            \* max_daily_lamports

\* The value that ships is 2, and what is proved needs no more than that.
ASSUME OrdenesAssumption ==
    /\ MAX_RETRIES \in 1 .. 2
    /\ {IMPORTE, MAX_ORDEN, MAX_DIA} \subseteq Nat

VARIABLES
    estado,            \* _status, "ninguno" if the key is not there
    veces,             \* _attempts
    permiso,           \* external: keys whose caller may send
    vuelo,             \* external: fate of each transaction sent
    noticias,            \* external: marks that may arrive, any number of times
    firmadas,          \* external: keys signed today
    gastado,           \* external: lamports signed today
    vivo               \* live_enabled

libro == <<estado, veces>>
fuera == <<permiso, vuelo, noticias, firmadas, gastado, vivo>>
varsOrdenes == <<libro, fuera>>

OrderStatus == {"reserved", "submitted", "confirmed", "failed", "timeout", "cancelled"}
TERMINAL == {"confirmed", "timeout", "cancelled"}
\* One more than the ledger gives, so that one too many would be seen.
Intentos == 1 .. MAX_RETRIES + 1
Destino == {"no", "viaja", "llego", "fallo"}

-----------------------------------------------------------------------------
(* OrderLedger                                                             *)

\* Mutant: one attempt too many.
MutReintentable(k) == estado[k] = "failed" /\ veces[k] <= MAX_RETRIES

Reintentable(k) == estado[k] = "failed" /\ veces[k] < MAX_RETRIES

\* Checking and reserving is one step: the key, or nothing.
reserve(k) ==
    /\ estado[k] = "ninguno" \/ (estado[k] \notin TERMINAL /\ Reintentable(k))
    /\ estado' = [estado EXCEPT ![k] = "reserved"]
    /\ veces' = [veces EXCEPT ![k] = IF estado[k] = "ninguno" THEN 1 ELSE @ + 1]

\* Whatever was there is overwritten, a terminal state too.
mark(k, e) ==
    estado' = [estado EXCEPT ![k] = IF @ = "ninguno" THEN @ ELSE e]

-----------------------------------------------------------------------------
(* signing.py and settings.py                                              *)

Plan == [programas : BOOLEAN, destinos : BOOLEAN, autoridad : BOOLEAN,
         cierre : BOOLEAN, legible : BOOLEAN]

\* Every reason to refuse; the flags of the plan stand for the lists that
\* the policy compares with its own.
evaluate_signing_request(k, plan, recordadas) ==
    {razon \in {"ALREADY_SIGNED", "PROGRAM_NOT_ALLOWED", "DESTINATION_NOT_ALLOWED",
                "ORDER_LIMIT", "DAILY_LIMIT", "AUTHORITY_CHANGE", "ACCOUNT_CLOSURE",
                "UNKNOWN_INSTRUCTION"} :
        \/ razon = "ALREADY_SIGNED" /\ k \in recordadas
        \/ razon = "PROGRAM_NOT_ALLOWED" /\ ~plan.programas
        \/ razon = "DESTINATION_NOT_ALLOWED" /\ ~plan.destinos
        \/ razon = "ORDER_LIMIT" /\ IMPORTE > MAX_ORDEN
        \/ razon = "DAILY_LIMIT" /\ gastado + IMPORTE > MAX_DIA
        \/ razon = "AUTHORITY_CHANGE" /\ plan.autoridad
        \/ razon = "ACCOUNT_CLOSURE" /\ plan.cierre
        \/ razon = "UNKNOWN_INSTRUCTION" /\ ~plan.legible}

\* The checks of the activation list; one that is missing and it stays off.
Condiciones == 1 .. 16
can_enable_live(cumplidas) == Condiciones \ cumplidas = {}

quote_is_fresh(edad) == edad = "fresca"

-----------------------------------------------------------------------------
(* The caller and the chain                                                *)

Activar ==
    /\ ~vivo
    /\ \E cumplidas \in {Condiciones} \cup {Condiciones \ {c} : c \in Condiciones} :
          vivo' = can_enable_live(cumplidas)
    /\ UNCHANGED <<libro, permiso, vuelo, noticias, firmadas, gastado>>

Reservar(k) ==
    /\ reserve(k)
    /\ permiso' = permiso \cup {k}
    /\ UNCHANGED <<vuelo, noticias, firmadas, gastado, vivo>>

\* Before anything is signed, the caller may give up: for good, or because
\* the quote is old or the signer refuses.
Desistir(k) ==
    /\ k \in permiso
    /\ permiso' = permiso \ {k}
    /\ \/ mark(k, "cancelled")
       \/ /\ \E edad \in {"fresca", "vieja"}, plan \in Plan, recordadas \in {{}, firmadas} :
                ~quote_is_fresh(edad) \/ evaluate_signing_request(k, plan, recordadas) # {}
          /\ mark(k, "failed")
    /\ UNCHANGED <<veces, vuelo, noticias, firmadas, gastado, vivo>>

\* Signed and sent.  The list of what was signed is the caller's to give.
Enviar(k) ==
    /\ vivo
    /\ k \in permiso
    /\ \E plan \in Plan, recordadas \in {{}, firmadas} :
          evaluate_signing_request(k, plan, recordadas) = {}
    /\ permiso' = permiso \ {k}
    /\ firmadas' = firmadas \cup {k}
    /\ gastado' = gastado + IMPORTE
    /\ vuelo' = [vuelo EXCEPT ![k][veces[k]] = "viaja"]
    /\ noticias' = noticias \cup {<<k, "submitted">>}
    /\ UNCHANGED <<libro, vivo>>

Cadena(k, i) ==
    /\ vuelo[k][i] = "viaja"
    /\ \/ /\ vuelo' = [vuelo EXCEPT ![k][i] = "llego"]
          /\ noticias' = noticias \cup {<<k, "confirmed">>}
       \/ /\ vuelo' = [vuelo EXCEPT ![k][i] = "fallo"]
          /\ noticias' = noticias \cup {<<k, "failed">>}
    /\ UNCHANGED <<libro, permiso, firmadas, gastado, vivo>>

\* A notification of any attempt of the decision, late or repeated.
Avisar(k) ==
    /\ \E e \in OrderStatus : <<k, e>> \in noticias /\ mark(k, e)
    /\ UNCHANGED <<veces, fuera>>

\* The caller waits for nobody for ever.
Vencer(k) ==
    /\ \E i \in Intentos : vuelo[k][i] # "no"
    /\ mark(k, "timeout")
    /\ UNCHANGED <<veces, fuera>>

InitOrdenes ==
    /\ estado = [k \in Claves |-> "ninguno"]
    /\ veces = [k \in Claves |-> 0]
    /\ permiso = {}
    /\ vuelo = [k \in Claves |-> [i \in Intentos |-> "no"]]
    /\ noticias = {}
    /\ firmadas = {}
    /\ gastado = 0
    /\ vivo = FALSE

NextOrdenes ==
    \/ Activar
    \/ \E k \in Claves :
          \/ Reservar(k) \/ Desistir(k) \/ Enviar(k) \/ Avisar(k) \/ Vencer(k)
          \/ \E i \in Intentos : Cadena(k, i)

SpecOrdenes == InitOrdenes /\ [][NextOrdenes]_varsOrdenes

-----------------------------------------------------------------------------
(* Properties                                                              *)

\* Every variable keeps its type (OrderLedger: orders.py:54-94).
OrdenesTypeOK ==
    /\ estado \in [Claves -> OrderStatus \cup {"ninguno"}]
    /\ veces \in [Claves -> 0 .. MAX_RETRIES]
    /\ permiso \subseteq Claves
    /\ vuelo \in [Claves -> [Intentos -> Destino]]
    /\ noticias \subseteq Claves \X {"submitted", "confirmed", "failed"}
    /\ firmadas \subseteq Claves
    /\ gastado \in Nat
    /\ vivo \in BOOLEAN

Llegan(k) == {i \in Intentos : vuelo[k][i] = "llego"}

Promesa == INSTANCE UnaVez WITH
    Decisiones <- Claves,
    Importe <- [k \in Claves |-> IMPORTE],
    hechas <- {k \in Claves : Llegan(k) # {}},
    gasto <- [k \in Claves |-> Cardinality(Llegan(k)) * IMPORTE]

\* The ledger keeps its promise, one landing per decision, however late,
\* repeated or missing the notifications are and although a mark overwrites
\* whatever it finds (orders.py:68-91): a decision is sent again only after
\* the failure of the one attempt it had.
UnaPorDecision == Promesa!Spec
=============================================================================
