------------------------------ MODULE AutoStop ------------------------------
(***************************************************************************)
(* The automatic stop (apps/api/mit_api/auto.py): a background loop that   *)
(* reads the price of every watched position and sells it all when one of  *)
(* its rules fires, and the HTTP handlers that add, drop and trade         *)
(* positions while the loop is suspended in one of its awaits.             *)
(*                                                                         *)
(* A position is an OBJECT: the loop walks a copy of the list of objects   *)
(* it took when the round began, so an object may be sold after it was     *)
(* dropped from, or replaced in, the dictionary.  Objects are numbered     *)
(* 1..MaxAltas in the order they are created.                              *)
(*                                                                         *)
(* The chain, the RPC and the signer are environment: the chain keeps one  *)
(* price and one balance per token, a sent sale lands, fails or is         *)
(* dropped, a read or a send may fail, and the signer refuses what its     *)
(* caps do not allow.  Prices are caps in abstract units and a sale is     *)
(* declared to the signer with the cap it is made at.                      *)
(*                                                                         *)
(* /operar is one step here: its awaits (auto.py:412-455) keep no state of *)
(* the process between them, and it writes nothing the loop reads.         *)
(***************************************************************************)
EXTENDS Integers, Sequences, FiniteSets

CONSTANTS
    Mints,
    Caps,                \* market caps a token may have
    Reglas,              \* records [trailing, stop], in percent
    MaxAltas,            \* bound: positions ever watched
    MaxEnVuelo,          \* bound: sales of one token in flight
    FALLOS_PARA_AVISAR,
    MaxPorOrden,         \* the signer's cap per order
    MaxDiario            \* the signer's cap per day

Ninguna == 0
ASSUME MintsAssumption == IsFiniteSet(Mints) /\ Ninguna \notin Mints
ASSUME CapsAssumption == Caps \subseteq Nat \ {0}
ASSUME ReglasAssumption == Reglas \subseteq [trailing : 0 .. 99, stop : 0 .. 99]
ASSUME TopesAssumption ==
    /\ MaxAltas \in Nat
    /\ MaxEnVuelo \in Nat
    /\ FALLOS_PARA_AVISAR \in Nat \ {0}
    /\ MaxPorOrden \in Nat
    /\ MaxDiario \in Nat

Ids == 1 .. MaxAltas

VARIABLES
    posiciones,   \* the objects: a function on 1..n, n objects created so far
    vigiladas,    \* _VIGILADAS: mint -> object, or Ninguna
    ronda,        \* objects this round still has to visit
    fase,         \* where the loop is suspended
    oferta,       \* what prepare() expects to receive for the sale
    alta,         \* the /vigilar request between its reads and its insertion
    cap,          \* chain: market cap of each token
    completa,     \* chain: its curve is complete
    saldo,        \* chain: does the signer's wallet hold the token
    enVuelo,      \* chain: sales sent and not yet decided
    admitida,     \* chain: prepare would offer the sale of what is held of the token
    queda,        \* signer: what is left of the daily cap
    firmante      \* signer: it answers and can sign

bucle == <<ronda, fase, oferta>>
cadena == <<cap, completa, saldo, enVuelo, admitida>>
vars == <<posiciones, vigiladas, bucle, alta, cadena, queda, firmante>>

Fases == {"dormida", "lee", "prepara", "firma", "envia"}
SinAlta == [mint |-> Ninguna]

Posicion == [mint     : Mints,
             entrada  : Caps,
             pico     : Caps,
             ultima   : Caps,
             trailing : 0 .. 99,
             stop     : 0 .. 99,
             fallos   : 0 .. FALLOS_PARA_AVISAR,
             cierre   : {"abierta", "vendida", "graduada"}]

Creadas == DOMAIN posiciones
Abierta(i) == posiciones[i].cierre = "abierta"
Actual == Head(ronda)

-----------------------------------------------------------------------------
(* Vigilada: the rules                                                     *)

\* Mutant: the fall is strictly greater than the threshold.
MutCaePct(desde, hasta, pct) == pct > 0 /\ (desde - hasta) * 100 > pct * desde

\* A fall from `desde' to `hasta' of at least pct percent; 0 switches it off.
CaePct(desde, hasta, pct) == pct > 0 /\ (desde - hasta) * 100 >= pct * desde

DisparaStop(p) == CaePct(p.entrada, p.ultima, p.stop)
DisparaTrailing(p) == CaePct(p.pico, p.ultima, p.trailing)
MotivoDisparo(p) == DisparaStop(p) \/ DisparaTrailing(p)

\* Mutant: the peak follows the price down.
MutLeida(p, c) == [p EXCEPT !.fallos = 0, !.ultima = c, !.pico = c]

\* A good read: the streak of failures ends and the peak follows the price up.
Leida(p, c) == [p EXCEPT !.fallos = 0, !.ultima = c, !.pico = IF c > @ THEN c ELSE @]

\* fallos_lectura saturates at the value that triggers the warning: the code
\* compares with equality, so what it is beyond that makes no difference.
Fallada(p) ==
    [p EXCEPT !.fallos = IF @ < FALLOS_PARA_AVISAR THEN @ + 1 ELSE @]

Nueva(m, c, r) ==
    [mint |-> m, entrada |-> c, pico |-> c, ultima |-> c, trailing |-> r.trailing,
     stop |-> r.stop, fallos |-> 0, cierre |-> "abierta"]

-----------------------------------------------------------------------------
(* The signer and the chain                                                *)

FirmaAdmite(importe) == importe <= MaxPorOrden /\ importe <= queda

\* prepare() offers the sale of a whole balance only if there is one, the curve
\* is open, what is expected of it exceeds the fee (dust is refused in every
\* round), a recent trade shows the account to copy and the simulation goes
\* through (without SOL for the fee it never does).  Amounts of tokens and of
\* SOL are not in the model: the last three are one condition, `admitida'.
SePuedeVender(m) == saldo[m] /\ ~completa[m] /\ admitida[m]

Init ==
    /\ posiciones = <<>>
    /\ vigiladas = [m \in Mints |-> Ninguna]
    /\ ronda = <<>>
    /\ fase = "dormida"
    /\ oferta = 0
    /\ alta = SinAlta
    /\ cap \in [Mints -> Caps]
    /\ completa = [m \in Mints |-> FALSE]
    /\ saldo \in [Mints -> BOOLEAN]
    /\ enVuelo = [m \in Mints |-> 0]
    /\ admitida \in [Mints -> BOOLEAN]
    /\ queda = MaxDiario
    /\ firmante = TRUE

-----------------------------------------------------------------------------
(* The loop: _bucle and _vuelta                                            *)

\* A round begins with a copy of the watched objects, if the signer is up.
EmpezarVuelta ==
    /\ fase = "dormida"
    /\ firmante
    /\ \E m \in Mints : vigiladas[m] # Ninguna
    /\ \E orden \in [1 .. Cardinality({m \in Mints : vigiladas[m] # Ninguna}) -> Ids] :
         /\ {orden[k] : k \in DOMAIN orden} = {vigiladas[m] : m \in Mints} \ {Ninguna}
         /\ ronda' = orden
    /\ fase' = "lee"
    /\ UNCHANGED <<posiciones, oferta, vigiladas, alta, cadena, queda, firmante>>

\* The loop goes on to the next object of the round, or to sleep.
Siguiente ==
    /\ ronda' = Tail(ronda)
    /\ fase' = IF Tail(ronda) = <<>> THEN "dormida" ELSE "lee"
    /\ oferta' = 0

Intacto == UNCHANGED <<vigiladas, alta, cadena, firmante>>

\* An object closed meanwhile is skipped.
SaltarCerrada ==
    /\ fase = "lee"
    /\ ~Abierta(Actual)
    /\ Siguiente
    /\ UNCHANGED <<posiciones, queda>> /\ Intacto

\* Mutant: a closed object is looked at again.
MutPorLeer == fase = "lee"

PorLeer == fase = "lee" /\ Abierta(Actual)

\* The curve is read and no rule fires.
LeerTranquila ==
    /\ PorLeer
    /\ LET p == Leida(posiciones[Actual], cap[posiciones[Actual].mint]) IN
         /\ ~completa[p.mint]
         /\ ~MotivoDisparo(p)
         /\ posiciones' = [posiciones EXCEPT ![Actual] = p]
    /\ Siguiente
    /\ UNCHANGED queda /\ Intacto

\* The curve is read and a rule fires: the sale is prepared next.
LeerYDisparar ==
    /\ PorLeer
    /\ LET p == Leida(posiciones[Actual], cap[posiciones[Actual].mint]) IN
         /\ ~completa[p.mint]
         /\ MotivoDisparo(p)
         /\ posiciones' = [posiciones EXCEPT ![Actual] = p]
    /\ fase' = "prepara"
    /\ UNCHANGED <<ronda, oferta, queda>> /\ Intacto

\* A graduated token is not sold here: the object is closed.
LeerGraduada ==
    /\ PorLeer
    /\ completa[posiciones[Actual].mint]
    /\ posiciones' = [posiciones EXCEPT ![Actual].cierre = "graduada"]
    /\ Siguiente
    /\ UNCHANGED queda /\ Intacto

\* curva_fresca swallows the RPC's errors and returns None, or the read raises:
\* the failure is counted.
LeerFallida ==
    /\ PorLeer
    /\ posiciones' = [posiciones EXCEPT ![Actual] = Fallada(@)]
    /\ Siguiente
    /\ UNCHANGED queda /\ Intacto

PrepararVenta ==
    /\ fase = "prepara"
    /\ SePuedeVender(posiciones[Actual].mint)
    /\ fase' = "firma"
    /\ oferta' = cap[posiciones[Actual].mint]
    /\ UNCHANGED <<posiciones, ronda, queda>> /\ Intacto

\* /firmar accepts the sale and counts it.
FirmarVenta ==
    /\ fase = "firma"
    /\ firmante
    /\ FirmaAdmite(oferta)
    /\ queda' = queda - oferta
    /\ fase' = "envia"
    /\ UNCHANGED <<posiciones, ronda, oferta>> /\ Intacto

\* sendTransaction answers: the object is closed, decided or not on chain.
EnviarVenta ==
    /\ fase = "envia"
    /\ enVuelo[posiciones[Actual].mint] < MaxEnVuelo
    /\ enVuelo' = [enVuelo EXCEPT ![posiciones[Actual].mint] = @ + 1]
    /\ posiciones' = [posiciones EXCEPT ![Actual].cierre = "vendida"]
    /\ Siguiente
    /\ UNCHANGED <<vigiladas, alta, cap, completa, saldo, admitida, queda, firmante>>

\* sendTransaction fails although the transaction may have been accepted
\* (a timeout after the RPC took it): the object stays open.
EnvioPerdido ==
    /\ fase = "envia"
    /\ enVuelo[posiciones[Actual].mint] < MaxEnVuelo
    /\ enVuelo' \in {enVuelo, [enVuelo EXCEPT ![posiciones[Actual].mint] = @ + 1]}
    /\ Siguiente
    /\ UNCHANGED <<posiciones, vigiladas, alta, cap, completa, saldo, admitida,
                   queda, firmante>>

\* Preparing or signing fails: the round goes on, the object stays open.  The
\* RPC may always fail, or prepare refuse; the signer refuses when it is off or
\* over a cap.
VentaFallida ==
    /\ \/ fase = "prepara"
       \/ fase = "firma" /\ ~(firmante /\ FirmaAdmite(oferta))
    /\ Siguiente
    /\ UNCHANGED <<posiciones, queda>> /\ Intacto

-----------------------------------------------------------------------------
(* The HTTP handlers                                                       *)

\* /vigilar reads the price ...
VigilarLeer(m, r) ==
    /\ alta = SinAlta
    /\ firmante
    /\ r.trailing > 0 \/ r.stop > 0
    /\ ~completa[m]
    /\ Len(posiciones) < MaxAltas
    /\ alta' = [mint |-> m, cap |-> cap[m], regla |-> r]
    /\ UNCHANGED <<posiciones, vigiladas, bucle, cadena, queda, firmante>>

\* ... and then the balance; with tokens the object is inserted, replacing
\* one the mint may already have, and the loop is started if it is not.
VigilarInsertar ==
    /\ alta # SinAlta
    /\ saldo[alta.mint]
    /\ Len(posiciones) < MaxAltas
    /\ posiciones' = Append(posiciones, Nueva(alta.mint, alta.cap, alta.regla))
    /\ vigiladas' = [vigiladas EXCEPT ![alta.mint] = Len(posiciones) + 1]
    /\ alta' = SinAlta
    /\ UNCHANGED <<bucle, cadena, queda, firmante>>

VigilarRechazar ==
    /\ alta # SinAlta
    /\ alta' = SinAlta
    /\ UNCHANGED <<posiciones, vigiladas, bucle, cadena, queda, firmante>>

Cancelar(m) ==
    /\ vigiladas[m] # Ninguna
    /\ vigiladas' = [vigiladas EXCEPT ![m] = Ninguna]
    /\ UNCHANGED <<posiciones, bucle, alta, cadena, queda, firmante>>

\* /operar, a buy or a sale by hand with the signer's wallet.
OperarComprar(m, importe) ==
    /\ firmante
    /\ ~completa[m]
    /\ FirmaAdmite(importe)
    /\ queda' = queda - importe
    /\ saldo' \in {saldo, [saldo EXCEPT ![m] = TRUE]}
    /\ UNCHANGED <<posiciones, vigiladas, bucle, alta, cap, completa, enVuelo,
                   admitida, firmante>>

OperarVender(m) ==
    /\ firmante
    /\ SePuedeVender(m)
    /\ FirmaAdmite(cap[m])
    /\ enVuelo[m] < MaxEnVuelo
    /\ queda' = queda - cap[m]
    /\ enVuelo' = [enVuelo EXCEPT ![m] = @ + 1]
    /\ UNCHANGED <<posiciones, vigiladas, bucle, alta, cap, completa, saldo,
                   admitida, firmante>>

-----------------------------------------------------------------------------
(* The environment                                                         *)

\* The API process dies or is closed: what it watched is only in memory.
Reiniciar ==
    /\ vigiladas' = [m \in Mints |-> Ninguna]
    /\ ronda' = <<>>
    /\ fase' = "dormida"
    /\ oferta' = 0
    /\ alta' = SinAlta
    /\ UNCHANGED <<posiciones, cadena, queda, firmante>>

SinTocarApi == UNCHANGED <<posiciones, vigiladas, bucle, alta>>

MoverPrecio(m, c) ==
    /\ ~completa[m]
    /\ cap' = [cap EXCEPT ![m] = c]
    /\ UNCHANGED <<completa, saldo, enVuelo, admitida, queda, firmante>> /\ SinTocarApi

Graduar(m) ==
    /\ ~completa[m]
    /\ completa' = [completa EXCEPT ![m] = TRUE]
    /\ UNCHANGED <<cap, saldo, enVuelo, admitida, queda, firmante>> /\ SinTocarApi

\* A sale in flight empties the balance, or fails or expires without effect.
DecidirVenta(m) ==
    /\ enVuelo[m] > 0
    /\ enVuelo' = [enVuelo EXCEPT ![m] = @ - 1]
    /\ \/ saldo[m] /\ ~completa[m] /\ saldo' = [saldo EXCEPT ![m] = FALSE]
       \/ UNCHANGED saldo
    /\ UNCHANGED <<cap, completa, admitida, queda, firmante>> /\ SinTocarApi

\* What is held becomes worth more or less than the fee, the wallet's SOL for
\* it is spent or topped up, or the token's trades leave, or come back to, the
\* history prepare looks through.
CambiarAdmitida(m) ==
    /\ admitida' = [admitida EXCEPT ![m] = ~@]
    /\ UNCHANGED <<cap, completa, saldo, enVuelo, queda, firmante>> /\ SinTocarApi

FirmanteCambia ==
    /\ firmante' = ~firmante
    /\ UNCHANGED <<cadena, queda>> /\ SinTocarApi

Medianoche ==
    /\ queda < MaxDiario
    /\ queda' = MaxDiario
    /\ UNCHANGED <<cadena, firmante>> /\ SinTocarApi

Vuelta ==
    \/ EmpezarVuelta
    \/ SaltarCerrada
    \/ LeerTranquila
    \/ LeerYDisparar
    \/ LeerGraduada
    \/ LeerFallida
    \/ PrepararVenta
    \/ FirmarVenta
    \/ EnviarVenta
    \/ EnvioPerdido
    \/ VentaFallida

Peticiones ==
    \/ \E m \in Mints, r \in Reglas : VigilarLeer(m, r)
    \/ VigilarInsertar
    \/ VigilarRechazar
    \/ \E m \in Mints : Cancelar(m)
    \/ \E m \in Mints, n \in Caps : OperarComprar(m, n)
    \/ \E m \in Mints : OperarVender(m)

Entorno ==
    \/ Reiniciar
    \/ \E m \in Mints, c \in Caps : MoverPrecio(m, c)
    \/ \E m \in Mints : Graduar(m)
    \/ \E m \in Mints : DecidirVenta(m)
    \/ \E m \in Mints : CambiarAdmitida(m)
    \/ FirmanteCambia
    \/ Medianoche

Next == Vuelta \/ Peticiones \/ Entorno

Spec == Init /\ [][Next]_vars

\* The event loop always resumes a coroutine that can go on, the RPC does not
\* fail or time out every time it is asked, and the chain decides every
\* transaction.  Nothing is assumed of the user, of the signer or of what makes
\* prepare refuse: PrepararVenta is disabled while prepare would.
Fairness ==
    /\ WF_vars(EmpezarVuelta)
    /\ WF_vars(SaltarCerrada)
    /\ WF_vars(LeerTranquila \/ LeerYDisparar \/ LeerGraduada \/ LeerFallida)
    /\ SF_vars(LeerYDisparar)
    /\ WF_vars(PrepararVenta \/ VentaFallida)
    /\ SF_vars(PrepararVenta)
    /\ WF_vars(FirmarVenta)
    /\ WF_vars(EnviarVenta \/ EnvioPerdido)
    /\ SF_vars(EnviarVenta)
    /\ WF_vars(\E m \in Mints : DecidirVenta(m))

FairSpec == Spec /\ Fairness

-----------------------------------------------------------------------------
(* Properties                                                              *)

TypeOK ==
    /\ posiciones \in Seq(Posicion)
    /\ Len(posiciones) <= MaxAltas
    /\ vigiladas \in [Mints -> Creadas \cup {Ninguna}]
    /\ ronda \in Seq(Creadas)
    /\ fase \in Fases
    /\ fase = "dormida" <=> ronda = <<>>
    /\ oferta \in Caps \cup {0}
    /\ alta = SinAlta \/ alta \in [mint : Mints, cap : Caps, regla : Reglas]
    /\ cap \in [Mints -> Caps]
    /\ completa \in [Mints -> BOOLEAN]
    /\ saldo \in [Mints -> BOOLEAN]
    /\ enVuelo \in [Mints -> 0 .. MaxEnVuelo]
    /\ admitida \in [Mints -> BOOLEAN]
    /\ queda \in 0 .. MaxDiario
    /\ firmante \in BOOLEAN

\* The trailing always goes ahead of the stop loss: the peak starts at the
\* entry and never falls, so with a trailing threshold no larger than the stop's the
\* stop never fires alone (auto.py:71-73).
TrailingSubsume ==
    \A i \in Creadas :
        LET p == posiciones[i] IN
          p.trailing > 0 /\ p.trailing <= p.stop /\ DisparaStop(p) => DisparaTrailing(p)

\* A closed position is never looked at again: neither a later round, nor the
\* rest of the one that closed it, reads, sells or reopens it (auto.py:211).
CerradaNoCambia ==
    [][\A i \in Creadas : ~Abierta(i) => posiciones'[i] = posiciones[i]]_vars

\* Position i could be sold now: it is watched, its token trades at a price
\* that fires its rules, prepare would not refuse the sale, and the signer is up
\* and its caps allow it, at the price of now and at the one already prepared.
Vendible(i) ==
    /\ i \in Creadas
    /\ Abierta(i)
    /\ LET p == posiciones[i] IN
         /\ vigiladas[p.mint] = i
         /\ SePuedeVender(p.mint)
         /\ \/ p.stop > 0 /\ cap[p.mint] * 100 <= (100 - p.stop) * p.entrada
            \/ p.trailing > 0 /\ cap[p.mint] * 100 <= (100 - p.trailing) * p.pico
         /\ firmante
         /\ FirmaAdmite(cap[p.mint])
         /\ fase = "firma" => FirmaAdmite(oferta)

\* The stop acts: no position stays sellable for ever.  Whatever the other
\* positions, the failed rounds and the handlers do, it is sold in the end
\* or one of the conditions ceases to hold (auto.py:202-246).  A stop that is
\* due while prepare refuses it in every round (dust, no SOL for the fee, no
\* trade to copy the account from) is not promised anything: the code tries
\* for ever and only logs.
StopActua == \A i \in Ids : ~ <>[] Vendible(i)

\* "Deja de vigilar. No vende: solo deja de mirar." (auto.py:382): the loop
\* sells nothing of a token that nobody watches any more.  The code does, when
\* the round took its copy before the cancellation.
CanceladaNoVende ==
    [][\A i \in Creadas :
          Abierta(i) /\ posiciones'[i].cierre = "vendida"
              => vigiladas[posiciones[i].mint] # Ninguna]_vars

=============================================================================
