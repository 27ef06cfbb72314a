---------------------------- MODULE TradePrepare ----------------------------
(***************************************************************************)
(* The preparation of an order (apps/api/mit_api/trade.py, prepare): what  *)
(* is read, what is computed from it, the compositions of accounts tried   *)
(* against a simulation, and the one retry for a price that rose or a      *)
(* balance that shrank.  Next to it, the warming of a token (warm), which  *)
(* fills the same caches.  The price, the balance and the caches change    *)
(* wherever a request awaits.                                              *)
(*                                                                         *)
(* One token and one wallet.  Amounts are integers in the units of the     *)
(* source.  Of a cached datum only its ages are kept: since its stamp, and *)
(* since the node really saw it, both counted up to MaxEdad, which stands  *)
(* for that or more.                                                       *)
(***************************************************************************)
EXTENDS Integers

CONSTANTS
    Preparadoras,            \* requests of /prepare
    Calentadoras,            \* requests of /warm
    Curvas,                  \* states of the curve
    Compras,                 \* what may be bought, in lamports
    Porcentajes,             \* what may be sold, in percent
    Saldos,                  \* balances the wallet may come to have
    FEE_BPS, SLIPPAGE_BPS,
    COSTE_RED,               \* base fee and priority of a transaction
    GLOBAL_TTL, BLOCKHASH_TTL,
    MaxEdad                  \* bound: ages are told apart up to this one

ASSUME ConjuntosAssumption ==
    /\ Preparadoras \cap Calentadoras = {}
    /\ Curvas \subseteq [vs : Nat \ {0}, vt : Nat \ {0}, rt : Nat] /\ Curvas # {}
    /\ \A c \in Curvas : c.rt < c.vt
    /\ Compras \subseteq Nat \ {0}
    /\ Porcentajes \subseteq 1 .. 100
    /\ Saldos \subseteq Nat

ASSUME CifrasAssumption ==
    /\ FEE_BPS \in 0 .. 9999 /\ SLIPPAGE_BPS \in 1 .. 5000
    /\ COSTE_RED \in Nat
    /\ GLOBAL_TTL \in Nat \ {0} /\ BLOCKHASH_TTL \in Nat \ {0} /\ MaxEdad \in Nat
    /\ GLOBAL_TTL <= MaxEdad /\ BLOCKHASH_TTL <= MaxEdad

VARIABLES
    curva,       \* chain: the curve of the token
    completa,    \* chain: it graduated
    saldo,       \* chain: tokens of the wallet
    cache,       \* _global_cache, _token_account_cache, _blockhash_cache
    pet          \* what each request is doing

cadena == <<curva, completa, saldo>>
varsPreparar == <<cadena, cache, pet>>

Peticiones == Preparadoras \cup Calentadoras
Edades == 0 .. MaxEdad
Libre == [paso |-> "libre"]
Nada == [edad |-> MaxEdad, real |-> MaxEdad, hay |-> FALSE]
Dato(e, r) == [edad |-> e, real |-> r, hay |-> TRUE]

-----------------------------------------------------------------------------
(* Amounts                                                                 *)

\* The whole amount goes to the curve, and the fee comes on top.
MutNeto(l) == l

Neto(l) == (l * 10000) \div (10000 + FEE_BPS)

TokensPor(c, l) ==
    LET out == (l * c.vt) \div (c.vs + l) IN
    IF l <= 0 THEN 0 ELSE IF out < c.rt THEN out ELSE c.rt

LamportsPor(c, t) == IF t <= 0 THEN 0 ELSE (t * c.vs) \div (c.vt + t)

Tope(l) == (l * (10000 + SLIPPAGE_BPS)) \div 10000
Suelo(l) == (l * (10000 - SLIPPAGE_BPS)) \div 10000

Ingreso(c, t) == Neto(LamportsPor(c, t))

\* What the program charges for t tokens, with its fee.
Cobro(c, t) ==
    LET precio == (t * c.vs) \div (c.vt - t) + 1 IN precio + (precio * FEE_BPS) \div 10000

\* tokens, and max_lamports_cost or min_lamports_output.
Orden(t, l) == [tokens |-> t, limite |-> l]
OrdenCompra(c, l) == Orden(TokensPor(c, Neto(l)), Tope(l))
OrdenVenta(c, s, pct) ==
    LET t == (s * pct) \div 100 IN Orden(t, Suelo(Ingreso(c, t)))

-----------------------------------------------------------------------------
(* The data that are cached, in the order both routes ask for them         *)

Vigente(d, datos) ==
    /\ datos[d].hay
    /\ CASE d = "global" -> datos[d].edad < GLOBAL_TTL
         [] d = "hash" -> datos[d].edad < BLOCKHASH_TTL
         [] d = "token" -> TRUE

\* The first one that has to be awaited, from one of them on.
QueFalta(desde, datos) ==
    CASE desde = "global" /\ ~ Vigente("global", datos) -> "global"
      [] desde \in {"global", "token"} /\ ~ Vigente("token", datos) -> "token"
      [] ~ Vigente("hash", datos) -> "hash"
      [] OTHER -> "nada"

\* After it comes the balance, or the first simulation.
Construir(t) == [t EXCEPT !.paso = "simula", !.mensaje = t.orden, !.prueba = t.prueba + 1]

ConDatos(t) ==
    CASE t.lado = "calienta" -> Libre
      [] t.lado = "venta" -> [t EXCEPT !.paso = "saldo"]
      [] t.lado = "compra" ->
           LET o == OrdenCompra(t.curva, t.cantidad) IN
           IF o.tokens <= 0 \/ ~ t.alcanza THEN Libre
           ELSE Construir([t EXCEPT !.orden = o, !.resumen = o])

Seguir(t, desde, datos) ==
    LET d == QueFalta(desde, datos) IN
    IF d = "nada" THEN ConDatos(t) ELSE [t EXCEPT !.paso = d, !.edad = 0]

\* time.monotonic() is read before the call.
Sello(t) == t.edad

InitPreparar ==
    /\ curva \in Curvas /\ completa = FALSE /\ saldo \in Saldos
    /\ cache = [d \in {"global", "token", "hash"} |-> Nada]
    /\ pet = [p \in Peticiones |-> Libre]

-----------------------------------------------------------------------------
(* Reading                                                                 *)

Poner(p, t) == pet' = [pet EXCEPT ![p] = t]

\* Nothing read and nothing computed yet.
Nueva(lado, paso, cantidad) ==
    [lado |-> lado, paso |-> paso, cantidad |-> cantidad,
     curva |-> CHOOSE c \in Curvas : TRUE, alcanza |-> FALSE, saldo |-> 0,
     orden |-> Orden(0, 0), mensaje |-> Orden(0, 0), resumen |-> Orden(0, 0),
     comps |-> 1, prueba |-> 0, reintentado |-> FALSE, sims |-> 0, edad |-> 0]

Comprar(p, l) ==
    /\ pet[p] = Libre
    /\ Poner(p, Nueva("compra", "cuentas", l))
    /\ UNCHANGED <<cadena, cache>>

Vender(p, pct) ==
    /\ pet[p] = Libre
    /\ Poner(p, Nueva("venta", "cuentas", pct))
    /\ UNCHANGED <<cadena, cache>>

Calentar(p) ==
    /\ pet[p] = Libre
    /\ Poner(p, Seguir(Nueva("calienta", "global", 0), "global", cache))
    /\ UNCHANGED <<cadena, cache>>

\* The accounts in one call: the curve, the funds, which reach for a purchase
\* or do not, and the accumulator of volume.  A seller who has one gets two
\* compositions of accounts to try.
LlegarCuentas(p) ==
    /\ pet[p].paso = "cuentas" /\ ~ completa
    /\ \E n \in (IF pet[p].lado = "venta" THEN {1, 2} ELSE {1}), alcanza \in BOOLEAN :
         Poner(p, Seguir([pet[p] EXCEPT !.curva = curva, !.comps = n, !.alcanza = alcanza],
                         "global", cache))
    /\ UNCHANGED <<cadena, cache>>

\* One of the cached data arrives; the node saw it at some moment since.
LlegarDato(p, d) ==
    /\ pet[p].paso = d
    /\ \E r \in 0 .. pet[p].edad :
         LET datos == [cache EXCEPT ![d] =
                         IF d = "token" THEN Dato(0, 0) ELSE Dato(Sello(pet[p]), r)]
         IN  /\ cache' = datos
             /\ Poner(p, Seguir(pet[p], d, datos))
    /\ UNCHANGED cadena

\* The balance of the wallet, and the check that the sale pays for its fee.
LlegarSaldo(p) ==
    /\ pet[p].paso = "saldo"
    /\ LET t == pet[p]
           o == OrdenVenta(t.curva, saldo, t.cantidad)
       IN  IF o.tokens <= 0 \/ Ingreso(t.curva, o.tokens) <= COSTE_RED
           THEN Poner(p, Libre)
           ELSE Poner(p, Construir([t EXCEPT !.saldo = saldo, !.orden = o, !.resumen = o]))
    /\ UNCHANGED <<cadena, cache>>

-----------------------------------------------------------------------------
(* Simulating                                                              *)

\* What the program may answer.  Whatever else it dislikes (an account, the
\* funds, the slippage of a sale) is "otro".
Respuestas(t) ==
    {"otro"} \cup
    (IF completa THEN {}
     ELSE CASE t.lado = "compra" ->
                 IF t.mensaje.tokens > curva.rt THEN {}
                 ELSE IF Cobro(curva, t.mensaje.tokens) <= t.mensaje.limite THEN {"acepta"}
                 ELSE {"precio"}
            [] t.lado = "venta" ->
                 IF t.mensaje.tokens > saldo THEN {"tokens"}
                 ELSE IF Ingreso(curva, t.mensaje.tokens) >= t.mensaje.limite THEN {"acepta"} ELSE {})

\* The next composition, with the amounts of now; there may be none left, and
\* an instruction for no tokens cannot be built.
Continuar(t) ==
    IF t.prueba = t.comps \/ t.orden.tokens <= 0 THEN Libre ELSE Construir(t)

Simulada(t) == [t EXCEPT !.sims = t.sims + 1]

Aceptar(p) ==
    /\ pet[p].paso \in {"simula", "reintento"}
    /\ "acepta" \in Respuestas(pet[p])
    /\ Poner(p, [Simulada(pet[p]) EXCEPT !.paso = "ofrecida"])
    /\ UNCHANGED <<cadena, cache>>

Reintenta(t, codigo) ==
    /\ ~ t.reintentado
    /\ \/ t.lado = "compra" /\ codigo = "precio"
       \/ t.lado = "venta" /\ codigo = "tokens"

Rechazar(p) ==
    /\ pet[p].paso = "simula"
    /\ \E codigo \in Respuestas(pet[p]) \ {"acepta"} :
         LET t == Simulada(pet[p]) IN
         Poner(p, IF Reintenta(t, codigo)
                  THEN [t EXCEPT !.reintentado = TRUE,
                                 !.paso = IF t.lado = "compra" THEN "curva" ELSE "resaldo"]
                  ELSE Continuar(t))
    /\ UNCHANGED <<cadena, cache>>

RechazarReintento(p) ==
    /\ pet[p].paso = "reintento"
    /\ Respuestas(pet[p]) \ {"acepta"} # {}
    /\ Poner(p, Continuar(Simulada(pet[p])))
    /\ UNCHANGED <<cadena, cache>>

\* The new amounts are announced, and tried if there is something to try.
Recalcular(t, o) ==
    LET n == [t EXCEPT !.orden = o, !.resumen = o] IN
    IF o.tokens > 0 THEN [n EXCEPT !.paso = "reintento", !.mensaje = o] ELSE Continuar(n)

\* The curve is read again, past its cache.
LlegarCurva(p) ==
    /\ pet[p].paso = "curva"
    /\ LET t == pet[p] IN
         Poner(p, IF completa THEN Continuar(t)
                  ELSE Recalcular([t EXCEPT !.curva = curva],
                                  Orden(TokensPor(curva, Neto(t.cantidad)), t.orden.limite)))
    /\ UNCHANGED <<cadena, cache>>

\* The floor of the first try would be kept.
MutOrdenDeMenos(t, s) == Orden((s * t.cantidad) \div 100, t.orden.limite)

OrdenDeMenos(t, s) == OrdenVenta(t.curva, s, t.cantidad)

\* The balance is read again, and counts only if it shrank.
LlegarResaldo(p) ==
    /\ pet[p].paso = "resaldo"
    /\ LET t == pet[p] IN
         Poner(p, IF 0 < saldo /\ saldo < t.saldo
                  THEN Recalcular([t EXCEPT !.saldo = saldo], OrdenDeMenos(t, saldo))
                  ELSE Continuar(t))
    /\ UNCHANGED <<cadena, cache>>

\* A second reading that fails says nothing, and the next composition is tried.
FallarRelectura(p) ==
    /\ pet[p].paso \in {"curva", "resaldo"}
    /\ Poner(p, Continuar(pet[p]))
    /\ UNCHANGED <<cadena, cache>>

\* The request ends: the RPC did not answer, or what it needs is not there or
\* not valid; or the client has its answer.
Terminar(p) ==
    /\ pet[p].paso \notin {"libre", "curva"}
    /\ Poner(p, Libre)
    /\ UNCHANGED <<cadena, cache>>

-----------------------------------------------------------------------------
(* The chain, the clock, and the tokens that take the place of this one    *)

MoverCurva(c) ==
    /\ c # curva /\ ~ completa
    /\ curva' = c
    /\ UNCHANGED <<completa, saldo, cache, pet>>

Completar ==
    /\ ~ completa
    /\ completa' = TRUE
    /\ UNCHANGED <<curva, saldo, cache, pet>>

MoverSaldo(s) ==
    /\ s # saldo
    /\ saldo' = s
    /\ UNCHANGED <<curva, completa, cache, pet>>

Desalojar ==
    /\ cache["token"].hay
    /\ cache' = [cache EXCEPT !["token"] = Nada]
    /\ UNCHANGED <<cadena, pet>>

Mas(n) == IF n < MaxEdad THEN n + 1 ELSE n

PasarTiempo ==
    /\ cache' = [d \in DOMAIN cache |->
                   IF d = "token" \/ ~ cache[d].hay THEN cache[d]
                   ELSE Dato(Mas(cache[d].edad), Mas(cache[d].real))]
    /\ pet' = [p \in Peticiones |->
                 IF pet[p].paso \in {"global", "hash"} THEN [pet[p] EXCEPT !.edad = Mas(pet[p].edad)]
                 ELSE pet[p]]
    /\ UNCHANGED cadena

NextPreparar ==
    \/ \E p \in Preparadoras :
         \/ \E l \in Compras : Comprar(p, l)
         \/ \E pct \in Porcentajes : Vender(p, pct)
         \/ LlegarCuentas(p) \/ LlegarSaldo(p)
         \/ Aceptar(p) \/ Rechazar(p) \/ RechazarReintento(p)
         \/ LlegarCurva(p) \/ LlegarResaldo(p) \/ FallarRelectura(p)
    \/ \E p \in Calentadoras : Calentar(p)
    \/ \E p \in Peticiones :
         \/ \E d \in {"global", "token", "hash"} : LlegarDato(p, d)
         \/ Terminar(p)
    \/ \E c \in Curvas : MoverCurva(c)
    \/ \E s \in Saldos : MoverSaldo(s)
    \/ Completar
    \/ Desalojar
    \/ PasarTiempo

SpecPreparar == InitPreparar /\ [][NextPreparar]_varsPreparar

-----------------------------------------------------------------------------
(* Properties                                                              *)

Ordenes == [tokens : Nat, limite : Nat]

Tareas ==
    {Libre} \cup
    [lado : {"compra", "venta", "calienta"}, cantidad : Compras \cup Porcentajes \cup {0},
     paso : {"cuentas", "global", "token", "hash", "saldo", "simula", "curva", "resaldo",
             "reintento", "ofrecida"},
     curva : Curvas, alcanza : BOOLEAN, saldo : Nat, orden : Ordenes, mensaje : Ordenes, resumen : Ordenes,
     comps : 1 .. 2, prueba : 0 .. 2, reintentado : BOOLEAN, sims : Nat, edad : Edades]

PrepararTypeOK ==
    /\ curva \in Curvas /\ completa \in BOOLEAN /\ saldo \in Saldos
    /\ cache \in [{"global", "token", "hash"} -> [edad : Edades, real : Edades, hay : BOOLEAN]]
    /\ pet \in [Peticiones -> Tareas]

\* A transaction that the chain is asked about, or that is offered.
Propuesta(p) == pet[p].paso \in {"simula", "reintento", "ofrecida"}

\* What is taken from memory is really younger than its time to live, even if
\* the answer that brought it was slow or another one overtook it
\* (trade.py:284-324).
MemoriaFresca ==
    \A d \in {"global", "hash"} :
        Vigente(d, cache) => cache[d].real < (IF d = "hash" THEN BLOCKHASH_TTL ELSE GLOBAL_TTL)

\* What the summary tells the user is what the transaction does, whichever
\* composition and whichever retry came through (trade.py:656-739).
ResumenEsLaOrden == \A p \in Peticiones : Propuesta(p) => pet[p].resumen = pet[p].mensaje

\* The floor of a sale is the one of the tokens it sells, after the balance
\* was read again too: a floor of more tokens could not be met (trade.py:715-720).
SueloDeLoVendido ==
    \A p \in Peticiones :
        Propuesta(p) /\ pet[p].lado = "venta" =>
            pet[p].mensaje.limite = Suelo(Ingreso(pet[p].curva, pet[p].mensaje.tokens))

\* At the price it was computed with, a purchase costs what the user wrote
\* and not that plus its fee, after the price was read again too
\* (trade.py:553-556), and its cap does not grow with the price.
GastoEsElImporte ==
    \A p \in Peticiones :
        Propuesta(p) /\ pet[p].lado = "compra" =>
            /\ Cobro(pet[p].curva, pet[p].mensaje.tokens) <= pet[p].cantidad + 1
            /\ pet[p].mensaje.limite = Tope(pet[p].cantidad)

\* However the balance and the price move, the chain is asked at most once
\* more than there are compositions (trade.py:661-662, 672-673, 701-702).
UnSoloReintento ==
    \A p \in Peticiones : pet[p].paso # "libre" => pet[p].sims <= pet[p].comps + 1

=============================================================================
