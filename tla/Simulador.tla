------------------------------ MODULE Simulador ------------------------------
(***************************************************************************)
(* The event-driven simulator (packages/simulation: engine.py, fills.py,   *)
(* latency.py): one event of the market at a time, the order a strategy    *)
(* gives for it, the fate of that order, and the cash, the position and    *)
(* the closed trades it leaves.                                            *)
(*                                                                         *)
(* The strategy is any: every action is chosen at every event.  What the   *)
(* random generator decides (an old quote, a drift, somebody ahead, a      *)
(* failure on chain) is chosen at every order.  Time is the number of the  *)
(* event.                                                                  *)
(***************************************************************************)
EXTENDS Curva, Sequences, FiniteSets

CONSTANTS
    Curvas,            \* the reserves an event may show
    Importes,          \* lamports a strategy may ask to spend
    Capital,           \* initial_capital_lamports
    TASAS,             \* base_fee_lamports + priority_fee_lamports
    MAX_IMPACTO,       \* max_price_impact_bps
    MEV,               \* mev_adverse_bps
    Derivas,           \* price drift while the transaction travels, in bps
    COMPETENCIA,       \* competition_liquidity_fraction, in per cent
    MAX_HOLD,          \* max_hold, in events
    MaxEventos         \* bound: length of the history

ASSUME SimuladorAssumption ==
    /\ Curvas \subseteq CurveState
    /\ \A c \in Curvas : c.rt < c.vt
    /\ Importes \subseteq Nat
    /\ {Capital, TASAS, MAX_IMPACTO, MEV, MaxEventos} \subseteq Nat
    /\ MAX_HOLD \in Nat \ {0}
    /\ COMPETENCIA \in 0 .. 100
    /\ Derivas \subseteq Int

VARIABLES
    evento,            \* how many events have been handled
    curva,             \* the curve of the last one
    caja,              \* cash
    posicion,          \* the open position, or SinPosicion
    entrada,           \* status of entry_fill
    operaciones,       \* trades
    fallos,            \* failures: status -> times
    intentos,          \* attempts
    atascadas,         \* stuck
    pico,              \* peak
    equidad,           \* the last point of the equity curve
    peor,              \* the point of the largest drawdown
    neto,              \* ghost: net result of the closed trades
    perdidas,          \* ghost: fees of the orders that came to nothing
    pagadas,           \* ghost: every fee paid
    compras            \* ghost: failed purchases

cuenta == <<caja, posicion, entrada, operaciones, fallos, intentos, atascadas>>
fantasmas == <<neto, perdidas, pagadas, compras>>
varsSimulador == <<evento, curva, cuenta, pico, equidad, peor, fantasmas>>

EXITO == {"filled", "partial"}
FRACASO == {"quote_expired", "impact_rejected", "tx_failed", "no_liquidity"}
FillStatus == EXITO \cup FRACASO \cup {"cannot_exit"}

SinPosicion == [tokens |-> 0, coste |-> 0, tasas |-> 0, desde |-> 0]
Abierta == posicion.tokens > 0

\* What chance decides of one order.
Azar == [caducada : BOOLEAN, deriva : Derivas, mev : BOOLEAN, falla : BOOLEAN]

Relleno(estado, gasto, tokens, tasas) ==
    [estado |-> estado, gasto |-> gasto, tokens |-> tokens, tasas |-> tasas]

-----------------------------------------------------------------------------
(* The fate of an order                                                    *)

\* The drift moves the virtual reserve of SOL, so the curve stays coherent.
drifted_curve(c, bps) ==
    LET movida == IF BASIS_POINTS + bps <= 0 THEN c.vs \div 100
                  ELSE (c.vs * (BASIS_POINTS + bps)) \div BASIS_POINTS
    IN  [c EXCEPT !.vs = Mayor(1, movida)]

CurvaAlLlegar(c, azar, sentido) ==
    drifted_curve(c, azar.deriva + (IF azar.mev THEN sentido * MEV ELSE 0))

\* What the other bots leave.
Disponible(c) == (c.rt * (100 - COMPETENCIA)) \div 100

\* Mutant: the fraction of a partial fill is upside down.
MutRellenoDeCompra(c, lamports) ==
    LET pedidos == tokens_out_for_sol(c, lamports)
        dados == Menor(pedidos, Disponible(c))
    IN  IF dados <= 0 THEN Relleno("no_liquidity", 0, 0, TASAS)
        ELSE Relleno(IF pedidos > dados THEN "partial" ELSE "filled",
                     (lamports * pedidos) \div dados, dados, TASAS)

\* An order larger than what is left is filled in part, and pays its part.
RellenoDeCompra(c, lamports) ==
    LET pedidos == tokens_out_for_sol(c, lamports)
        dados == Menor(pedidos, Disponible(c))
    IN  IF dados <= 0 THEN Relleno("no_liquidity", 0, 0, TASAS)
        ELSE Relleno(IF pedidos > dados THEN "partial" ELSE "filled",
                     (lamports * dados) \div pedidos, dados, TASAS)

simulate_buy(c, lamports, azar) ==
    LET llegada == CurvaAlLlegar(c, azar, 1)
    IN  IF azar.caducada THEN Relleno("quote_expired", 0, 0, TASAS)
        ELSE IF Disponible(llegada) <= 0 THEN Relleno("no_liquidity", 0, 0, TASAS)
        ELSE IF price_impact_bps(llegada, lamports) > MAX_IMPACTO
             THEN Relleno("impact_rejected", 0, 0, 0)
        ELSE IF azar.falla THEN Relleno("tx_failed", 0, 0, TASAS)
        ELSE RellenoDeCompra(llegada, lamports)

\* A sale gives what the curve gives for all the tokens; gasto is negative.
simulate_sell(c, tokens, azar, bloqueada) ==
    LET ingreso == sol_out_for_tokens(CurvaAlLlegar(c, azar, -1), tokens)
    IN  IF bloqueada THEN Relleno("cannot_exit", 0, 0, TASAS)
        ELSE IF azar.caducada THEN Relleno("quote_expired", 0, 0, TASAS)
        ELSE IF azar.falla THEN Relleno("tx_failed", 0, 0, TASAS)
        ELSE IF ingreso <= 0 THEN Relleno("no_liquidity", 0, 0, TASAS)
        ELSE Relleno("filled", -ingreso, -tokens, TASAS)

-----------------------------------------------------------------------------
(* One event                                                               *)

Contado(estado) == [fallos EXCEPT ![estado] = @ + 1]

\* What every event ends with, whatever its order did: the position is worth
\* what selling it now would give.
Marcar(c) ==
    LET valor == caja' + sol_out_for_tokens(c, posicion'.tokens)
        cima == Mayor(pico, valor)
    IN  /\ equidad' = valor
        /\ pico' = cima
        /\ peor' = IF cima > 0 /\ (cima - valor) * peor.pico > peor.caida * cima
                   THEN [caida |-> cima - valor, pico |-> cima]
                   ELSE peor

\* Nothing is ordered, or an order that the engine does not take: a purchase
\* with a position open or beyond the cash, a sale without one.
Esperar(c) ==
    /\ ~Abierta \/ evento + 1 - posicion.desde < MAX_HOLD
    /\ UNCHANGED <<cuenta, fantasmas>>
    /\ Marcar(c)

Comprar(c) ==
    /\ ~Abierta
    /\ \E lamports \in Importes, azar \in Azar :
          LET r == simulate_buy(c, lamports, azar)
          IN  /\ lamports > 0
              /\ lamports <= caja
              /\ intentos' = intentos + 1
              /\ caja' = caja - r.gasto - r.tasas
              /\ entrada' = r.estado
              /\ pagadas' = pagadas + r.tasas
              /\ IF r.estado \in EXITO
                 THEN /\ posicion' = [tokens |-> r.tokens, coste |-> r.gasto,
                                      tasas |-> r.tasas, desde |-> evento + 1]
                      /\ UNCHANGED <<fallos, perdidas, compras>>
                 ELSE /\ fallos' = Contado(r.estado)
                      /\ perdidas' = perdidas + r.tasas
                      /\ compras' = compras + 1
                      /\ UNCHANGED posicion
    /\ UNCHANGED <<operaciones, atascadas, neto>>
    /\ Marcar(c)

Operacion(ingreso, r) ==
    [coste |-> posicion.coste, ingreso |-> ingreso, tasas |-> posicion.tasas + r.tasas,
     entrada |-> entrada, salida |-> r.estado]

net_pnl(o) == o.ingreso - o.coste - o.tasas

Cerrar(ingreso, r) ==
    LET o == Operacion(ingreso, r)
    IN  /\ operaciones' = Append(operaciones, o)
        /\ neto' = neto + net_pnl(o)
        /\ posicion' = SinPosicion

\* Mutant: the fees of a sale that failed are not taken from the cash.
MutTrasVender(r) == caja - r.gasto - (IF r.estado \in FRACASO THEN 0 ELSE r.tasas)

TrasVender(r) == caja - r.gasto - r.tasas

\* The strategy sells, or the position has been held too long.  A sale that
\* fails keeps the position; one that is blocked closes it for nothing.
Vender(c) ==
    /\ Abierta
    /\ \E azar \in Azar, bloqueada \in BOOLEAN :
          LET r == simulate_sell(c, posicion.tokens, azar, bloqueada)
          IN  /\ caja' = TrasVender(r)
              /\ pagadas' = pagadas + r.tasas
              /\ \/ /\ r.estado \in EXITO
                    /\ Cerrar(-r.gasto, r)
                    /\ UNCHANGED <<fallos, atascadas, perdidas>>
                 \/ /\ r.estado = "cannot_exit"
                    /\ Cerrar(0, r)
                    /\ atascadas' = atascadas + 1
                    /\ UNCHANGED <<fallos, perdidas>>
                 \/ /\ r.estado \in FRACASO
                    /\ fallos' = Contado(r.estado)
                    /\ perdidas' = perdidas + r.tasas
                    /\ UNCHANGED <<operaciones, neto, posicion, atascadas>>
    /\ UNCHANGED <<entrada, intentos, compras>>
    /\ Marcar(c)

Evento ==
    /\ evento < MaxEventos
    /\ evento' = evento + 1
    /\ \E c \in Curvas :
          /\ curva' = c
          /\ Esperar(c) \/ Comprar(c) \/ Vender(c)

InitSimulador ==
    /\ evento = 0
    /\ curva \in Curvas
    /\ caja = Capital
    /\ posicion = SinPosicion
    /\ entrada = "filled"
    /\ operaciones = << >>
    /\ fallos = [e \in FRACASO |-> 0]
    /\ intentos = 0
    /\ atascadas = 0
    /\ pico = Capital
    /\ equidad = Capital
    /\ peor = [caida |-> 0, pico |-> 1]
    /\ neto = 0 /\ perdidas = 0 /\ pagadas = 0 /\ compras = 0

SpecSimulador == InitSimulador /\ [][Evento]_varsSimulador

-----------------------------------------------------------------------------
(* Properties                                                              *)

\* Every variable keeps its type along any sequence of events (run:
\* engine.py:191).
SimuladorTypeOK ==
    /\ evento \in 0 .. MaxEventos
    /\ curva \in Curvas
    /\ {caja, equidad, neto} \subseteq Int
    /\ posicion \in [tokens : Nat, coste : Nat, tasas : Nat, desde : 0 .. MaxEventos]
    /\ entrada \in FillStatus
    /\ operaciones \in Seq([coste : Nat, ingreso : Nat, tasas : Nat,
                             entrada : FillStatus, salida : FillStatus])
    /\ fallos \in [FRACASO -> Nat]
    /\ {intentos, atascadas, pico, perdidas, pagadas, compras} \subseteq Nat
    /\ peor \in [caida : Nat, pico : Nat]

\* The books balance after every event, whatever failed: the cash is the
\* capital, plus the net result of the closed trades, minus the fees of the
\* orders that came to nothing, minus what the open position cost; and every
\* attempt to buy is a closed trade, the open position or a failure
\* (run, engine.py:237-331).  The trades alone do not say what was lost: the
\* fees of failed orders are in no trade.
LibroCuadra ==
    /\ caja = Capital + neto - perdidas - posicion.coste - posicion.tasas
    /\ intentos = Len(operaciones) + compras + (IF Abierta THEN 1 ELSE 0)

\* The fees of one order are the only thing the cash may lack: a purchase is
\* checked against the cash without its fees (engine.py:238), and a position
\* that cannot be sold keeps paying for its attempts (engine.py:272), but no
\* lamport of capital is spent twice.
SinApalancamiento == caja + pagadas >= 0

\* Buying and selling back at once leaves at most one unit of token and one
\* lamport more than it cost, the price of the division that rounds up the
\* tokens that leave (tokens_out_for_sol, sol_out_for_tokens: curve.py:69-89).
IdaYVueltaAcotada ==
    \A lamports \in Importes :
        lamports > 0 => (Vuelta(curva, lamports) - 1) * curva.vt < curva.vs + lamports
=============================================================================
