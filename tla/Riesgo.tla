------------------------------- MODULE Riesgo --------------------------------
(***************************************************************************)
(* The risk engine and the stops (packages/risk: engine.py, stops.py,      *)
(* types.py) along a day of an account: how much a position may commit,   *)
(* when nothing may be opened, and which of the nine stops closes it.      *)
(*                                                                         *)
(* Neither keeps the account or the position: who calls them does, and is  *)
(* external.  The model gives them one that takes the size offered, applies*)
(* the stop that fires at every tick, and counts the day's result.  Prices *)
(* move as they like between ticks.  Fractions are per cent and amounts    *)
(* are units of equity; the limits of RiskLimits are CONSTANTS.            *)
(***************************************************************************)
EXTENDS Numeros, FiniteSets

CONSTANTS
    EQUITY,            \* equity when the day begins
    RIESGO,            \* risk_per_trade_pct, in hundredths of per cent
    POR_TOKEN,         \* max_exposure_per_token_pct
    PERDIDA_DIA,       \* max_daily_loss_pct
    CAIDA,             \* max_drawdown_pct
    RACHA,             \* max_consecutive_losses
    RESERVA,           \* min_sol_fee_reserve_lamports
    MAX_EXPUESTO,      \* max_total_exposure_lamports
    MAX_ORDER,         \* max_order_lamports
    MIN_ORDER,         \* min_order_lamports
    MAX_POSICIONES,    \* max_open_positions
    LIQUIDEZ_PCT,      \* max_liquidity_fraction, in per cent
    HARD,              \* hard_stop_loss_fraction, in per cent
    TRAILING,          \* trailing_drawdown_fraction, in per cent
    SOFT,              \* soft_stop_score_drop
    TOMA,              \* partial_take_profit_fraction, in per cent
    ARMADO,            \* break_even_trigger_fraction, in per cent
    PLAZO,             \* max_hold_seconds, in ticks
    Retornos,          \* what a tick may show of the position, in per cent
    Entradas,          \* SizingInputs
    Manuales,          \* bound: switches somebody trips by hand
    Averias,           \* bound: switches the snapshots of the market trip
    MaxAbiertas        \* bound: positions opened in the day

KillSwitch ==
    {"daily_loss", "drawdown", "consecutive_losses", "provider_down", "latency",
     "error_rate", "price_divergence", "balance_anomaly", "duplicate_transactions",
     "unexpected_exposure", "unauthorized_signature", "unapproved_config"}
PorCuenta == {"daily_loss", "drawdown", "consecutive_losses"}

ASSUME RiesgoAssumption ==
    /\ {EQUITY, RIESGO, POR_TOKEN, PERDIDA_DIA, CAIDA, RACHA, RESERVA, MAX_EXPUESTO,
        MAX_ORDER, LIQUIDEZ_PCT, SOFT, PLAZO, MaxAbiertas} \subseteq Nat
    /\ MIN_ORDER \in Nat \ {0}
    /\ MAX_POSICIONES = 1          \* the default, and the account below holds one
    /\ {HARD, TRAILING, TOMA, ARMADO} \subseteq 1 .. 100
    /\ Manuales \subseteq KillSwitch
    /\ Averias \subseteq KillSwitch \ PorCuenta
    /\ PERDIDA_DIA \in 1 .. 100
    /\ Retornos \subseteq -100 .. 1000
    /\ Entradas \subseteq [parada : 1 .. 100, liquidez : Nat, volatilidad : Nat,
                           confianza : 0 .. 100, correlada : Nat, salida : Nat]

\* As they ship: 0.5 % of the equity per trade and 3 % per day (types.py:49-51),
\* and an hour to hold (stops.py:26).  With more for a trade than for a day, the
\* first one may lose it all.
ASSUME LimitesAssumption == RIESGO <= 100 * PERDIDA_DIA /\ PLAZO > 0

VARIABLES
    disparados,        \* _tripped
    mercado,           \* what the snapshot trips by condition
    capital,           \* external: equity_lamports
    cumbre,            \* external: peak_equity_lamports
    dia,               \* external: realized_pnl_day_lamports
    racha,             \* external: consecutive_losses
    abiertas,          \* external: positions opened today
    puesto,            \* external: PositionState and what it committed
    peorHueco          \* ghost: what the gaps took beyond the stop distance

maquinaria == <<disparados, mercado>>
cuentaRiesgo == <<capital, cumbre, dia, racha, abiertas>>
varsRiesgo == <<maquinaria, cuentaRiesgo, puesto, peorHueco>>

Vacio ==
    [tamano |-> 0, parada |-> 0, retorno |-> 0, favorable |-> 0, edad |-> 0,
     parcial |-> FALSE, armada |-> FALSE]
Ocupado == puesto.tamano > 0

Minimo(S) == CHOOSE x \in S : \A y \in S : x <= y

-----------------------------------------------------------------------------
(* engine.py                                                               *)

\* Strictly beyond the limit; those of the market come with the snapshot.
kill_switches ==
    disparados \cup mercado \cup
    {s \in PorCuenta :
        \/ s = "daily_loss" /\ -dia * 100 > PERDIDA_DIA * Mayor(1, capital)
        \/ s = "drawdown" /\ (Mayor(1, cumbre) - capital) * 100 > CAIDA * Mayor(1, cumbre)
        \/ s = "consecutive_losses" /\ racha > RACHA}

\* The risk of one trade over the distance to its stop.
Presupuesto(e) == (Mayor(0, capital) * RIESGO) \div (100 * e.parada)

\* Mutant: the loss of the day does not reduce the size.
MutTrasPerdidas(modulado) == modulado

\* What is left of it the nearer the day is to its limit.
TrasPerdidas(modulado) ==
    LET limite == PERDIDA_DIA * Mayor(1, capital)
    IN  IF dia < 0 THEN (modulado * Mayor(0, limite + 100 * dia)) \div limite ELSE modulado

\* Volatility, confidence and correlation only reduce.
Modulado(e) == (Presupuesto(e) * e.confianza) \div (100 + e.volatilidad)
PorToken == (Mayor(0, capital) * POR_TOKEN) \div 100
Correlado(n, e) == (n * Mayor(1, PorToken)) \div (Mayor(1, PorToken) + e.correlada)

constraints(e) ==
    {Correlado(TrasPerdidas(Modulado(e)), e),
     PorToken,
     Mayor(0, MAX_EXPUESTO - puesto.tamano),
     (e.liquidez * LIQUIDEZ_PCT) \div 100,
     Mayor(0, capital - puesto.tamano - RESERVA - e.salida),
     MAX_ORDER}

\* The least of them, and nothing below the minimum.
size_position(e) ==
    LET lamports == Minimo(constraints(e))
    IN  IF lamports < MIN_ORDER THEN 0 ELSE lamports

can_open(e) ==
    /\ kill_switches = {}
    /\ (IF Ocupado THEN 1 ELSE 0) < MAX_POSICIONES
    /\ size_position(e) > 0

trip(s) ==
    /\ disparados' = disparados \cup {s}
    /\ UNCHANGED <<mercado, cuentaRiesgo, puesto, peorHueco>>

\* Nobody but an operator resets one.
reset(s, operador) ==
    /\ operador
    /\ disparados' = disparados \ {s}
    /\ UNCHANGED <<mercado, cuentaRiesgo, puesto, peorHueco>>

-----------------------------------------------------------------------------
(* stops.py                                                                *)

Parada(tipo, fraccion) == [tipo |-> tipo, fraccion |-> fraccion]
NINGUNA == Parada("ninguna", 0)

\* Mutant: what was given back is compared in points, not with the maximum.
MutDevuelto(p) == p.favorable > 0 /\ p.favorable - p.retorno >= TRAILING

Devuelto(p) ==
    p.favorable > 0 /\ (p.favorable - p.retorno) * 100 >= TRAILING * p.favorable

\* The first that fires, in this order.  senal is what else was measured:
\* whether there is no liquidity to leave, a whale or the creator is leaving,
\* the narrative is over, how much the score has dropped.
evaluate_stops(p, senal) ==
    IF senal.sinLiquidez THEN Parada("liquidity", 100)
    ELSE IF p.retorno <= -HARD THEN Parada("hard", 100)
    ELSE IF senal.ballena THEN Parada("whale_exit", 100)
    ELSE IF senal.agotada THEN Parada("narrative", 100)
    ELSE IF Devuelto(p) THEN Parada("trailing", 100)
    ELSE IF senal.bajada >= SOFT THEN Parada("soft", 100)
    ELSE IF ~p.parcial /\ p.retorno >= TOMA THEN Parada("partial_take_profit", 25)
    ELSE IF p.parcial /\ ~p.armada /\ p.retorno >= ARMADO THEN Parada("break_even", 0)
    ELSE IF p.edad >= PLAZO THEN Parada("time", 100)
    ELSE NINGUNA

Senales ==
    {[sinLiquidez |-> q = 1, ballena |-> q = 2, agotada |-> q = 3,
      bajada |-> IF q = 4 THEN SOFT ELSE 0] : q \in 0 .. 4}

-----------------------------------------------------------------------------
(* Who calls them                                                          *)

Salud ==
    /\ mercado' \in {{}} \cup {{s} : s \in Averias}
    /\ UNCHANGED <<disparados, cuentaRiesgo, puesto, peorHueco>>

Abrir ==
    /\ abiertas < MaxAbiertas
    /\ \E e \in Entradas :
          /\ can_open(e)
          /\ puesto' = [Vacio EXCEPT !.tamano = size_position(e), !.parada = e.parada]
    /\ abiertas' = abiertas + 1
    /\ UNCHANGED <<maquinaria, capital, cumbre, dia, racha, peorHueco>>

\* What closing a part of the position now adds to the account.  A loss is
\* rounded against it.
Resultado(p, fraccion) == (p.tamano * p.retorno * fraccion) \div 10000

Liquidar(p, fraccion) ==
    LET r == Resultado(p, fraccion)
        acordado == (p.tamano * p.parada) \div 100 + 1
    IN  /\ capital' = capital + r
        /\ cumbre' = Mayor(cumbre, capital + r)
        /\ dia' = dia + r
        /\ racha' = IF r < 0 THEN racha + 1 ELSE 0
        /\ peorHueco' = peorHueco + Mayor(0, -r - acordado)

\* A tick: the price has moved, all the stops are evaluated and the one that
\* fires is applied.
Tick ==
    /\ Ocupado
    /\ \E r \in Retornos, senal \in Senales :
          LET p == [puesto EXCEPT !.retorno = r, !.favorable = Mayor(@, r),
                                    !.edad = Menor(@ + 1, PLAZO + 3)]
              s == evaluate_stops(p, senal)
          IN  \/ /\ s.fraccion = 100
                 /\ Liquidar(p, 100)
                 /\ puesto' = Vacio
              \/ /\ s.fraccion = 25
                 /\ Liquidar(p, 25)
                 /\ puesto' = [p EXCEPT !.parcial = TRUE, !.tamano = @ - (@ \div 4)]
              \/ /\ s.fraccion = 0
                 /\ puesto' = [p EXCEPT !.armada = @ \/ s.tipo = "break_even"]
                 /\ UNCHANGED <<capital, cumbre, dia, racha, peorHueco>>
    /\ UNCHANGED <<maquinaria, abiertas>>

InitRiesgo ==
    /\ disparados = {} /\ mercado = {}
    /\ capital = EQUITY /\ cumbre = EQUITY
    /\ dia = 0 /\ racha = 0 /\ abiertas = 0
    /\ puesto = Vacio
    /\ peorHueco = 0

NextRiesgo ==
    \/ Salud \/ Abrir \/ Tick
    \/ \E s \in Manuales : trip(s) \/ \E operador \in BOOLEAN : reset(s, operador)

SpecRiesgo == InitRiesgo /\ [][NextRiesgo]_varsRiesgo

-----------------------------------------------------------------------------
(* Properties                                                              *)

\* Every variable keeps its type (RiskEngine: engine.py:24; PositionState:
\* stops.py:32).
RiesgoTypeOK ==
    /\ disparados \subseteq KillSwitch
    /\ mercado \subseteq KillSwitch
    /\ {capital, cumbre, dia} \subseteq Int
    /\ {racha, abiertas, peorHueco} \subseteq Nat
    /\ puesto \in [tamano : Nat, parada : 0 .. 100, retorno : Int, favorable : Nat,
                     edad : Nat, parcial : BOOLEAN, armada : BOOLEAN]

\* However many trades of a day lose, and however each of the limits binds,
\* the day loses no more than its limit plus what prices jumped past the
\* stops and a unit of rounding per trade: the size shrinks as the loss
\* grows, and what has been lost also shrinks the equity it is taken from
\* (size_position: engine.py:96-164).
PerdidaDelDiaAcotada ==
    -dia * 100 <= PERDIDA_DIA * EQUITY + 100 * (peorHueco + abiertas)

\* A position that has been in profit is never left open at a loss, and none
\* outlives its time by more than the two ticks that a partial exit and the
\* break-even that follows can put before the time stop (evaluate_stops:
\* stops.py:57-128).
NoSeQuedaAbierta ==
    /\ puesto.favorable > 0 => puesto.retorno > 0
    /\ puesto.edad < PLAZO + 2
=============================================================================
