------------------------------- MODULE Backtest -------------------------------
(***************************************************************************)
(* What is made of a simulation (packages/simulation: metrics.py): the     *)
(* metrics of its closed trades and the verdict on them.  A fraction is in *)
(* basis points.  Sharpe, sortino and the percentiles of slippage and      *)
(* latency are left out: they are the same operators over other numbers,   *)
(* or square roots.                                                        *)
(***************************************************************************)
EXTENDS Simulador, FiniteSetsExt, SequencesExt

CONSTANTS
    MIN_TRADES,        \* CandidateCriteria.min_trades
    MIN_FACTOR,        \* min_profit_factor, in bps
    MAX_CAIDA          \* max_drawdown, in bps

ASSUME BacktestAssumption == {MIN_TRADES, MIN_FACTOR, MAX_CAIDA} \subseteq Nat

-----------------------------------------------------------------------------
(* metrics.py                                                              *)

return_fraction(o) ==
    IF o.coste > 0 THEN Truncado(net_pnl(o) * BASIS_POINTS, o.coste) ELSE 0

\* round() of n * centesimas / 100: to the even one when half-way.
Redondeo(n, centesimas) ==
    LET p == n * centesimas
        bajo == p \div 100
        resto == p % 100
    IN  IF resto > 50 \/ (resto = 50 /\ bajo % 2 = 1) THEN bajo + 1 ELSE bajo

\* How many values are no larger than the one at i.
HastaEl(valores, i) == Cardinality({j \in DOMAIN valores : valores[j] <= valores[i]})

\* Nearest rank, no interpolation: the value that sorting them leaves there.
percentile(valores, centesimas) ==
    IF valores = << >> THEN 0
    ELSE LET n == Len(valores)
             rango == Menor(n - 1, Mayor(0, Redondeo(n, centesimas) - 1))
         IN  Min({valores[i] : i \in {i \in 1 .. n : HastaEl(valores, i) > rango}})

consecutive_losses(ops) ==
    LET racha[n \in 0 .. Len(ops)] ==
            IF n = 0 THEN 0 ELSE IF net_pnl(ops[n]) < 0 THEN racha[n - 1] + 1 ELSE 0
    IN  Max({racha[n] : n \in 0 .. Len(ops)})

\* The sum of what is earned, of what is lost, of the fees and before them.
Ganado(ops) == SumFunction([i \in DOMAIN ops |-> Mayor(0, net_pnl(ops[i]))])
Perdido(ops) == SumFunction([i \in DOMAIN ops |-> Mayor(0, -net_pnl(ops[i]))])
Tasado(ops) == SumFunction([i \in DOMAIN ops |-> ops[i].tasas])
EnBruto(ops) == SumFunction([i \in DOMAIN ops |-> ops[i].ingreso - ops[i].coste])

\* The mean of the values no larger than the limit.
MediaDeLaCola(valores, limite) ==
    LET cola == RestrictValues(valores, LAMBDA r : r <= limite)
    IN  Truncado(SumFunction(cola), Mayor(1, Cardinality(DOMAIN cola)))

\* final_equity_lamports, max_drawdown and failed_fills come from the run.
compute_metrics(ops) ==
    LET rets == [i \in DOMAIN ops |-> return_fraction(ops[i])]
        var == percentile(rets, 5)
    IN  [trades |-> Len(ops),
         net_return |-> equidad - Capital,
         win_rate |-> [de |-> Cardinality({i \in DOMAIN rets : rets[i] > 0}), entre |-> Len(rets)],
         profit_factor |-> IF Perdido(ops) > 0
                           THEN (Ganado(ops) * BASIS_POINTS) \div Perdido(ops) ELSE 0,
         max_drawdown |-> (peor.caida * BASIS_POINTS) \div Mayor(1, peor.pico),
         var95 |-> var,
         es95 |-> IF rets = << >> THEN 0 ELSE MediaDeLaCola(rets, var),
         max_consecutive_losses |-> consecutive_losses(ops),
         fill_rate |-> [de |-> Len(ops), entre |-> intentos],
         failed_rate |-> [de |-> fallos["tx_failed"] + fallos["quote_expired"], entre |-> intentos],
         cost_drag |-> [de |-> Tasado(ops), entre |-> EnBruto(ops)]]

Salvo(ops, quitadas) ==
    SumFunction([i \in DOMAIN ops \ quitadas |-> net_pnl(ops[i])])

\* One in a hundred trades, and one at least.
Extremas(ops) == {m \in SUBSET DOMAIN ops : Cardinality(m) = Mayor(1, Len(ops) \div 100)}

\* Mutant: what is dropped is the worst one.
MutSurvives(ops) ==
    LET peores == CHOOSE m \in Extremas(ops) :
            \A i \in m, j \in DOMAIN ops \ m : net_pnl(ops[i]) <= net_pnl(ops[j])
    IN  ops # << >> /\ Salvo(ops, peores) > 0

survives_without_outliers(ops) ==
    LET mejores == CHOOSE m \in Extremas(ops) :
            \A i \in m, j \in DOMAIN ops \ m : net_pnl(ops[i]) >= net_pnl(ops[j])
    IN  ops # << >> /\ Salvo(ops, mejores) > 0

\* Every reason to refuse, not the first one.
evaluate_candidate(m, ops) ==
    {razon \in {"pocas", "neto", "factor", "caida", "suerte"} :
        \/ razon = "pocas" /\ m.trades < MIN_TRADES
        \/ razon = "neto" /\ m.net_return <= 0
        \/ razon = "factor" /\ m.profit_factor < MIN_FACTOR
        \/ razon = "caida" /\ m.max_drawdown > MAX_CAIDA
        \/ razon = "suerte" /\ ~survives_without_outliers(ops)}

-----------------------------------------------------------------------------
(* Properties                                                              *)

Rachas == {r \in (DOMAIN operaciones) \X (DOMAIN operaciones) :
              r[1] <= r[2] /\ \A k \in r[1] .. r[2] : net_pnl(operaciones[k]) < 0}

\* The metrics of a run agree with each other after every event
\* (compute_metrics, evaluate_candidate: metrics.py:107-248): the longest run
\* of losses is one of the history, the mean of the tail is no better than the
\* percentile that bounds it, a profit factor above one means that the trades
\* earn more than they lose, and a candidate still earns without any one of
\* its trades.
MetricasCoherentes ==
    LET m == compute_metrics(operaciones)
    IN  /\ m.max_consecutive_losses = Max({0} \cup {r[2] - r[1] + 1 : r \in Rachas})
        /\ m.es95 <= m.var95
        /\ m.profit_factor > BASIS_POINTS => neto > 0
        /\ Ganado(operaciones) - Perdido(operaciones) = neto
        /\ evaluate_candidate(m, operaciones) = {} =>
              \A i \in DOMAIN operaciones : neto > net_pnl(operaciones[i])
=============================================================================
