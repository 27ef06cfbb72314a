-------------------------------- MODULE Series --------------------------------
(***************************************************************************)
(* What is read from the prices of a token while they arrive: the windows  *)
(* of the features (packages/features: windows.py), the labels and the     *)
(* samples of the models (packages/ml: labeling.py, training.py), the      *)
(* trailing stop replayed and the windows of a walk-forward                *)
(* (packages/simulation: trailing.py, walkforward.py).                     *)
(*                                                                         *)
(* A time is a natural, a price a natural, a profit in basis points of     *)
(* what was bought.  Fitting the estimator is left out: what a model may   *)
(* know is decided by the samples it is given.                             *)
(***************************************************************************)
EXTENDS Numeros, Sequences, FiniteSetsExt, SequencesExt

CONSTANTS
    Niveles,           \* trailing levels of a sweep, in per cent
    LADO_COSTE,        \* fee and slippage of one side, in bps
    Ventanas,          \* WINDOW_SECONDS
    SUBE, BAJA,        \* upper_return, lower_return, in per cent
    HORIZONTE,         \* horizon
    Purgas,            \* purge of a training window
    Precios,           \* what a series of prices may show
    Intervalos,        \* time between a price and the next
    MaxSerie           \* bound: length of a series

ASSUME SeriesAssumption ==
    /\ Niveles \subseteq 1 .. 99
    /\ LADO_COSTE \in 0 .. BASIS_POINTS
    /\ Ventanas \subseteq Nat /\ Purgas \subseteq Nat /\ Precios \subseteq Nat
    /\ Intervalos \subseteq Nat \ {0}
    /\ {SUBE, HORIZONTE} \subseteq Nat \ {0} /\ BAJA \in 1 .. 100
    /\ MaxSerie \in Nat

VARIABLE serie         \* the prices of a token so far, in order of time

Punto(at, precio) == [at |-> at, precio |-> precio]
Ahora(s) == IF s = << >> THEN 0 ELSE Last(s).at

-----------------------------------------------------------------------------
(* windows.py                                                              *)

window_bounds(ventana, as_of) == [inicio |-> as_of - ventana, fin |-> as_of]

\* What may be used, at its places in the series.
select_visible(s, ventana, as_of) ==
    LET w == window_bounds(ventana, as_of)
    IN  RestrictValues(s, LAMBDA o : w.inicio <= o.at /\ o.at <= w.fin)

\* The basic features.  velocity is a fraction: so many in so long.
compute(s, ventana, as_of) ==
    LET visible == select_visible(s, ventana, as_of)
        lugares == DOMAIN visible
        n == Cardinality(lugares)
        precio == [i \in lugares |-> visible[i].precio]
        dura == IF n = 0 THEN 0 ELSE visible[Max(lugares)].at - visible[Min(lugares)].at
    IN  [lookback_start_at |-> as_of - ventana,
         count |-> n,
         total |-> SumFunction(precio),
         maximum |-> IF n = 0 THEN 0 ELSE Max(Range(precio)),
         last |-> IF n = 0 THEN 0 ELSE precio[Max(lugares)],
         velocity |-> IF n < 2 \/ dura = 0 THEN <<0, 1>> ELSE <<n, dura>>]

-----------------------------------------------------------------------------
(* labeling.py                                                             *)

\* The first later point where a barrier is touched; nothing, until there is
\* one: what is not resolved has no label.
Resuelve(s, i) ==
    {j \in i + 1 .. Len(s) :
        \/ s[j].precio * 100 >= s[i].precio * (100 + SUBE)
        \/ s[j].precio * 100 <= s[i].precio * (100 - BAJA)
        \/ s[j].at >= s[i].at + HORIZONTE}

label_observation(s, i) ==
    IF s[i].precio <= 0 \/ Resuelve(s, i) = {} THEN {}
    ELSE LET j == Min(Resuelve(s, i))
         IN  {[at |-> s[i].at,
               label |-> IF s[j].precio > s[i].precio THEN 1 ELSE 0,
               resolved_at |-> s[j].at,
               mejor |-> Max({0} \cup {s[k].precio - s[i].precio : k \in i + 1 .. j}),
               peor |-> Min({0} \cup {s[k].precio - s[i].precio : k \in i + 1 .. j})]}

label_series(s) == UNION {label_observation(s, i) : i \in DOMAIN s}

max_resolution(labels) == Max({0} \cup {l.resolved_at - l.at : l \in labels})

-----------------------------------------------------------------------------
(* training.py                                                             *)

\* Mutant: a sample is good when it was seen in time, however late its label.
MutSelectTrain(labels, train_end, purge) == {l \in labels : l.at <= train_end - purge}

select_train(labels, train_end, purge) ==
    {l \in labels : l.at <= train_end - purge /\ l.resolved_at <= train_end - purge}

-----------------------------------------------------------------------------
(* trailing.py                                                             *)

Cima(s, hasta) == Max({s[i].precio : i \in 1 .. hasta})

\* Where the price has fallen from the running peak by the level or more.
Saltos(s, nivel) ==
    {i \in 2 .. Len(s) : Cima(s, i) > 0 /\ (Cima(s, i) - s[i].precio) * 100 >= nivel * Cima(s, i)}

Utilizable(s) == Len(s) >= 2 /\ s[1].precio > 0

backtest_series(s, nivel) ==
    LET salta == Saltos(s, nivel) # {}
        donde == IF salta THEN Min(Saltos(s, nivel)) ELSE Len(s)
        cumbre == Min({i \in DOMAIN s : s[i].precio = Cima(s, Len(s))})
    IN  [exit_index |-> donde,
         exit_reason |-> IF salta THEN "trailing" ELSE "fin de serie",
         captured_peak |-> donde >= cumbre,
         profit |-> Truncado((BASIS_POINTS - LADO_COSTE) * s[donde].precio, s[1].precio)
                    - (BASIS_POINTS + LADO_COSTE)]

\* A series that cannot be used is dropped, not the sweep.
sweep(casos, nivel) ==
    LET utiles == {s \in casos : Utilizable(s)}
        hechos(s) == backtest_series(s, nivel)
    IN  [trailing |-> nivel,
         cases |-> Cardinality(utiles),
         winners |-> Cardinality({s \in utiles : hechos(s).profit > 0}),
         losers |-> Cardinality({s \in utiles : hechos(s).profit < 0}),
         captured_peak |-> Cardinality({s \in utiles : hechos(s).captured_peak})]

-----------------------------------------------------------------------------
(* walkforward.py                                                          *)

Tramo(desde, hasta) == [desde |-> desde, hasta |-> hasta]

TimeSplit(p, inicio) ==
    LET v == inicio + p.train + p.purge
        t == v + p.validation + p.purge
    IN  [train |-> Tramo(inicio, inicio + p.train),
         validation |-> Tramo(v, v + p.validation),
         test |-> Tramo(t, t + p.test)]

\* The cursor advances by step while a whole window fits.
walk_forward_splits(p) ==
    LET span == p.train + p.validation + p.test + 2 * p.purge
    IN  {TimeSplit(p, k * p.step) : k \in {n \in 0 .. p.fin : n * p.step + span <= p.fin}}

\* Half-open, so an item is in one part at most.
select(split, parte, momentos) ==
    {t \in momentos : split[parte].desde <= t /\ t < split[parte].hasta}

-----------------------------------------------------------------------------
(* The series grows                                                        *)

InitSerie == serie = << >>

Llega ==
    /\ Len(serie) < MaxSerie
    /\ \E p \in Precios, d \in Intervalos : serie' = Append(serie, Punto(Ahora(serie) + d, p))

SpecSerie == InitSerie /\ [][Llega]_serie

-----------------------------------------------------------------------------
(* Properties                                                              *)

Cortes(s) == {s[i].at : i \in DOMAIN s}

Prefijos == {SubSeq(serie, 1, n) : n \in 0 .. Len(serie)}

\* With the purge max_resolution measures, the label of no training sample is
\* resolved inside the validation, nor that of a validation sample inside the
\* test (TimeSplit, walkforward.py:24-114; max_resolution, labeling.py:119);
\* and a wider trailing stop captures every peak that a tighter one does
\* (sweep, trailing.py:116-179).
VentanasSeparadas ==
    LET labels == label_series(serie)
        p == [train |-> 2, validation |-> 1, test |-> 1, step |-> 1,
              purge |-> max_resolution(labels), fin |-> Ahora(serie)]
        hasta(split, parte) == {l.resolved_at : l \in
            {l \in labels : l.at \in select(split, parte, Cortes(serie))}}
    IN  /\ \A split \in walk_forward_splits(p) :
              /\ \A t \in hasta(split, "train") : t < split["validation"].desde
              /\ \A t \in hasta(split, "validation") : t < split["test"].desde
        /\ \A n, ancho \in Niveles : n <= ancho =>
              sweep(Prefijos, n).captured_peak <= sweep(Prefijos, ancho).captured_peak

\* What arrives changes nothing that was computed about a moment.
NoCambiaLoVisto ==
    /\ \A as_of \in Cortes(serie), v \in Ventanas :
          compute(serie', v, as_of) = compute(serie, v, as_of)
    /\ \A as_of \in Cortes(serie), p \in Purgas :
          select_train(label_series(serie'), as_of, p) = select_train(label_series(serie), as_of, p)
    /\ \A n \in Niveles :
          Utilizable(serie) /\ backtest_series(serie, n).exit_reason = "trailing" =>
              /\ backtest_series(serie', n).exit_index = backtest_series(serie, n).exit_index
              /\ backtest_series(serie', n).profit = backtest_series(serie, n).profit

\* Nothing that is computed about a moment changes with what arrives later:
\* the features of a window (select_visible, windows.py:78-87), where and for
\* how much a trailing stop has closed (trailing.py:62-113), and the samples a
\* model trained at a moment is given, with their labels (select_train,
\* training.py:56-64; label_observation, labeling.py:74-109); and the windows
\* of a walk forward keep apart.
NadaMiraAdelante ==
    /\ []VentanasSeparadas
    /\ [][NoCambiaLoVisto]_serie
=============================================================================
