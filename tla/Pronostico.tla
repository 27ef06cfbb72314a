------------------------------ MODULE Pronostico ------------------------------
(***************************************************************************)
(* A forecast of the command-line analyser, from what it has measured to   *)
(* the conditions of entry (ps/analyze.py and ps/setup.py).                *)
(*                                                                         *)
(* The probabilities and the three scenarios come by two ways, the model   *)
(* and the resampled returns, that are cut to agree.  Here the returns and *)
(* what price_stats measures of them are given; whales and the texts are   *)
(* left out.                                                               *)
(***************************************************************************)
EXTENDS Modelo, Niveles

CONSTANTS
    Medidas,           \* what the sources may say of a token
    Horizontes,        \* seconds that are asked for
    DRAWS,             \* draws of the resampling
    MIN_FINAS          \* trades that make candles: 24

\* What the sources say: the curve, hours of age, trades, who made the token,
\* candles, the best pair and the pool, and what is taken as measured.
Curvas == [complete : BOOLEAN, vsol : Nat, vtok : Nat, rtok : Nat]
Trades == [wallet : Nat, kind : {"buy", "sell"}, usd : Nat, ts : Nat, price : Int]
Velas1 == [h : Int, l : Int, c : Int, v : Nat]
EsPar(p) ==
    /\ p.have \in BOOLEAN /\ {p.liq, p.vol} \subseteq Nat
    /\ DOMAIN p.cambio \subseteq {"m5", "h1", "h6", "h24"}
    /\ \A k \in DOMAIN p.cambio : p.cambio[k] \in Int
EsMedida(m) ==
    /\ m.curva \in Curvas /\ m.trades \in Seq(Trades) /\ m.velas \in Seq(Velas1)
    /\ EsPar(m.par) /\ EsPar(m.pool)
    /\ {m.age, m.z, m.overext} \subseteq Int /\ {m.creador, m.move, m.atr} \subseteq Nat

ASSUME PronosticoAssumption ==
    /\ \A m \in Medidas : EsMedida(m)
    /\ Horizontes \subseteq Nat \ {0}
    /\ DRAWS \in Nat /\ DRAWS > 1
    /\ MIN_FINAS \in Nat \ {0}

VARIABLES
    medida,            \* what the sources said
    horizonte,         \* what was asked for
    fase,              \* "fuentes", "medido", "predicho", "concluido"
    informe            \* the forecast so far

varsPronostico == <<medida, horizonte, fase, informe>>

\* What is reported, with more.
Amplia(f, g) == [c \in DOMAIN f \cup DOMAIN g |-> IF c \in DOMAIN f THEN f[c] ELSE g[c]]

-----------------------------------------------------------------------------
(* Candles                                                                 *)

\* Minutes of a candle: by age, and no more than a fifth of the horizon.
timeframe_for(age, h) ==
    LET edad == IF age < 3 THEN 1 ELSE IF age < 24 THEN 5 ELSE IF age < 168 THEN 15 ELSE 60
        caben == {m \in {1, 5, 15, 60} : 300 * m <= h}
    IN  IF caben = {} THEN 1 ELSE Menor(edad, Max(caben))

\* Those of the source, or those made of the trades when a candle is longer
\* than the horizon or there are few; with the seconds of each.
VelasEnUso(m, h) ==
    LET pedido == Mayor(1, h \div 6)
        finas == pedido < 60 /\ Len(m.trades) >= MIN_FINAS
        span == Mayor(1, Last(m.trades).ts - m.trades[1].ts)
        porSpan == Mayor(1, span \div 60)
        bucket == IF finas THEN Menor(pedido, porSpan) ELSE porSpan
        synth == candles_from_trades(m.trades, bucket)
    IN  IF /\ Len(m.velas) < 20 \/ finas
           /\ Len(m.trades) >= MIN_FINAS
           /\ Len(synth) >= 12
           /\ finas \/ Len(synth) > Len(m.velas)
        THEN [velas |-> synth, tf |-> bucket]
        ELSE [velas |-> m.velas, tf |-> 60 * timeframe_for(m.age, h)]

\* Three times the history at most, and fifteen seconds at least.
Recorte(uso, h) ==
    LET span == Len(uso.velas) * uso.tf
    IN  IF span > 0 THEN Menor(h, Mayor(3 * span, 15)) ELSE h

price_stats(m, velas) ==
    [n |-> Len(velas), ret_z |-> Si(velas # << >>, m.z), overext |-> Si(velas # << >>, m.overext),
     dd |-> IF velas = << >> THEN 0 ELSE Cambio(Last(velas).c - Maximo(velas))]

-----------------------------------------------------------------------------
(* Scenarios                                                               *)

\* The distribution is cut where the model says.
Cortes(probs) ==
    LET lo == Menor(48, Mayor(2, probs["BAJADA"]))
    IN  [lo |-> lo, hi |-> Mayor(lo + 4, Menor(98, 100 - probs["SUBIDA"]))]

cap(r) == Entre(r, -1600, 1600)

\* Returns at the edges of the range, and if it breaks; by volatility alone
\* when there is no sample.
Bandas(boot, probs, move) ==
    LET q == Cortes(probs)
    IN  IF boot # << >>
        THEN [lo |-> cap(quantile(boot, q.lo)), hi |-> cap(quantile(boot, q.hi)),
              up |-> cap(ColaMediana(boot, q.hi)), dn |-> cap(CabezaMediana(boot, q.lo))]
        ELSE [lo |-> Truncado(-45 * move, 100), hi |-> Truncado(45 * move, 100),
              up |-> move, dn |-> -move]

\* The change in per cent of each scenario; NIL when there is no price or the
\* return is 0.
NIL == 100000
Escenarios(conPrecio, price, ns, bandas) ==
    LET Hay(r) == conPrecio /\ r # 0
    IN  [up |-> IF Hay(bandas.up) THEN Cambio(pick_target(price, bandas.up, ns.res, TRUE) - price) ELSE NIL,
         dn |-> IF Hay(bandas.dn) THEN Cambio(pick_target(price, bandas.dn, ns.sup, FALSE) - price) ELSE NIL,
         lo |-> IF Hay(bandas.lo) THEN Cambio(bandas.lo) ELSE NIL,
         hi |-> IF Hay(bandas.hi) THEN Cambio(bandas.hi) ELSE NIL]

-----------------------------------------------------------------------------
(* setup.py: conditions of entry                                           *)

\* In per cent.  A pool whose liquidity is not known costs nothing.
deslizamiento(size, liq) ==
    LET x == 1000 + (2000 * size) \div liq
    IN  IF liq <= 0 THEN 0 ELSE ((x * x) \div 1000 - 1000) \div 10
coste(size, liq, en_curva) ==
    IF liq <= 0 THEN 0 ELSE 2 * deslizamiento(size, liq) + (IF en_curva THEN 2 ELSE 0)

valor_esperado(probs, s) ==
    LET rango == IF s.lo # NIL /\ s.hi # NIL THEN Truncado(s.lo + s.hi, 2) ELSE 0
    IN  Truncado(probs["RANGO"] * rango + Si(s.up # NIL, probs["SUBIDA"] * s.up)
                 + Si(s.dn # NIL, probs["BAJADA"] * s.dn), 100)

evalua(curve, flow, liq, stats, pred, s) ==
    LET ref == Entre(liq.liq \div 200, 50, 2000)
        coste1 == coste(ref, liq.liq, ~curve.complete)
        neto == valor_esperado(pred.probs, s) - coste1
        rr == IF s.up \in {0, NIL} \/ s.dn \in {0, NIL} THEN NIL
              ELSE Truncado(s.up * 100, Mayor(s.dn, -s.dn))
        descartes == {flow.dev_sold > 0, flow.hhi > 30, liq.liq > 0 /\ liq.liq < 2500, neto < -8}
        rojas == << neto \in -8 .. -1, rr < 100, pred.probs["BAJADA"] > 50, coste1 > 6,
                    flow.decay < -35, stats.dd < -60 >>
        verdes == << neto > 3, rr # NIL /\ rr >= 180, pred.probs["SUBIDA"] > 45, flow.buyer_share > 58,
                     coste1 < 2, ~curve.complete /\ curve.progress > 70, flow.wallets > 80 >>
        Cuantas(fs) == Cardinality({i \in DOMAIN fs : fs[i]})
    IN  IF TRUE \in descartes THEN "ADVERSAS"
        ELSE IF Cuantas(rojas) >= 3 \/ neto < -2 THEN "DESFAVORABLES"
        ELSE IF Cuantas(verdes) >= 3 /\ Cuantas(rojas) = 0 THEN "FAVORABLES"
        ELSE "MIXTAS"

-----------------------------------------------------------------------------

\* analyze, once the sources have answered: what they measure,
Medir1 ==
    LET m == medida
        uso == VelasEnUso(m, horizonte)
    IN  /\ fase = "fuentes"
        /\ fase' = "medido"
        /\ informe' = [uso |-> uso, curve |-> curve_state(m.curva),
                       stats |-> price_stats(m, uso.velas),
                       flow |-> flow_stats(m.trades, m.creador),
                       liq |-> liquidity_stats(m.par, m.pool), mf |-> multiframe(m.par),
                       horizonte |-> Recorte(uso, horizonte)]
        /\ UNCHANGED <<medida, horizonte>>

\* what the model makes of it,
Predecir ==
    LET f == informe
    IN  /\ fase = "medido"
        /\ fase' = "predicho"
        /\ \E pred \in {predict(f.curve, f.stats, f.flow, f.liq, medida.age, f.mf)} :
             informe' = Amplia(Amplia(f, pred), [tendencia |-> trend_label(pred, f.mf),
                                                 motivos |-> [c \in Clases |-> reasons(pred, c)]])
        /\ UNCHANGED <<medida, horizonte>>

\* and the scenarios, with the conditions of entry.
Concluir ==
    LET f == informe
        velas == Mayor(1, f.horizonte \div f.uso.tf)
        price == IF f.uso.velas # << >> THEN Last(f.uso.velas).c ELSE 0
        niveles == build_levels(f.uso.velas, medida.atr, f.curve.grad, price)
    IN  /\ fase = "predicho"
        /\ fase' = "concluido"
        /\ \E boot \in bootstrap_horizon(LogRetornos(f.uso.velas), velas, DRAWS) :
             LET bandas == Bandas(boot, f.probs, medida.move)
                 s == Escenarios(medida.par.have \/ f.uso.velas # << >>, price, niveles, bandas)
             IN  informe' = Amplia(f, [bandas |-> bandas, escenarios |-> s,
                                       condiciones |-> evalua(f.curve, f.flow, f.liq, f.stats, f, s)])
        /\ UNCHANGED <<medida, horizonte>>

InitPronostico ==
    /\ medida \in Medidas
    /\ horizonte \in Horizontes
    /\ fase = "fuentes"
    /\ informe = << >>

NextPronostico == Medir1 \/ Predecir \/ Concluir

-----------------------------------------------------------------------------
(* Properties                                                              *)

\* "la ausencia de datos no es evidencia" (model.py:102-106): of a source that
\* gave nothing, no signal that is its own adds anything to the forecast.  The
\* liquidity is the exception: none and very little are the same to
\* liquidez_fina, which then has nearly all its bearish weight (model.py:128),
\* and to dev_vendiendo, whose sales are measured against it (model.py:121).
LoQueFaltaNoOpina ==
    LET Calla(ss) == \A s \in ss : informe.contrib[s] = Clase3(0, 0, 0)
    IN  fase \in {"predicho", "concluido"} =>
            /\ informe.flow.n = 0 => Calla({"presion_compra", "concentracion", "dev_vendiendo",
                                            "actividad_cae", "participacion"})
            /\ informe.stats.n = 0 => Calla({"momentum", "sobreextension", "caida_desde_ath"})
            /\ ~informe.mf.have => Calla({"tendencia_align", "agotamiento"})
            /\ informe.liq.liq = 0 => Calla({"rotacion_rara"})

\* Whatever the probabilities, of which one cut of the distribution comes from
\* each end, the range is not inside out and what lies beyond it is beyond it
\* (analyze.py:212-236).  It is of the bands: the target that is reported in
\* their place may be a level of the chart that is nearer, inside the range
\* even (pick_target, levels.py:124-146).
EscenariosEnOrden ==
    fase = "concluido" =>
        LET b == informe.bandas IN b.dn <= b.lo /\ b.lo <= b.hi /\ b.hi <= b.up
=============================================================================
