-------------------------------- MODULE Modelo --------------------------------
(***************************************************************************)
(* The probability model of the command-line analyser (ps/model.py): the   *)
(* base rate of a regime, moved by signals that are capped by group and in *)
(* all.                                                                    *)
(*                                                                         *)
(* A signal is in hundredths, weights and confidence in per cent, and what *)
(* a signal adds to a class in ten-thousandths of log-odds.                *)
(***************************************************************************)
EXTENDS Rasgos

Clases == {"SUBIDA", "RANGO", "BAJADA"}
Clase3(s, r, b) == [SUBIDA |-> s, RANGO |-> r, BAJADA |-> b]

PRIORS ==
    [curva_temprana |-> Clase3(15, 20, 65), curva_media |-> Clase3(22, 25, 53),
     curva_tardia   |-> Clase3(31, 27, 42), graduado    |-> Clase3(27, 30, 43)]

WEIGHTS ==
    [momentum        |-> Clase3(35, 0, -30),    sobreextension  |-> Clase3(-28, 0, 32),
     presion_compra  |-> Clase3(45, 0, -45),    caida_desde_ath |-> Clase3(-20, -10, 30),
     concentracion   |-> Clase3(-35, -5, 40),   dev_vendiendo   |-> Clase3(-90, -20, 100),
     liquidez_fina   |-> Clase3(-25, -15, 35),  rotacion_rara   |-> Clase3(-20, 0, 25),
     actividad_cae   |-> Clase3(-35, 5, 35),    participacion   |-> Clase3(40, 5, -40),
     cerca_graduar   |-> Clase3(45, 0, -35),    estancado       |-> Clase3(-30, 10, 25),
     tendencia_align |-> Clase3(38, -5, -38),   agotamiento     |-> Clase3(-45, 5, 45)]

GROUPS ==
    {{"participacion", "liquidez_fina", "concentracion", "rotacion_rara"},
     {"momentum", "sobreextension", "caida_desde_ath", "tendencia_align", "agotamiento"},
     {"presion_compra", "actividad_cae"}, {"dev_vendiendo"}, {"cerca_graduar", "estancado"}}

GROUP_CAP == 7500
TOTAL_CAP == 16000
CLIP == 250

Senales == DOMAIN WEIGHTS

clip(x) == Entre(x, -CLIP, CLIP)
Si(condicion, x) == IF condicion THEN x ELSE 0

-----------------------------------------------------------------------------

\* A progress that is not known is an early one.
regime(curve) ==
    IF curve.complete THEN "graduado"
    ELSE <<"curva_temprana", "curva_media", "curva_tardia">>
            [Cardinality({p \in {25, 70} : curve.progress >= p}) + 1]

\* How much of a sample there is, up to enough.
Rampa(n, basta) == Menor(100, (n * 100) \div basta)

\* Mutant: few wallets count whole, be there trades or not.
MutParticipacion(flow, f_ok) == clip(((10 * L(Mayor(flow.wallets, 1)) - 154) * 256) \div 100)

\* 35 wallets are the normal thing.
Participacion(flow, f_ok) ==
    Truncado(clip(((10 * L(Mayor(flow.wallets, 1)) - 154) * 256) \div 100) * f_ok, 100)

build_signals(curve, stats, flow, liq, age, mf) ==
    LET f_ok == Rampa(flow.n, 25)
        c_ok == Rampa(stats.n, 15)
        Con(x, ok) == Truncado(clip(x) * ok, 100)
        dev_out == flow.dev_sold - flow.dev_bought
        parado == /\ age > 6 /\ ~curve.complete
                  /\ curve.progress # NADA /\ curve.progress < 35
    IN  [momentum        |-> Con(stats.ret_z, c_ok),
         sobreextension  |-> Con((Mayor(0, stats.overext) * 12) \div 10, c_ok),
         presion_compra  |-> Con(Truncado(flow.imbalance * 22, 10), f_ok),
         caida_desde_ath |-> Si(stats.dd < -25, Con((-stats.dd * 25) \div 10, c_ok)),
         concentracion   |-> Con(Truncado((flow.hhi - 8) * 100, 12), f_ok),
         dev_vendiendo   |-> Si(dev_out > 0, clip((dev_out * 1200) \div Mayor(1, liq.liq))),
         liquidez_fina   |-> clip(418 - 10 * L(Mayor(liq.liq, 50))),
         rotacion_rara   |-> Si(liq.turnover > 800, clip((liq.turnover - 800) \div 6)),
         actividad_cae   |-> Con(Truncado(-flow.decay * 16, 10), f_ok),
         participacion   |-> Participacion(flow, f_ok),
         cerca_graduar   |-> Si(~curve.complete /\ curve.progress > 55,
                                clip(((curve.progress - 55) * 100) \div 22)),
         estancado       |-> Si(parado, clip(((10 * L(age) - 78) * 209) \div 100)),
         tendencia_align |-> Si(mf.have, clip(Truncado(mf.align * 16, 10))),
         agotamiento     |-> Si(mf.have, clip(mf.fading))]

\* With a small sample the model falls back on the base rate.
confidence(stats, flow, liq, age) ==
    Entre((Rampa(stats.n, 60) + Rampa(flow.n, 120)
           + Menor(100, ((10 * L(Mayor(liq.liq, 10)) - 100) * 10) \div 27)
           + Menor(100, (Mayor(age, 0) * 200) \div 3)) \div 4, 12, 95)

Cumbre(total) == Max({Mayor(total[c], -total[c]) : c \in Clases})

\* Scaled down to cap if any class goes beyond it.
Acota(d, total, cap) ==
    IF Cumbre(total) <= cap THEN d
    ELSE [c \in Clases |-> Truncado(d[c] * cap, Cumbre(total))]

Total(ds, de) == [c \in Clases |-> SumFunction([s \in de |-> ds[s][c]])]

\* What each signal adds to each class.
Aportes(sig, conf) ==
    LET raw == [s \in Senales |-> [c \in Clases |-> Truncado(WEIGHTS[s][c] * sig[s] * conf, 100)]]
        Grupo(s) == CHOOSE g \in GROUPS : s \in g
        scaled == [s \in Senales |-> Acota(raw[s], Total(raw, Grupo(s)), GROUP_CAP)]
    IN  [s \in Senales |-> Acota(scaled[s], Total(scaled, Senales), TOTAL_CAP)]

predict(curve, stats, flow, liq, age, mf) ==
    LET prior == PRIORS[regime(curve)]
        sig == build_signals(curve, stats, flow, liq, age, mf)
        contrib == Aportes(sig, confidence(stats, flow, liq, age))
        total == Total(contrib, Senales)
        exps == [c \in Clases |-> prior[c] * E[Truncado(total[c], 1000)]]
        tot == SumFunction(exps)
    IN  [prior |-> prior, signals |-> sig, contrib |-> contrib,
         probs |-> [c \in Clases |-> (exps[c] * 100) \div tot]]

-----------------------------------------------------------------------------

\* The three signals that most favour a class.
reasons(pred, c) ==
    LET favor == {s \in Senales : pred.contrib[s][c] > 120}
    IN  {s \in favor : Cardinality({r \in favor : pred.contrib[r][c] > pred.contrib[s][c]}) < 3}

trend_label(pred, mf) ==
    LET score == 100 * (pred.probs["SUBIDA"] - pred.probs["BAJADA"]) + 25 * mf.align - 12 * mf.fading
        peldano == Cardinality({u \in {-2800, -900, 900, 2800} : score > u}) + 1
    IN  IF mf.fading > 50 /\ score > -900 THEN "AGOTANDOSE"
        ELSE <<"BAJISTA FUERTE", "BAJISTA", "NEUTRA", "ALCISTA", "ALCISTA FUERTE">>[peldano]
=============================================================================
