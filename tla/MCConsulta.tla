------------------------------ MODULE MCConsulta ------------------------------
(* An instance of Consulta for TLC: two threads of the server that share   *)
(* the sources in the two ways that make them meet, a token whose live     *)
(* view hears four kinds of notification, and a forecast from what one     *)
(* token in each situation would measure.                                  *)
EXTENDS Consulta

Op(t, compra, sol, quien, vs, vt) ==
    [t |-> t, compra |-> compra, sol |-> sol, quien |-> quien, vs |-> vs, vt |-> vt]
Ent(firma, err, curva, swap, migra) ==
    [firma |-> firma, err |-> err, rota |-> FALSE, curva |-> curva, swap |-> swap, migra |-> migra,
     mint |-> "m1"]

\* Trades of three wallets on the curve; a migration with trades of PumpSwap,
\* far below; a transaction that failed; a recovery without a signature, that
\* may come twice; and one that cannot be decoded.
MCEntregas ==
    { Ent("f1", FALSE, << Op(1, TRUE, 1, "w1", 30, 900), Op(1, TRUE, 5, "w2", 36, 750),
                          Op(2, FALSE, 1, "w3", 35, 770) >>, << >>, FALSE),
      Ent("f2", FALSE, << >>, << Op(20, FALSE, 6, ANONIMO, 20, 1000),
                                 Op(20, FALSE, 2, ANONIMO, 16, 1090) >>, TRUE),
      Ent("f3", TRUE, << Op(3, TRUE, 1, "w1", 30, 900) >>, << >>, FALSE),
      Ent(SIN_FIRMA, FALSE, << Op(30, TRUE, 1, "w1", 30, 900), Op(31, TRUE, 2, "w1", 40, 700) >>,
          << >>, FALSE),
      [Ent(SIN_FIRMA, FALSE, << >>, << >>, FALSE) EXCEPT !.rota = TRUE] }

\* An account nearly sold, one that begins, and one that is complete.
MCCuentasCurva ==
    { [completa |-> c.vt = 281, curva |-> c] :
        c \in { [vs |-> 85, vt |-> 280, rt |-> 10, sup |-> 1000],
                [vs |-> 31, vt |-> 950, rt |-> 780, sup |-> 1000],
                [vs |-> 85, vt |-> 281, rt |-> 0, sup |-> 1000] } }

MCRepartos ==
    { [a |-> "radar", b |-> "vivo"], [a |-> "analisis", b |-> "buscar"] }
MCEsperas == [limite |-> 2, otro |-> 1]

MCTrade(w, kind, usd, ts, price) ==
    [wallet |-> w, kind |-> kind, usd |-> usd, ts |-> ts, price |-> price]
\* n trades of k wallets, every third one a sale.
MCTrades(n, k) ==
    [i \in 1 .. n |-> MCTrade(i % k, IF i % 3 = 0 THEN "sell" ELSE "buy", 10 * (i % 4) + 5, 2 * i,
                              100 * (i % 5))]
MCVelas(cierres) ==
    [i \in DOMAIN cierres |-> [h |-> cierres[i] + 50, l |-> cierres[i] - 50, c |-> cierres[i], v |-> i % 3]]
MCSube == MCVelas(<<0, 300, 0, 300, 600, 900, 600, 300, 600>>)
MCCae == MCVelas(<<900, 600, 300, 0>>)
MCSinPar == [have |-> FALSE, liq |-> 0, vol |-> 0, cambio |-> << >>]
MCPar(liq, vol, m5, h6) == [have |-> TRUE, liq |-> liq, vol |-> vol, cambio |-> [m5 |-> m5, h6 |-> h6]]
MCCurvaDe(rt, graduada) ==
    [complete |-> graduada, vsol |-> 32190 \div (280 + rt), vtok |-> 280 + rt, rtok |-> rt]
MCMedida(de, age, trades, velas, par) ==
    [curva |-> de, age |-> age, trades |-> trades, creador |-> 0, velas |-> velas,
     par |-> par, pool |-> MCSinPar, z |-> 180, overext |-> 60, move |-> 400, atr |-> 30]

\* A curve at its beginning or near its end, with every source or without
\* some of them; and a token that has graduated.
MCMedidas ==
    { MCMedida(MCCurvaDe(rt, FALSE), 10, trades, velas, par) :
        rt \in {793, 78}, trades \in {<< >>, MCTrades(24, 2), MCTrades(30, 12)},
        velas \in {<< >>, MCSube, MCCae}, par \in {MCSinPar, MCPar(9000, 90000, -5, 60)} }
    \cup { MCMedida(MCCurvaDe(0, TRUE), NADA, MCTrades(30, 12), MCSube, MCPar(400000, 90000, 30, 60)) }
=============================================================================
