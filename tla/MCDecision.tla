------------------------------ MODULE MCDecision ------------------------------
(* Small instances of the parts that decide.                               *)
EXTENDS Decision

-----------------------------------------------------------------------------
(* The simulator: a curve at its start, half-way and about to graduate     *)

MCCurva(vs, vt, rt) == [vs |-> vs, vt |-> vt, rt |-> rt, sup |-> 1000]
MCCurvas == {MCCurva(30, 1073, 793), MCCurva(90, 358, 78), MCCurva(115, 280, 1)}
MCDerivas == {-1000, 1000}

-----------------------------------------------------------------------------
(* The risk engine: prices that jump past a stop and prices that do not    *)

MCRetornos == {-45, -30, -10, 3, 25}

MCEntrada(parada, volatilidad, confianza, correlada) ==
    [parada |-> parada, liquidez |-> 10000, volatilidad |-> volatilidad,
     confianza |-> confianza, correlada |-> correlada, salida |-> 1]
MCEntradas == {MCEntrada(30, 0, 100, 0), MCEntrada(5, 50, 80, 100)}

-----------------------------------------------------------------------------
(* The analysis: a token nobody has touched, one that bots and its creator *)
(* have, and one without a census or liquidity                             *)

MCTx(w, slot, lado, sol, at) ==
    [wallet |-> w, slot |-> slot, side |-> lado, sol |-> sol, at |-> at]

\* "p" is an account of the protocol.
MCReparto(creador, resto, protocolo) ==
    [w \in {"c", "x", "y", "z", "w", "p"} |->
        CASE w = "c" -> creador [] w = "p" -> protocolo [] OTHER -> resto]

MCVerdad(creador, reservas, holders, txs, launches, dumps, nombre, uri) ==
    [creator |-> creador, created_at |-> 0, reservas |-> reservas, holders |-> holders,
     transactions |-> txs, launches |-> launches, dumps |-> dumps, name |-> nombre, uri |-> uri]

MCVerdades ==
    [limpio |-> MCVerdad("c", 30, MCReparto(1, 1, 1),
                         << {MCTx("x", 1, "buy", 5, 10)}, {MCTx("y", 2, "buy", 7, 20)} >>,
                         1, 0, "propio", "segura"),
     bots   |-> MCVerdad("c", 30, MCReparto(2, 1, 90),
                         << {MCTx(w, 1, "buy", 5, 10) : w \in {"x", "y", "z", "p"}},
                            {MCTx("c", 4, "sell", 9, 40), MCTx("w", 3, "buy", 1, 50)},
                            {MCTx("y", n, lado, 3, 60) : n \in 5 .. 7, lado \in {"buy", "sell"}},
                            {MCTx("c", 8, "sell", 9, 70)} >>,
                         3, 2, "marca", "ninguna"),
     seco   |-> MCVerdad("d", 3, << >>, << >>, 2, 1, "oficial", "insegura")]
=============================================================================
