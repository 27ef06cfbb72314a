------------------------------- MODULE Niveles -------------------------------
(***************************************************************************)
(* Supports and resistances (ps/levels.py), in logarithms: a level that is *)
(* nearer than some fraction of a price is within a difference of it.      *)
(***************************************************************************)
EXTENDS Rasgos, TLC

LADO == 2                                  \* candles to each side of a pivot
MARGEN == 4                                \* 0.4 %: nearer than this is the price
RANGO == [pivote |-> 1, ATH |-> 2, GRADUACION |-> 3]

-----------------------------------------------------------------------------

\* Fractals of Williams: <<price, volume>>, of the highs with sentido 1 and of
\* the lows with sentido -1.
Pivotes(velas, precios, sentido) ==
    LET EsPivote(i) == \A j \in i - LADO .. i + LADO :
                          sentido * precios[i] >= sentido * precios[j]
        centros == [i \in 1 .. Mayor(0, Len(velas) - 2 * LADO) |-> i + LADO]
        pivotes == SelectSeq(centros, EsPivote)
    IN  IF Len(velas) < 8 THEN << >>
        ELSE [k \in DOMAIN pivotes |-> <<precios[pivotes[k]], velas[pivotes[k]].v>>]

\* Neighbours within tol of the first of their cluster; the level is their
\* mean, weighted by volume, where a volume of 0 counts as 1.
cluster(puntos, tol) ==
    LET orden == SortSeq(puntos, LAMBDA a, b : a[1] < b[1])
        Junta(cs, p) ==
            IF cs # << >> /\ p[1] - Last(cs)[1][1] <= tol
            THEN Front(cs) \o << Append(Last(cs), p) >>
            ELSE Append(cs, << p >>)
        grupos == FoldLeft(Junta, << >>, orden)
        Peso(p) == IF p[2] = 0 THEN 1 ELSE p[2]
        Nivel(g) == [price |-> Truncado(SumFunction([i \in DOMAIN g |-> g[i][1] * Peso(g[i])]),
                                        SumFunction([i \in DOMAIN g |-> Peso(g[i])])),
                     kind |-> "pivote", touches |-> Len(g)]
    IN  [k \in DOMAIN grupos |-> Nivel(grupos[k])]

\* Two levels that are almost the same are the one met first, under the name
\* that says most.
dedupe(niveles, tol) ==
    LET Funde(out, lv) ==
            IF out # << >> /\ 2 * Mayor(lv.price - Last(out).price, Last(out).price - lv.price) <= tol
            THEN LET prev == Last(out)
                 IN  Append(Front(out),
                            [prev EXCEPT !.touches = @ + lv.touches,
                                         !.kind = IF RANGO[lv.kind] > RANGO[@] THEN lv.kind ELSE @])
            ELSE Append(out, lv)
    IN  FoldLeft(Funde, << >>, niveles)

Maximo(velas) == Max({velas[i].h : i \in DOMAIN velas})

\* Nearest first.  The maximum and the graduation are levels above.
build_levels(velas, atr, grad, price) ==
    LET tol == Entre((atr * 3) \div 2, 15, 80)
        altos == cluster(Pivotes(velas, [i \in DOMAIN velas |-> velas[i].h], 1), tol)
        bajos == cluster(Pivotes(velas, [i \in DOMAIN velas |-> velas[i].l], -1), tol)
        Uno(p, clase) == << [price |-> p, kind |-> clase, touches |-> 1] >>
        techo == IF velas # << >> THEN Uno(Maximo(velas), "ATH") ELSE << >>
        meta == IF grad # NADA THEN Uno(price + grad, "GRADUACION") ELSE << >>
        arriba == SelectSeq(altos \o techo \o meta, LAMBDA l : l.price > price + MARGEN)
        debajo == SelectSeq(bajos, LAMBDA l : l.price < price - MARGEN)
    IN  [res |-> dedupe(SortSeq(arriba, LAMBDA a, b : a.price < b.price), tol),
         sup |-> dedupe(SortSeq(debajo, LAMBDA a, b : a.price > b.price), tol)]

-----------------------------------------------------------------------------

Distancia(a, b) == Mayor(a - b, b - a)

\* A level that is worth the move and near the target by volatility takes its
\* place.  A return of 0 gives no target.
pick_target(price, r, niveles, up) ==
    LET Sirve(lv) ==
            /\ IF up THEN lv.price > price ELSE lv.price < price
            /\ 10 * Distancia(lv.price, price) >= 4 * Distancia(r, 0)
            /\ Distancia(lv.price, price + r) <= 450
        utiles == SelectSeq(niveles, Sirve)
        Mejor(best, lv) == IF Distancia(lv.price, price + r) < Distancia(best.price, price + r)
                           THEN lv ELSE best
    IN  IF utiles = << >> THEN price + r
        ELSE FoldLeft(Mejor, utiles[1], utiles).price
=============================================================================
