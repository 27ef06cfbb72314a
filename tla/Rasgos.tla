-------------------------------- MODULE Rasgos --------------------------------
(***************************************************************************)
(* What the command-line analyser measures of a token (ps/features.py).    *)
(*                                                                         *)
(* Ratios are percentages.  Prices are logarithms, in thousandths, so that *)
(* a return is a difference; the standard deviations and the exponent of   *)
(* price_stats are taken as measured.  A logarithm of a quantity is ten    *)
(* times its log10, rounded down.                                          *)
(***************************************************************************)
EXTENDS Numeros, SequencesExt

CONSTANTS
    MIN_RETS,          \* returns that the resampling wants: 30
    BLOQUE             \* consecutive returns it takes at a time: 5

ASSUME RasgosAssumption == {MIN_RETS, BLOQUE} \subseteq Nat \ {0}

NADA == -1                                 \* None, of what cannot be negative

Entre(x, lo, hi) == Mayor(lo, Menor(hi, x))

-----------------------------------------------------------------------------
(* math.log10 and math.exp                                                 *)

Decada == <<100, 126, 158, 200, 251, 316, 398, 501, 631, 794>>

L(x) == Cardinality({k \in 0 .. 69 : Decada[(k % 10) + 1] * 10 ^ (k \div 10) <= 100 * x}) - 1

\* 1000 * exp(n / 10)
E[n \in -40 .. 40] ==
    IF n = 0 THEN 1000
    ELSE IF n > 0 THEN (E[n - 1] * 11052) \div 10000
    ELSE (1000 * 1000) \div E[-n]

\* The change of price, in per cent, that a log return is.
Cambio(r) == Truncado(E[Entre(Truncado(r, 100), -40, 40)] - 1000, 10)

-----------------------------------------------------------------------------
(* The bonding curve                                                       *)

VSOL0 == 30

\* How much of what was for sale is sold; and how far the price of the
\* graduation is.
curve_state(c) ==
    LET fin == c.vtok - c.rtok
        rtok0 == (c.vsol * c.vtok) \div VSOL0 - fin
        sirve == c.vsol > 0 /\ c.vtok > 0 /\ fin > 0
    IN  [complete |-> c.complete,
         progress |->
             IF ~sirve THEN NADA ELSE IF c.complete THEN 100
             ELSE IF rtok0 <= 0 THEN NADA
             ELSE Entre(Truncado((rtok0 - c.rtok) * 100, rtok0), 0, 100),
         grad |-> IF sirve /\ ~c.complete THEN 461 * (L(c.vtok) - L(fin)) ELSE NADA]

-----------------------------------------------------------------------------
(* Candles made of trades                                                  *)

candles_from_trades(trades, bucket) ==
    LET pts == {i \in DOMAIN trades : trades[i].price # NADA}
        Cubo(i) == trades[i].ts \div bucket
        cubos == {Cubo(i) : i \in pts}
        Vela(b) == LET en == {i \in pts : Cubo(i) = b}
                       ps == {trades[i].price : i \in en}
                   IN  [h |-> Max(ps), l |-> Min(ps), c |-> trades[Max(en)].price,
                        v |-> SumFunction([i \in en |-> trades[i].usd])]
        Cubo1(n) == CHOOSE b \in cubos : Cardinality({c \in cubos : c <= b}) = n
    IN  IF Cardinality(pts) < 4 THEN << >>
        ELSE [n \in 1 .. Cardinality(cubos) |-> Vela(Cubo1(n))]

-----------------------------------------------------------------------------
(* What is resampled of the returns                                        *)

LogRetornos(velas) == [i \in 1 .. Len(velas) - 1 |-> velas[i + 1].c - velas[i].c]

\* A draw adds up blocks of consecutive returns, going round, that start
\* anywhere, up to the horizon.
Sumas(rets, horizonte) ==
    LET n == Len(rets)
        Bloque1(inicio, cuantos) == SumFunction([j \in 1 .. cuantos |-> rets[((inicio + j - 2) % n) + 1]])
        enteros == horizonte \div BLOQUE
        Bloques == {Bloque1(i, BLOQUE) : i \in 1 .. n}
        resto == {Bloque1(i, horizonte % BLOQUE) : i \in 1 .. n}
        hasta[k \in 0 .. enteros] ==
            IF k = 0 THEN {0} ELSE {a + b : a \in hasta[k - 1], b \in Bloques}
    IN  {a + b : a \in hasta[enteros], b \in resto}

\* The sorted draws that the generator may give.
bootstrap_horizon(rets, horizonte, draws) ==
    IF Len(rets) < MIN_RETS \/ horizonte < 1 THEN {<< >>}
    ELSE {s \in [1 .. draws -> Sumas(rets, horizonte)] : \A i \in 1 .. draws - 1 : s[i] <= s[i + 1]}

\* q in per cent; linear between two draws.
quantile(s, q) ==
    LET pos == q * (Len(s) - 1)
        lo == pos \div 100 + 1
        frac == pos % 100
    IN  Truncado(s[lo] * (100 - frac) + s[Menor(lo + 1, Len(s))] * frac, 100)

\* The median of what is under hi, or from lo on.
CabezaMediana(s, hi) == LET k == Mayor(1, (hi * Len(s)) \div 100) IN s[k \div 2 + 1]

\* Mutant: the median of the other side of the cut.
MutColaMediana(s, lo) == CabezaMediana(s, lo)

ColaMediana(s, lo) ==
    LET k == Menor(Len(s) - 1, (lo * Len(s)) \div 100)
    IN  s[k + (Len(s) - k) \div 2 + 1]

-----------------------------------------------------------------------------
(* Who buys and who sells                                                  *)

\* Of the trades that are numbered.
Usd(trades, cuales) == SumFunction([i \in cuales |-> trades[i].usd])
Wallets(trades, cuales) == {trades[i].wallet : i \in cuales}
De(trades, kind) == {i \in DOMAIN trades : trades[i].kind = kind}
DeWallet(trades, w) == {i \in DOMAIN trades : trades[i].wallet = w}

hhi(trades) ==
    LET total == Usd(trades, DOMAIN trades)
        partes == [w \in Wallets(trades, DOMAIN trades) |->
                       LET suyo == Usd(trades, DeWallet(trades, w)) IN suyo * suyo]
    IN  IF total = 0 THEN 0 ELSE (100 * SumFunction(partes)) \div (total * total)

\* Trades per second of the second half against the first.
decay(trades) ==
    LET t0 == trades[1].ts
        doble == 2 * t0 + Mayor(1, Last(trades).ts - t0)
        antes == Cardinality({i \in DOMAIN trades : 2 * trades[i].ts < doble})
    IN  IF antes = 0 THEN 0 ELSE Truncado((Len(trades) - 2 * antes) * 100, antes)

flow_stats(trades, creator) ==
    LET compras == De(trades, "buy")
        ventas == De(trades, "sell")
        comprado == Usd(trades, compras)
        vendido == Usd(trades, ventas)
        compran == Cardinality(Wallets(trades, compras))
        lados == compran + Cardinality(Wallets(trades, ventas))
        vacio == trades = << >>
    IN  [n |-> Len(trades),
         imbalance |-> IF comprado + vendido = 0 THEN 0
                       ELSE Truncado((comprado - vendido) * 100, comprado + vendido),
         wallets |-> Cardinality(Wallets(trades, DOMAIN trades)),
         hhi |-> IF vacio THEN 0 ELSE hhi(trades),
         dev_sold |-> Usd(trades, ventas \cap DeWallet(trades, creator)),
         dev_bought |-> Usd(trades, compras \cap DeWallet(trades, creator)),
         buyer_share |-> IF lados = 0 THEN 50 ELSE (compran * 100) \div lados,
         decay |-> IF vacio THEN 0 ELSE decay(trades)]

-----------------------------------------------------------------------------
(* Windows of time, and liquidity                                          *)

\* The changes that DexScreener gives, of some of m5, h1, h6 and h24.
multiframe(par) ==
    LET v == par.cambio
        n == Cardinality(DOMAIN v)
        sube == Cardinality({k \in DOMAIN v : v[k] > 0})
        De0(k) == IF k \in DOMAIN v THEN v[k] ELSE 0
        largo == IF De0("h6") # 0 THEN De0("h6") ELSE De0("h24")
        have == par.have /\ n >= 2
    IN  [have |-> have,
         align |-> IF have THEN Truncado(200 * sube, n) - 100 ELSE 0,
         fading |-> IF have /\ largo > 20 /\ De0("m5") < 0
                    THEN Menor(200, largo - 10 * De0("m5")) ELSE 0]

\* DexScreener's, or else that of the pool, if it was asked for.
liquidity_stats(par, pool) ==
    LET deUno == IF par.have /\ par.liq > 0 THEN par ELSE pool
        liq == IF deUno.have THEN deUno.liq ELSE 0
    IN  [liq |-> liq, turnover |-> IF liq > 0 THEN (deUno.vol * 100) \div liq ELSE 0]
=============================================================================
