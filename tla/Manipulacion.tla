----------------------------- MODULE Manipulacion -----------------------------
(***************************************************************************)
(* The manipulation detectors                                              *)
(* (packages/strategies/mit_strategies/manipulation) and the concentration *)
(* of the holders (packages/features: concentration.py).                   *)
(*                                                                         *)
(* A context is what is known of a token: its trades, its holders, which   *)
(* wallets are programs, what its creator did before, its name and its     *)
(* metadata.  No wallet is known as a pool.  A finding is its              *)
(* detector, its severity and what it is about, so two findings of a       *)
(* detector count twice.  Percentages are compared as products.  The three *)
(* detectors that read who funded a wallet or when it was first seen are   *)
(* left out: nobody fills those fields (enrichment.py:201-204).            *)
(***************************************************************************)
EXTENDS Numeros, Sequences, FiniteSetsExt

CONSTANTS
    TOP,               \* the largest holders that are added up: 10
    MIN_HOLDERS        \* MIN_HOLDERS_FOR_CONCENTRATION: 25

ASSUME ManipulacionAssumption == {TOP, MIN_HOLDERS} \subseteq Nat \ {0}

MIN_WALLETS_SAME_SLOT == 3
MIN_IDENTICAL_AMOUNT_WALLETS == 3
MIN_ROUNDTRIPS == 3

SEVERITY_POINTS ==
    [info |-> 0, low |-> 8, medium |-> 20, high |-> 35, critical |-> 60]

Hallazgo(detector, severidad, sobre) ==
    [detector |-> detector, severity |-> severidad, sobre |-> sobre]

buys(c) == {t \in c.trades : t.side = "buy"}
sells(c) == {t \in c.trades : t.side = "sell"}
Compradores(ts) == {t.wallet : t \in ts}
Volumen(ts) == MapThenSumSet(LAMBDA t : t.sol, ts)

\* The largest n values of a function, added up; all of them if there are fewer.
SumaMayores(f, n) ==
    Max({SumFunction(Restrict(f, S)) :
            S \in {S \in SUBSET DOMAIN f : Cardinality(S) = Menor(n, Cardinality(DOMAIN f))}})

Positivos(f) == [x \in {x \in DOMAIN f : f[x] > 0} |-> f[x]]

-----------------------------------------------------------------------------
(* concentration.py                                                        *)

\* In basis points.
top_n_pct(f, n) ==
    LET total == SumFunction(Positivos(f))
    IN  IF total = 0 THEN 0 ELSE (SumaMayores(Positivos(f), n) * BASIS_POINTS) \div total

concentration(f) ==
    [holder_count |-> Cardinality(DOMAIN Positivos(f)), top10_pct |-> top_n_pct(f, TOP)]

-----------------------------------------------------------------------------
(* coordination.py                                                         *)

detect_same_slot_bundles(c) ==
    LET juntas(s) == Cardinality(Compradores({t \in buys(c) : t.slot = s}))
    IN  {Hallazgo("same_slot_bundle", IF juntas(s) >= 5 THEN "high" ELSE "medium", s) :
            s \in {s \in {t.slot : t \in buys(c)} : juntas(s) >= MIN_WALLETS_SAME_SLOT}}

detect_identical_amounts(c) ==
    LET iguales(n) == Cardinality(Compradores({t \in buys(c) : t.sol = n}))
        todos == Cardinality(Compradores(buys(c)))
    IN  {Hallazgo("identical_amounts",
                  IF iguales(n) * 100 < 50 * todos THEN "medium" ELSE "high", n) :
            n \in {n \in {t.sol : t \in buys(c)} :
                      n > 0 /\ iguales(n) >= MIN_IDENTICAL_AMOUNT_WALLETS}}

-----------------------------------------------------------------------------
(* trading.py                                                              *)

detect_self_trading(c) ==
    LET de(w, ts) == {t \in ts : t.wallet = w}
        ciclos(w) == Menor(Cardinality(de(w, buys(c))), Cardinality(de(w, sells(c))))
        mucho(w) == Volumen(c.trades) > 0
                    /\ Volumen(de(w, c.trades)) * 100 >= 30 * Volumen(c.trades)
    IN  {Hallazgo("self_trading", IF mucho(w) THEN "high" ELSE "medium", w) :
            w \in {w \in Compradores(c.trades) : ciclos(w) >= MIN_ROUNDTRIPS}}

detect_concentrated_volume(c) ==
    LET por == [w \in Compradores(c.trades) |-> Volumen({t \in c.trades : t.wallet = w})]
        total == SumFunction(por)
        cuatro == SumaMayores(por, 4)
    IN  IF total > 0 /\ cuatro * 100 >= 50 * total /\ Cardinality(DOMAIN por) >= 4
        THEN {Hallazgo("concentrated_volume",
                       IF cuatro * 100 >= 70 * total THEN "high" ELSE "medium", "")}
        ELSE {}

\* Times in seconds.
detect_creator_dumping(c) ==
    LET suyas == {t \in sells(c) : t.wallet = c.creator}
        tras == Mayor(0, Min({t.at : t \in suyas}) - c.created_at)
    IN  IF suyas = {} THEN {}
        ELSE {Hallazgo("creator_dumping",
                       IF tras <= 600 THEN "critical"
                       ELSE IF tras <= 3600 THEN "high" ELSE "medium", "")}

detect_creator_history(c) ==
    IF c.launches >= 2 /\ c.dumps > 0 /\ c.dumps * 10 >= 4 * c.launches
    THEN {Hallazgo("creator_history",
                   IF c.dumps * 10 >= 7 * c.launches THEN "critical" ELSE "high", "")}
    ELSE {}

-----------------------------------------------------------------------------
(* token_integrity.py                                                      *)

\* A name is the creator's own, that of a brand, or it claims to be official.
detect_impersonation(c) ==
    IF c.name = "propio" THEN {}
    ELSE {Hallazgo("impersonation", IF c.name = "oficial" THEN "medium" ELSE "low", "")}

detect_metadata_anomalies(c) ==
    IF c.uri = "segura" THEN {} ELSE {Hallazgo("metadata", "low", c.uri)}

\* The holders that are no programs.
reales(c) == Restrict(c.holders, DOMAIN c.holders \ c.programas)

\* Nothing is said of a small census.
detect_supply_concentration(c) ==
    LET m == concentration(reales(c))
    IN  IF m.holder_count < MIN_HOLDERS \/ m.top10_pct < 5000 THEN {}
        ELSE {Hallazgo("supply_concentration",
                       IF m.top10_pct >= 8000 THEN "critical" ELSE "high", "")}

-----------------------------------------------------------------------------
(* score.py                                                                *)

analyze(c) ==
    LET hallazgos == detect_same_slot_bundles(c) \cup detect_identical_amounts(c)
                     \cup detect_self_trading(c) \cup detect_concentrated_volume(c)
                     \cup detect_creator_dumping(c) \cup detect_creator_history(c)
                     \cup detect_impersonation(c) \cup detect_metadata_anomalies(c)
                     \cup detect_supply_concentration(c)
    IN  [findings |-> hallazgos,
         score |-> Menor(100, SumFunction([h \in hallazgos |-> SEVERITY_POINTS[h.severity]]))]
=============================================================================
