-------------------------------- MODULE Curva --------------------------------
(***************************************************************************)
(* The quotes of the bonding curve (packages/pumpfun/mit_pumpfun/curve.py) *)
(* that the simulator, the analysis and the live view share.  Reserves are *)
(* integers and so is every quote; the decimals of the code are exact      *)
(* fractions here, truncated where the code truncates them.                *)
(***************************************************************************)
EXTENDS Numeros

\* What CurveState.__post_init__ lets through.
CurveState ==
    [vs : Nat \ {0}, vt : Nat \ {0}, rt : Nat, sup : Nat]

invariant(c) == c.vs * c.vt
is_complete(c) == c.rt <= 0

\* The division truncates what stays, so what leaves is rounded up.
tokens_out_for_sol(c, lamports) ==
    IF lamports <= 0 THEN 0
    ELSE Mayor(0, Menor(c.vt - (invariant(c) \div (c.vs + lamports)), c.rt))

\* Mutant: a sale is paid at the price it finds, not along the curve.
MutSolOut(c, tokens) == IF tokens <= 0 THEN 0 ELSE (tokens * c.vs) \div c.vt

sol_out_for_tokens(c, tokens) ==
    IF tokens <= 0 THEN 0
    ELSE Mayor(0, c.vs - (invariant(c) \div (c.vt + tokens)))

\* (lamports / tokens) / (vs / vt) - 1, in basis points.
price_impact_bps(c, lamports) ==
    LET t == tokens_out_for_sol(c, lamports)
    IN  IF t <= 0 THEN BASIS_POINTS
        ELSE Truncado((lamports * c.vt - t * c.vs) * BASIS_POINTS, t * c.vs)

impact_curve(c, tamanos) == [l \in tamanos |-> price_impact_bps(c, l)]

\* Reserves that no program can hold make it raise: vt > rt is its guard.
sol_to_complete(c) ==
    IF is_complete(c) THEN 0
    ELSE Mayor(0, (invariant(c) \div (c.vt - c.rt)) - c.vs)

graduation_market_cap_lamports(c) ==
    LET queda == c.vt - c.rt
    IN  IF queda <= 0 THEN 0 ELSE ((invariant(c) \div queda) * c.sup) \div queda

\* In per cent, truncated.
progress_pct(c) ==
    LET inicial == c.rt + (c.sup - c.vt)
    IN  IF c.sup <= 0 \/ inicial <= 0 THEN 0
        ELSE Mayor(0, Menor(100, Truncado((inicial - c.rt) * 100, inicial)))

market_cap_lamports(c) == (c.vs * c.sup) \div c.vt

-----------------------------------------------------------------------------
(* A purchase and what it leaves                                           *)

\* The curve after the program has served a purchase of so many lamports.
TrasComprar(c, lamports) ==
    LET t == tokens_out_for_sol(c, lamports)
    IN  [c EXCEPT !.vs = @ + lamports, !.vt = @ - t, !.rt = @ - t]

\* What the sale of what was just bought gives back beyond what it cost.
Vuelta(c, lamports) ==
    sol_out_for_tokens(TrasComprar(c, lamports), tokens_out_for_sol(c, lamports)) - lamports
=============================================================================
