------------------------------ MODULE Veredicto ------------------------------
(***************************************************************************)
(* The heuristic verdict on a token (packages/strategies: scores.py,       *)
(* eligibility.py, signals.py).  Scores are in basis points of the 0-100   *)
(* scale, so 10000 is 100.                                                 *)
(***************************************************************************)
EXTENDS Numeros, FiniteSetsExt

clamp(n) == Mayor(0, Menor(BASIS_POINTS, n))

\* The ten positive weights and the two penalties, in per cent.  The positive
\* ones add up to 100.
ScoreWeights ==
    [narrative |-> 18, momentum |-> 15, liquidity |-> 12, holder_quality |-> 10,
     distribution |-> 10, creator |-> 8, whale |-> 7, social_authenticity |-> 8,
     exit_liquidity |-> 7, data_confidence |-> 5]
PENALTIES == [manipulation_risk |-> 60, rug_risk |-> 80]

\* What nobody measured is 0.
TokenScores == [s \in (DOMAIN ScoreWeights) \cup (DOMAIN PENALTIES) |-> 0]

Ponderado(scores, pesos) ==
    SumFunction([s \in DOMAIN pesos |-> pesos[s] * scores[s]])

\* Mutant: the average is taken over the scores that were measured.
MutOpportunityScore(scores) ==
    LET medidos == {s \in DOMAIN ScoreWeights : scores[s] > 0}
        unos == [s \in DOMAIN ScoreWeights |-> IF s \in medidos THEN 1 ELSE 0]
    IN  clamp(Ponderado(scores, ScoreWeights) \div Mayor(1, Ponderado(unos, ScoreWeights))
              - Ponderado(scores, PENALTIES) \div 100)

\* Penalties are subtracted, they are no part of the average.
opportunity_score(scores) ==
    clamp((Ponderado(scores, ScoreWeights) - Ponderado(scores, PENALTIES)) \div 100)

-----------------------------------------------------------------------------
(* eligibility.py: what is not said is innocent                            *)

EligibilityInputs ==
    [data_confidence |-> BASIS_POINTS, rug_risk |-> 0, manipulation_risk |-> 0,
     liquidity |-> 10, has_verified_exit_route |-> TRUE, sell_simulation_succeeded |-> TRUE,
     price_impact_bps |-> 0, creator_history_critical |-> FALSE, top10_pct_adjusted |-> 0,
     dominant_cluster_pct |-> 0, pump_pct |-> 0, narrative_exhausted |-> FALSE,
     spread_bps |-> 0, data_age_ms |-> 0, source_divergence_pct |-> 0,
     sufficient_sol |-> TRUE, daily_risk_limit_reached |-> FALSE]

Falla(i) ==
    [low_data_confidence |-> i.data_confidence < 6000,
     high_rug_risk |-> i.rug_risk > 3500,
     high_manipulation_risk |-> i.manipulation_risk > 4000,
     insufficient_liquidity |-> i.liquidity < 5,
     no_exit_route |-> ~i.has_verified_exit_route,
     sell_simulation_failed |-> ~i.sell_simulation_succeeded,
     price_impact_too_high |-> i.price_impact_bps > 300,
     creator_history_critical |-> i.creator_history_critical,
     holder_concentration |-> i.top10_pct_adjusted > 3500,
     dangerous_cluster |-> i.dominant_cluster_pct > 2500,
     already_pumped |-> i.pump_pct > 300,
     narrative_exhausted |-> i.narrative_exhausted,
     excessive_spread |-> i.spread_bps > 500,
     stale_data |-> i.data_age_ms > 3000,
     source_divergence |-> i.source_divergence_pct > 500,
     insufficient_sol |-> ~i.sufficient_sol,
     daily_risk_limit_reached |-> i.daily_risk_limit_reached]

\* Every veto that fails, not the first one.
evaluate(i) == {v \in DOMAIN Falla(i) : Falla(i)[v]}

-----------------------------------------------------------------------------
(* signals.py: no score makes up for a veto                                *)

generate(score, vetos, confianza) ==
    CASE vetos # {} -> "ignore"
      [] vetos = {} /\ confianza < 5000 -> "watch"
      [] vetos = {} /\ confianza >= 5000 /\ score >= 8000 -> "enter"
      [] vetos = {} /\ confianza >= 5000 /\ score \in 6500 .. 7999 -> "enter_small"
      [] vetos = {} /\ confianza >= 5000 /\ score \in 5500 .. 6499 -> "prepare"
      [] vetos = {} /\ confianza >= 5000 /\ score \in 4000 .. 5499 -> "watch"
      [] OTHER -> "ignore"
=============================================================================
