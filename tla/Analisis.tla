------------------------------- MODULE Analisis -------------------------------
(***************************************************************************)
(* The background analysis of the tokens that are detected                 *)
(* (apps/worker/mit_worker: analysis.py, enrichment.py): a bounded queue   *)
(* that drops the newest, one consumer, four parts read one after the      *)
(* other from the RPC, each of which may be refused, and a verdict on what *)
(* could be read.                                                          *)
(*                                                                         *)
(* What the chain says of a token is fixed; what the RPC lets the worker   *)
(* see of it is not.  The supply is read and used by nothing, but its      *)
(* refusal marks the verdict as partial.                                   *)
(***************************************************************************)
EXTENDS Manipulacion, Veredicto

CONSTANTS
    Verdades,          \* token -> what the chain says of it
    QUEUE_SIZE,        \* 12 in the code
    MAX_TRANSACTIONS,  \* limits.max_transactions: 3
    PROTOCOL_ACCOUNTS  \* wallets that are no traders

\* A token has finitely many holders, and a transaction finitely many trades.
EsVerdad(v) ==
    /\ IsFiniteSet(DOMAIN v.holders)
    /\ \A h \in DOMAIN v.holders : v.holders[h] \in Nat
    /\ v.transactions \in Seq(Range(v.transactions))
    /\ \A ts \in Range(v.transactions) : IsFiniteSet(ts)

ASSUME AnalisisAssumption ==
    /\ {QUEUE_SIZE, MAX_TRANSACTIONS} \subseteq Nat \ {0}
    /\ \A t \in DOMAIN Verdades : EsVerdad(Verdades[t])

VARIABLES
    porLlegar,         \* tokens that have not been detected yet
    cola,              \* _queue
    analizando,        \* the token in hand, or SinToken
    parte,             \* what is read next
    contexto,          \* what has been read so far
    partial,           \* some part was refused
    veredictos,        \* token -> how it ended, and what it was judged on
    descartados        \* stats.dropped, as a set

varsAnalisis == <<porLlegar, cola, analizando, parte, contexto, partial, veredictos, descartados>>

SinToken == "ninguno"
Tokens == DOMAIN Verdades
Partes == <<"duerme", "holders", "supply", "trades", "creador", "juzga">>

EnBlanco == [holders |-> << >>, trades |-> {}, launches |-> 0, dumps |-> 0]

-----------------------------------------------------------------------------
(* The verdict                                                             *)

\* An empty census and one that was refused look the same: 0 holders, and
\* nothing in the hands of the largest ten.
_scores_from(report, metrics, curva_conocida) ==
    [TokenScores EXCEPT
        !["liquidity"] = IF curva_conocida THEN 8000 ELSE 0,
        !["distribution"] = Mayor(0, BASIS_POINTS - metrics.top10_pct),
        !["holder_quality"] = Menor(BASIS_POINTS, metrics.holder_count * 200),
        !["manipulation_risk"] = report * 100,
        !["rug_risk"] = report * 80,
        !["data_confidence"] = (IF metrics.holder_count > 0 THEN 6000 ELSE 4500)
                               + (IF curva_conocida THEN 1500 ELSE 0)]

\* The accounts of the protocol are taken off the trades here, and off the
\* census by the detector of concentration; the scores and the vetoes are given
\* the concentration of the whole census.
_analyze(token, leido) ==
    LET v == Verdades[token]
        c == [creator |-> v.creator, created_at |-> v.created_at, name |-> v.name, uri |-> v.uri,
              holders |-> leido.holders, programas |-> PROTOCOL_ACCOUNTS,
              launches |-> leido.launches, dumps |-> leido.dumps,
              trades |-> {t \in leido.trades : t.wallet \notin PROTOCOL_ACCOUNTS}]
        report == analyze(c).score
        metrics == concentration(c.holders)
        scores == _scores_from(report, metrics, v.reservas > 0)
        vetos == evaluate([EligibilityInputs EXCEPT
                    !.data_confidence = scores["data_confidence"],
                    !.rug_risk = scores["rug_risk"],
                    !.manipulation_risk = scores["manipulation_risk"],
                    !.top10_pct_adjusted = metrics.top10_pct,
                    !.liquidity = v.reservas])
        opportunity == opportunity_score(scores)
    IN  [opportunity |-> opportunity, manipulation |-> report, holders |-> metrics.holder_count,
         eligible |-> vetos = {}, signal |-> generate(opportunity, vetos, 5000), scores |-> scores]

-----------------------------------------------------------------------------
(* The queue                                                               *)

\* Mutant: it drops the token and does not say so.
MutSubmit(token) ==
    /\ token \in porLlegar
    /\ porLlegar' = porLlegar \ {token}
    /\ cola' = IF Len(cola) < QUEUE_SIZE THEN Append(cola, token) ELSE cola
    /\ UNCHANGED <<descartados, analizando, parte, contexto, partial, veredictos>>

\* A full queue drops the token that comes, and says so.
submit(token) ==
    /\ token \in porLlegar
    /\ porLlegar' = porLlegar \ {token}
    /\ IF Len(cola) < QUEUE_SIZE
       THEN cola' = Append(cola, token) /\ UNCHANGED descartados
       ELSE descartados' = descartados \cup {token} /\ UNCHANGED cola
    /\ UNCHANGED <<analizando, parte, contexto, partial, veredictos>>

Coger ==
    /\ analizando = SinToken
    /\ cola # << >>
    /\ analizando' = Head(cola)
    /\ cola' = Tail(cola)
    /\ parte' = "duerme"
    /\ contexto' = EnBlanco
    /\ partial' = FALSE
    /\ UNCHANGED <<porLlegar, veredictos, descartados>>

Siguiente == Partes[1 + CHOOSE i \in 1 .. Len(Partes) - 1 : Partes[i] = parte]

\* A part that the RPC refuses leaves a note and what was read before it.
Leer(p, leido) ==
    /\ parte = p
    /\ parte' = Siguiente
    /\ \/ contexto' = leido /\ UNCHANGED partial
       \/ partial' = TRUE /\ UNCHANGED contexto
    /\ UNCHANGED <<porLlegar, cola, analizando, veredictos, descartados>>

Dormir ==
    /\ parte = "duerme"
    /\ parte' = Siguiente
    /\ UNCHANGED <<porLlegar, cola, analizando, contexto, partial, veredictos, descartados>>

LeerHolders == Leer("holders", [contexto EXCEPT !.holders = Verdades[analizando].holders])

LeerSupply == Leer("supply", contexto)

\* The transactions come newest first and one call at a time: what was read
\* before the refusal stays.
LeerTrades ==
    LET txs == Verdades[analizando].transactions
        todas == Menor(MAX_TRANSACTIONS, Len(txs))
        hasta(n) == UNION {txs[i] : i \in 1 .. n}
    IN  /\ parte = "trades"
        /\ parte' = Siguiente
        /\ \E n \in 0 .. todas :
              /\ contexto' = [contexto EXCEPT !.trades = hasta(n)]
              /\ \/ n = todas /\ UNCHANGED partial
                 \/ partial' = TRUE
        /\ UNCHANGED <<porLlegar, cola, analizando, veredictos, descartados>>

\* What the creator did is counted whole or not at all.
LeerCreador ==
    Leer("creador", [contexto EXCEPT !.launches = Verdades[analizando].launches,
                                     !.dumps = Verdades[analizando].dumps])

Acabar(como, leido, parcial) ==
    /\ veredictos' = [veredictos EXCEPT ![analizando] =
            [acaba |-> como, partial |-> parcial, contexto |-> leido]]
    /\ analizando' = SinToken
    /\ parte' = "duerme"
    /\ contexto' = EnBlanco
    /\ partial' = FALSE
    /\ UNCHANGED <<porLlegar, cola, descartados>>

\* The verdict is what _analyze says of what was read.
Juzgar == parte = "juzga" /\ Acabar("analizado", contexto, partial)

\* Anything else that is raised loses this token and no other.
Fallar == analizando # SinToken /\ parte # "duerme" /\ Acabar("fallo", EnBlanco, FALSE)

Consumir ==
    Coger \/ (analizando # SinToken /\ (Dormir \/ LeerHolders \/ LeerSupply \/ LeerTrades
                                        \/ LeerCreador \/ Juzgar)) \/ Fallar

InitAnalisis ==
    /\ porLlegar = Tokens
    /\ cola = << >>
    /\ analizando = SinToken
    /\ parte = "duerme"
    /\ contexto = EnBlanco
    /\ partial = FALSE
    /\ veredictos = [t \in Tokens |-> [acaba |-> "nada", partial |-> FALSE, contexto |-> EnBlanco]]
    /\ descartados = {}

NextAnalisis == Consumir \/ \E t \in Tokens : submit(t)

\* The consumer is a task that nothing cancels, and every call of the RPC has a
\* time limit.
SpecAnalisis == InitAnalisis /\ [][NextAnalisis]_varsAnalisis /\ WF_varsAnalisis(Consumir)

-----------------------------------------------------------------------------
(* Properties                                                              *)

Juzgados == {t \in Tokens : veredictos[t].acaba = "analizado"}
Veredicto(t) == _analyze(t, veredictos[t].contexto)

\* No analysis advises to enter, to prepare or even to watch a token: what the
\* chain alone lets the worker measure does not reach the lowest threshold,
\* whichever part was refused (_scores_from, analysis.py:79-106;
\* opportunity_score, scores.py:117; generate, signals.py:77).
AnalisisNoAbre == \A t \in Juzgados : Veredicto(t).signal = "ignore"

\* Every token that is queued is analysed or fails, and while it waits it is in
\* the queue or in hand, never dropped as well (submit, run:
\* analysis.py:118-205).
TodoEncoladoAcaba ==
    \A t \in Tokens : (t \notin porLlegar) ~>
        (t \in descartados \/ veredictos[t].acaba # "nada")

\* Only what could be measured scores: "Solo se rellenan los que se pueden MEDIR
\* con datos on-chain ... rellenarlos falsearia el OpportunityScore hacia arriba"
\* (_scores_from, analysis.py:84-86).  A census that the RPC refused fills the
\* distribution with its best score.
SinCensoSinNota == \A t \in Juzgados :
    Veredicto(t).holders = 0 => Veredicto(t).scores["distribution"] = 0
=============================================================================
