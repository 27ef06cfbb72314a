------------------------------- MODULE Decision -------------------------------
(***************************************************************************)
(* The parts that decide, side by side: the simulator, the order ledger,   *)
(* the risk engine, the series of prices and the background analysis.  In  *)
(* this version of the code no one of them calls another and they share    *)
(* no state, so a behaviour of the whole is a behaviour of each; here only *)
(* the one that `maquina` names moves.                                     *)
(***************************************************************************)
EXTENDS Backtest, Series, Ordenes, Riesgo, Analisis

VARIABLE maquina       \* which of them moves

varsDecision == <<maquina, varsSimulador, serie, varsOrdenes, varsRiesgo, varsAnalisis>>

InitDecision ==
    /\ maquina \in {"simulador", "ordenes", "riesgo", "series", "analisis"}
    /\ InitSimulador /\ InitSerie /\ InitOrdenes /\ InitRiesgo /\ InitAnalisis
    /\ maquina # "simulador" => curva = CHOOSE c \in Curvas : TRUE

NextDecision ==
    /\ UNCHANGED maquina
    /\ \/ /\ maquina = "simulador" /\ Evento
          /\ UNCHANGED <<serie, varsOrdenes, varsRiesgo, varsAnalisis>>
       \/ /\ maquina = "series" /\ Llega
          /\ UNCHANGED <<varsSimulador, varsOrdenes, varsRiesgo, varsAnalisis>>
       \/ /\ maquina = "ordenes" /\ NextOrdenes
          /\ UNCHANGED <<varsSimulador, serie, varsRiesgo, varsAnalisis>>
       \/ /\ maquina = "riesgo" /\ NextRiesgo
          /\ UNCHANGED <<varsSimulador, serie, varsOrdenes, varsAnalisis>>
       \/ /\ maquina = "analisis" /\ NextAnalisis
          /\ UNCHANGED <<varsSimulador, serie, varsOrdenes, varsRiesgo>>

\* Only the consumer of the analysis is a task of its own.
SpecDecision ==
    InitDecision /\ [][NextDecision]_varsDecision
    /\ WF_varsDecision(/\ maquina = "analisis" /\ Consumir
                       /\ UNCHANGED <<maquina, varsSimulador, serie, varsOrdenes, varsRiesgo>>)
=============================================================================
