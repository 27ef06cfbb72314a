------------------------------- MODULE Consulta -------------------------------
(***************************************************************************)
(* The parts that ask and show, side by side: the sources of the command-  *)
(* line analyser and its forecast, the RPC client and the live view of a   *)
(* token.  They share no state, so a behaviour of the whole is a behaviour *)
(* of each; here only the one that `maquina` names moves.                  *)
(***************************************************************************)
EXTENDS Fuentes, Rpc, Vista, Pronostico

VARIABLE maquina       \* which of them moves

varsConsulta == <<maquina, varsFuentes, varsRpc, varsVista, varsPronostico>>

Tamano(m) == Len(m.trades) + Len(m.velas)

InitConsulta ==
    /\ maquina \in {"fuentes", "rpc", "vista", "pronostico"}
    /\ InitFuentes /\ InitRpc /\ InitVista /\ InitPronostico
    /\ maquina # "fuentes" =>
          /\ trabajo = CHOOSE r \in Repartos : TRUE
          /\ \A h \in Hilos : quedan[h] = << >>
    /\ maquina # "pronostico" =>
          /\ medida = CHOOSE m \in Medidas : \A n \in Medidas : Tamano(m) <= Tamano(n)
          /\ horizonte = CHOOSE s \in Horizontes : TRUE

Fuentes1 == maquina = "fuentes" /\ UNCHANGED <<maquina, varsRpc, varsVista, varsPronostico>>
Rpc1 == maquina = "rpc" /\ UNCHANGED <<maquina, varsFuentes, varsVista, varsPronostico>>
Vista1 == maquina = "vista" /\ UNCHANGED <<maquina, varsFuentes, varsRpc, varsPronostico>>
Pronostico1 == maquina = "pronostico" /\ UNCHANGED <<maquina, varsFuentes, varsRpc, varsVista>>

NextConsulta ==
    \/ Fuentes1 /\ NextFuentes
    \/ Rpc1 /\ NextRpc
    \/ Vista1 /\ NextVista
    \/ Pronostico1 /\ NextPronostico

\* What SpecFuentes and SpecVista ask of the threads, the tasks and time.
SpecConsulta ==
    /\ InitConsulta /\ [][NextConsulta]_varsConsulta
    /\ WF_varsConsulta(Fuentes1 /\ Reloj)
    /\ \A h \in Hilos : WF_varsConsulta(Fuentes1 /\ Hilo(h))
    /\ WF_varsConsulta(Vista1 /\ RelojVista)
    /\ \A m \in Mints : /\ WF_varsConsulta(Vista1 /\ Pedir(m))
                        /\ WF_varsConsulta(Vista1 /\ Contestar(m))
                        /\ WF_varsConsulta(Vista1 /\ Vigilar(m))
=============================================================================
