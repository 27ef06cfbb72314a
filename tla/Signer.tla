------------------------------- MODULE Signer -------------------------------
(***************************************************************************)
(* The isolated signing service (apps/signer): the HTTP handlers of        *)
(* servicio.py, the policy and the on-disk daily counter of policy.py, and *)
(* the registration of the one wallet SOL may be withdrawn to.             *)
(*                                                                         *)
(* A handler of the service never awaits, so two requests do not           *)
(* interleave; what interleaves with a handler is the clock (midnight UTC) *)
(* and the death of the process, which the desktop program causes every    *)
(* time its window closes.  `paso' says how far the running handler is.    *)
(***************************************************************************)
EXTENDS Naturals

CONSTANTS
    Carteras,       \* addresses that are not the signer's own
    Propia,         \* the signer's own wallet
    Nadie,          \* no address (a missing or empty file)
    SinFichero,     \* the counter file does not exist
    Ilegible,       \* the counter file exists and cannot be parsed
    Transacciones,  \* the transaction shapes a caller may ask to have signed
    Importes,       \* amounts a caller may declare (PeticionFirma: ge=0)
    MaxPorOrden,    \* SIGNER_MAX_ORDER_SOL
    MaxDiario,      \* SIGNER_MAX_DAILY_SOL
    UltimoDia,      \* bound: last day the clock reaches
    MaxGastado,     \* bound: largest amount a day is followed to
    Fallos          \* the faults this instance allows

Programas == {"Pumpfun", "ComputeBudget", "ATA", "System", "Otro"}

\* What the policy distinguishes in a decoded transaction: who pays, which
\* programs it invokes, and its System instructions, each written as the
\* destination of a Transfer or as Nadie for any other System instruction.
Formas == [pagador   : Carteras \cup {Propia},
           programas : SUBSET Programas,
           sistema   : SUBSET (Carteras \cup {Nadie})]

ASSUME DireccionesAssumption ==
    /\ Propia \notin Carteras
    /\ Nadie \notin Carteras
    /\ Nadie # Propia

ASSUME TransaccionesAssumption ==
    /\ Transacciones \subseteq Formas
    /\ \A tx \in Transacciones : "System" \in tx.programas <=> tx.sistema # {}

ASSUME NumerosAssumption ==
    /\ Importes \subseteq Nat
    /\ MaxPorOrden \in Nat
    /\ MaxDiario \in Nat
    /\ UltimoDia \in Nat
    /\ MaxGastado \in Nat

\* "disco": a save of the counter fails and the failure is only logged.
\* "ilegible": the counter file is damaged from outside.
\* "reloj": the system clock is set back.
\* "corte": the process dies between truncating and writing the wallet file.
\* `fallado' records which of the two files can no longer be relied on.
ASSUME FallosAssumption == Fallos \subseteq {"disco", "ilegible", "reloj", "corte"}

Dias == 0 .. UltimoDia
Cuentas == [dia : Dias, gastado : Nat]

ASSUME FicheroAssumption ==
    /\ SinFichero \notin Cuentas
    /\ Ilegible \notin Cuentas
    /\ SinFichero # Ilegible

VARIABLES
    modo,       \* SIGNER_MODE of this run of the process
    vivo,       \* the process is running
    hoy,        \* the UTC date
    contador,   \* CONTADOR, in memory
    disco,      \* gastado_hoy.json
    retirada,   \* cartera_retirada.txt
    paso,       \* progress of the handler that is running
    peticion,   \* the request that handler serves
    firmado,    \* ghost: amount of the orders signed, by day of the counter
    salidas,    \* ghost: wallets SOL was signed away to
    fijada,     \* ghost: first wallet registered since the file was deleted
    fallado     \* ghost: the files a fault has made unreliable

memoria == <<contador, paso, peticion>>
ghost == <<firmado, salidas, fijada>>
vars == <<modo, vivo, hoy, contador, disco, retirada, paso, peticion, ghost,
          fallado>>

Pasos == {"libre", "validada", "anotada", "guardada", "escribiendo"}
\* The request a handler serves: for a withdrawal, where the money goes; for a
\* registration, the wallet.
Ocioso == [importe |-> 0, destinos |-> {}]

-----------------------------------------------------------------------------
(* policy.py                                                               *)

PROGRAMAS_PERMITIDOS == {"Pumpfun", "ComputeBudget", "ATA"}

\* Mutant: any transfer is taken for a withdrawal.
MutEsRetiradaValida(tx, r) == r # Nadie /\ "System" \in tx.programas

\* A clean withdrawal: System transfers to the registered wallet, perhaps
\* ComputeBudget, and nothing else.
EsRetiradaValida(tx, r) ==
    /\ r # Nadie
    /\ tx.programas \subseteq {"ComputeBudget", "System"}
    /\ tx.sistema = {r}

BajoTopeOrden(importe) == importe <= MaxPorOrden

\* Contador._al_dia: another date means nothing has been spent yet.
AlDia(c) == IF c.dia = hoy THEN c ELSE [dia |-> hoy, gastado |-> 0]

\* importe <= Contador.disponible(max_diario)
Cabe(c, importe) == c.gastado + importe <= MaxDiario

\* Mutant: the amount replaces what was spent.
MutAnotado(c, importe) == [c EXCEPT !.gastado = importe]

\* Contador.anotar, without the save.
Anotado(c, importe) == [c EXCEPT !.gastado = @ + importe]

\* Mutant: the counter lives in memory only.
MutLeido(fichero) == [dia |-> hoy, gastado |-> 0]

\* Contador._leer when the process starts.
Leido(fichero) ==
    IF fichero \in {SinFichero, Ilegible} THEN [dia |-> hoy, gastado |-> 0]
                                          ELSE fichero

Ocurre(f) ==
    /\ f \in Fallos
    /\ fallado' = fallado \cup {IF f = "corte" THEN "retirada" ELSE "contador"}

\* Contador._guardar: an atomic replace; an OSError is logged and swallowed.
Guardar(c) ==
    \/ disco' = c /\ UNCHANGED fallado
    \/ Ocurre("disco") /\ UNCHANGED disco

\* The save _al_dia does when it moves the counter to another day.
GuardarSiCambia(c) == IF c = contador THEN UNCHANGED <<disco, fallado>> ELSE Guardar(c)

\* /retirada takes a wallet when none is registered or it is the same one.
PuedeRegistrar(destino) == destino # Propia /\ retirada \in {Nadie, destino}

-----------------------------------------------------------------------------
(* servicio.py                                                             *)

Init ==
    /\ modo \in {"disabled", "local_encrypted"}
    /\ vivo = TRUE
    /\ hoy = 0
    /\ contador = [dia |-> 0, gastado |-> 0]
    /\ disco = SinFichero
    /\ retirada = Nadie
    /\ paso = "libre"
    /\ peticion = Ocioso
    /\ firmado = [d \in Dias |-> 0]
    /\ salidas = {}
    /\ fijada = Nadie
    /\ fallado = {}

Atiende == vivo /\ paso = "libre"

\* /firmar, a withdrawal: validar returns before either cap is looked at.
AceptarRetirada(tx, importe) ==
    /\ Atiende
    /\ modo = "local_encrypted"
    /\ tx.pagador = Propia
    /\ EsRetiradaValida(tx, retirada)
    /\ contador.gastado + importe <= MaxGastado
    /\ paso' = "validada"
    /\ peticion' = [importe |-> importe, destinos |-> tx.sistema]
    /\ UNCHANGED <<modo, vivo, hoy, contador, disco, retirada, ghost, fallado>>

\* /firmar, an order: only allowed programs, under both caps.
AceptarOrden(tx, importe) ==
    /\ Atiende
    /\ modo = "local_encrypted"
    /\ tx.pagador = Propia
    /\ ~EsRetiradaValida(tx, retirada)
    /\ tx.programas \subseteq PROGRAMAS_PERMITIDOS
    /\ BajoTopeOrden(importe)
    /\ contador' = AlDia(contador)
    /\ GuardarSiCambia(AlDia(contador))
    /\ Cabe(AlDia(contador), importe)
    /\ \A d \in Dias : firmado[d] + importe <= MaxGastado
    /\ paso' = "validada"
    /\ peticion' = [importe |-> importe, destinos |-> {}]
    /\ UNCHANGED <<modo, vivo, hoy, retirada, ghost>>

\* /health reads the counter, which moves it to today; so does an order that
\* validar refuses for the daily cap.  Every other refusal changes nothing.
PonerAlDia ==
    /\ Atiende
    /\ contador.dia # hoy
    /\ contador' = AlDia(contador)
    /\ Guardar(AlDia(contador))
    /\ UNCHANGED <<modo, vivo, hoy, retirada, paso, peticion, ghost>>

\* CONTADOR.anotar: every accepted request is counted, BEFORE it is signed.
Anotar ==
    /\ vivo /\ paso = "validada"
    /\ contador' = Anotado(AlDia(contador), peticion.importe)
    /\ GuardarSiCambia(AlDia(contador))
    /\ paso' = "anotada"
    /\ UNCHANGED <<modo, vivo, hoy, retirada, peticion, ghost>>

GuardarContador ==
    /\ vivo /\ paso = "anotada"
    /\ Guardar(contador)
    /\ paso' = "guardada"
    /\ UNCHANGED <<modo, vivo, hoy, contador, retirada, peticion, ghost>>

\* The signature leaves the process.
Firmar ==
    /\ vivo /\ paso = "guardada"
    /\ IF peticion.destinos = {}
       THEN /\ firmado' = [firmado EXCEPT ![contador.dia] = @ + peticion.importe]
            /\ UNCHANGED salidas
       ELSE /\ salidas' = salidas \cup peticion.destinos
            /\ UNCHANGED firmado
    /\ paso' = "libre"
    /\ peticion' = Ocioso
    /\ UNCHANGED <<modo, vivo, hoy, contador, disco, retirada, fijada, fallado>>

\* /retirada: write_text truncates the file ...
Registrar(destino) ==
    /\ Atiende
    /\ modo = "local_encrypted"
    /\ PuedeRegistrar(destino)
    /\ retirada' = Nadie
    /\ paso' = "escribiendo"
    /\ peticion' = [importe |-> 0, destinos |-> {destino}]
    /\ UNCHANGED <<modo, vivo, hoy, contador, disco, ghost, fallado>>

\* ... and then writes the address.
TerminarRegistro ==
    /\ vivo /\ paso = "escribiendo"
    /\ \E destino \in peticion.destinos :
         /\ retirada' = destino
         /\ fijada' = IF fijada = Nadie THEN destino ELSE fijada
    /\ paso' = "libre"
    /\ peticion' = Ocioso
    /\ UNCHANGED <<modo, vivo, hoy, contador, disco, firmado, salidas, fallado>>

-----------------------------------------------------------------------------
(* The process and its environment                                         *)

\* The desktop program closes (SIGTERM) or the process dies, at any point.
Caer ==
    /\ vivo
    /\ IF paso = "escribiendo" THEN Ocurre("corte") ELSE UNCHANGED fallado
    /\ vivo' = FALSE
    /\ paso' = "libre"
    /\ peticion' = Ocioso
    /\ UNCHANGED <<modo, hoy, contador, disco, retirada, ghost>>

\* Import of servicio.py: MODO from the environment, CONTADOR from the file.
Arrancar(m) ==
    /\ ~vivo
    /\ vivo' = TRUE
    /\ modo' = m
    /\ contador' = Leido(disco)
    /\ UNCHANGED <<hoy, disco, retirada, paso, peticion, ghost, fallado>>

\* The documented way to change the wallet: with the program closed, by hand.
BorrarRetirada ==
    /\ ~vivo
    /\ retirada # Nadie
    /\ retirada' = Nadie
    /\ fijada' = Nadie
    /\ UNCHANGED <<modo, vivo, hoy, memoria, disco, firmado, salidas, fallado>>

Medianoche ==
    /\ hoy < UltimoDia
    /\ hoy' = hoy + 1
    /\ UNCHANGED <<modo, vivo, memoria, disco, retirada, ghost, fallado>>

AtrasarReloj ==
    /\ Ocurre("reloj")
    /\ hoy > 0
    /\ hoy' = hoy - 1
    /\ UNCHANGED <<modo, vivo, memoria, disco, retirada, ghost>>

DanarFichero ==
    /\ Ocurre("ilegible")
    /\ disco # Ilegible
    /\ disco' = Ilegible
    /\ UNCHANGED <<modo, vivo, hoy, memoria, retirada, ghost>>

Next ==
    \/ \E tx \in Transacciones, n \in Importes : AceptarRetirada(tx, n)
    \/ \E tx \in Transacciones, n \in Importes : AceptarOrden(tx, n)
    \/ PonerAlDia
    \/ Anotar
    \/ GuardarContador
    \/ Firmar
    \/ \E w \in Carteras \cup {Propia} : Registrar(w)
    \/ TerminarRegistro
    \/ Caer
    \/ \E m \in {"disabled", "local_encrypted"} : Arrancar(m)
    \/ BorrarRetirada
    \/ Medianoche
    \/ AtrasarReloj
    \/ DanarFichero

Spec == Init /\ [][Next]_vars

-----------------------------------------------------------------------------
(* Properties                                                              *)

TypeOK ==
    /\ modo \in {"disabled", "local_encrypted"}
    /\ vivo \in BOOLEAN
    /\ hoy \in Dias
    /\ contador \in Cuentas
    /\ disco \in Cuentas \cup {SinFichero, Ilegible}
    /\ retirada \in Carteras \cup {Nadie}
    /\ paso \in Pasos
    /\ peticion \in [importe : Nat, destinos : SUBSET (Carteras \cup {Nadie})]
    /\ firmado \in [Dias -> Nat]
    /\ salidas \subseteq Carteras \cup {Nadie}
    /\ fijada \in Carteras \cup {Nadie}
    /\ fallado \subseteq {"contador", "retirada"}

ContadorFiable == "contador" \notin fallado

\* The cap of SECURITY.md: the orders signed on any one day never add up to
\* more than SIGNER_MAX_DAILY_SOL, however often the program is closed and
\* opened in between, at whatever point of a request, and wherever midnight
\* falls, as long as no save failed, the file is intact and the clock only
\* advances.
TopeDiario == ContadorFiable => \A d \in Dias : firmado[d] <= MaxDiario

\* What has been signed today is already in the counter file, so that the
\* process that replaces this one starts from at least that much.
DiscoCubre ==
    ContadorFiable /\ firmado[hoy] > 0 =>
        /\ disco \in Cuentas
        /\ disco.dia = hoy
        /\ disco.gastado >= firmado[hoy]

\* SOL is only ever signed away to the wallet that was registered first, also
\* when it is registered again, the program restarts, a withdrawal is already
\* being served or the counter fails; only a death in the middle of writing
\* the wallet file can break it.
SaleSoloALaFijada ==
    [][salidas' # salidas /\ "retirada" \notin fallado =>
         fijada # Nadie /\ salidas' = salidas \cup {fijada}]_vars

\* No step signs orders for more than SIGNER_MAX_ORDER_SOL, whatever fails.
TopePorOrden == [][\A d \in Dias : firmado'[d] <= firmado[d] + MaxPorOrden]_vars

\* "Se registra una sola vez" (registrar_retirada): until the file is deleted
\* by hand, the only wallet it ever holds is the first one registered.
RetiradaUnaVez == retirada \in {Nadie, fijada}

=============================================================================
