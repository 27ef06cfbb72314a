------------------------------- MODULE Llavero -------------------------------
(***************************************************************************)
(* The key store of the signer (apps/signer: cartera.py, crypto.py): two   *)
(* files, the password and the key encrypted with it.  Each is made the    *)
(* first time it is missed, by a write that first empties it; the process  *)
(* may die in between, and may be started again with the password in its   *)
(* environment or without it.                                              *)
(*                                                                         *)
(* Key pairs are numbered as they are made.  What encryption does is this: *)
(* what was closed with a password opens with it and with no other.        *)
(***************************************************************************)
EXTENDS Integers

CONSTANTS
    Entornos,          \* SIGNER_PASSWORD of each start; SIN_ENTORNO, not set
    SIN_ENTORNO,
    MaxCreadas         \* bound: key pairs that are ever made

ASSUME LlaveroAssumption == MaxCreadas \in Nat \ {0}

VARIABLES
    entorno,           \* SIGNER_PASSWORD of this run of the process
    contrasena,        \* the file key_password
    clave,             \* the file trading_key.enc
    gestion,           \* what cargar_o_crear is doing
    creadas,           \* key pairs made so far, in memory or on disk
    mostradas,         \* ghost: addresses the user has been shown
    averia             \* ghost: the files were left half written

varsLlavero == <<entorno, contrasena, clave, gestion, creadas, mostradas, averia>>

NO_HAY == [tipo |-> "no hay"]              \* the file does not exist
VACIO == [tipo |-> "vacio"]                \* emptied and not yet written
GENERADA == [tipo |-> "generada"]         \* secrets.token_urlsafe
DelEntorno(e) == [tipo |-> "entorno", valor |-> e]
Cifrada(par, con) == [tipo |-> "cifrada", par |-> par, con |-> con]

\* _password, when nothing has to be written: the environment first.
Tengo == IF entorno # SIN_ENTORNO THEN DelEntorno(entorno) ELSE contrasena

\* decrypt: not an empty file, not an empty password, and the right one.
Abre(par) == clave.tipo = "cifrada" /\ clave.par = par /\ clave.con = Tengo

PuedeAbrir == \E par \in 1 .. MaxCreadas : Abre(par)

-----------------------------------------------------------------------------

InitLlavero ==
    /\ entorno \in Entornos
    /\ contrasena = NO_HAY
    /\ clave = NO_HAY
    /\ gestion = "nada"
    /\ creadas = 0
    /\ mostradas = {}
    /\ averia = FALSE

\* _password: no file and nothing in the environment.  write_text empties the
\* file before it writes.
PrepararContrasena ==
    /\ gestion = "nada"
    /\ Tengo = NO_HAY
    /\ contrasena' = VACIO
    /\ gestion' = "contrasena"
    /\ UNCHANGED <<entorno, clave, creadas, mostradas, averia>>

EscribirContrasena ==
    /\ gestion = "contrasena"
    /\ contrasena' = GENERADA
    /\ gestion' = "nada"
    /\ UNCHANGED <<entorno, clave, creadas, mostradas, averia>>

\* Mutant: a key that does not open is taken for one that is not there.
MutFalta == clave = NO_HAY \/ ~PuedeAbrir

Falta == clave = NO_HAY

\* cargar_o_crear, the first time: with a password that is not empty, which
\* encrypt refuses before the file is touched.
PrepararClave ==
    /\ gestion = "nada"
    /\ Tengo \notin {NO_HAY, VACIO}
    /\ Falta
    /\ creadas < MaxCreadas
    /\ creadas' = creadas + 1
    /\ clave' = VACIO
    /\ gestion' = "clave"
    /\ UNCHANGED <<entorno, contrasena, mostradas, averia>>

\* The address goes to the log and to the caller.
EscribirClave ==
    /\ gestion = "clave"
    /\ clave' = Cifrada(creadas, Tengo)
    /\ mostradas' = mostradas \cup {creadas}
    /\ gestion' = "nada"
    /\ UNCHANGED <<entorno, contrasena, creadas, averia>>

\* cargar_o_crear, every other time; /health shows the address.
Abrir1 ==
    /\ gestion = "nada"
    /\ \E par \in 1 .. MaxCreadas : Abre(par) /\ mostradas' = mostradas \cup {par}
    /\ UNCHANGED <<entorno, contrasena, clave, gestion, creadas, averia>>

\* The process dies: what was emptied stays empty.
Morir ==
    /\ averia' = (averia \/ gestion # "nada")
    /\ gestion' = "nada"
    /\ UNCHANGED <<entorno, contrasena, clave, creadas, mostradas>>

\* The process starts, with whatever its environment holds this time.
Renacer ==
    /\ entorno' \in Entornos
    /\ UNCHANGED <<contrasena, clave, gestion, creadas, mostradas, averia>>

CargarOCrear ==
    \/ PrepararContrasena \/ EscribirContrasena \/ PrepararClave \/ EscribirClave \/ Abrir1

-----------------------------------------------------------------------------
(* Properties                                                              *)

\* Every variable keeps its type: each file is missing, empty, or what one of
\* the two writes leaves in it (cartera.py:48-100).
LlaveroTypeOK ==
    /\ entorno \in Entornos
    /\ contrasena \in {NO_HAY, VACIO, GENERADA}
    /\ clave \in {NO_HAY, VACIO}
          \cup {Cifrada(par, con) : par \in 1 .. MaxCreadas,
                con \in {GENERADA} \cup {DelEntorno(e) : e \in Entornos}}
    /\ gestion \in {"nada", "contrasena", "clave"}
    /\ creadas \in 0 .. MaxCreadas
    /\ mostradas \subseteq 1 .. MaxCreadas
    /\ averia \in BOOLEAN

\* The address the user was shown, and sent SOL to, is the one whose key is on
\* disk, and there is no other: no later start replaces it, whatever it finds
\* in its environment, wherever the earlier ones died (cartera.py:74-100).
\* If a generated password closed it, that password is still in its file; and
\* no file is left empty unless the process died in the middle of a write.
LaMostradaSigueAhi ==
    /\ \A par \in mostradas : clave.tipo = "cifrada" /\ clave.par = par
    /\ clave.tipo = "cifrada" /\ clave.con = GENERADA => contrasena = GENERADA
    /\ clave.tipo = "vacio" => gestion = "clave" \/ averia
    /\ contrasena.tipo = "vacio" => gestion = "contrasena" \/ averia
=============================================================================
