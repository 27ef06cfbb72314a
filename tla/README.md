# A verification project for Pumpscope

TLA+ models of the parts of this repository where an order of events decides
whether money is spent, a position is sold or a token is noticed; the TLC
instances that check them; and TLAPS proofs of what matters most for every
value of the parameters.

Contents: [the system](#the-system), [the modules](#the-modules),
[the runs](#the-runs), [bounds](#bounds), [fairness](#fairness),
[what is proved](#what-is-proved), [what the runs found](#what-the-runs-found),
[what is not modelled](#what-is-not-modelled), [the plan](#the-plan),
[how to run it](#how-to-run-it).

## The system

Pumpscope watches the Pump.fun launchpad on Solana: it detects new tokens,
measures them, shows them in a panel, prepares the purchases and sales its user
orders, signs them with a wallet of its own and sells a position by itself when
a stop fires. The processes are one **worker** (detection), one **API** (panel,
orders, automatic stop) and one **signer**; the desktop program starts the last
two. Each Python process runs one asyncio event loop, so two coroutines
interleave only where one of them awaits. Processes share PostgreSQL, Redis and
a few files.

| Component (source) | State | Operations | Hard behaviour | What makes it correct |
|---|---|---|---|---|
| **Signer** (`apps/signer`: servicio, policy) | daily counter and withdrawal wallet, in memory and in two files | sign an order, sign a withdrawal, register the wallet, start | the process dies with the window at any point; midnight; a damaged file; a failed save; the clock set back | daily cap, cap per order, SOL leaves only for the registered wallet |
| **Automatic stop** (`apps/api/.../auto.py`) | dictionary of positions, objects shared with the running round | loop; `/vigilar`, `/cancelar`, `/operar` | handlers run while the round awaits; reads, signatures and sends fail; the sale may not land | a stop that stays due is executed; a closed position stays closed |
| **Log subscriptions** (`solana/multi_log_stream.py`) | wanted keys, request -> key, subscription <-> key | watch, unwatch, iterate | ids come again after a reconnection, answers come after an unwatch, the link breaks midway | right attribution, nothing lost sight of, what stays watched is subscribed |
| **Detection path** (`solana/logs_stream.py`, `racing_stream.py`, `shared/dedup.py`, `pumpfun/detector.py`, worker `ingest.py`, `repository.py`) | connections, one bounded queue, two bounded memories, tables, analysis queue | receive, deduplicate, detect, save, publish | racing sources, repetitions and gaps after a reconnection, overflow, failed writes, death between two steps | no creation vanishes uncounted, none is announced twice |
| **Radar** (worker `ingest.py`) | a dozen bounded memories of the tokens seen, empirical counters, corpus on disk, tokens followed on PumpSwap | creation, trade of the curve, trade on PumpSwap, photo | evictions and prunings of one memory while another still names the token; a coroutine suspended in an eviction; restart | counters are a recount, a stampede keeps its peak, no false graduation |
| **Order preparation** (API `trade.py`, `escritorio` routes) | caches of blockhash, global account, curve, graduation and token accounts | prepare, submit, warm, curve, graduation | concurrent requests fill the caches around awaits; stale data when the RPC fails; retries | nothing is prepared with data older than promised |
| **Analysis** (worker `analysis.py`, `enrichment.py`) | bounded queue, statistics | submit, analyse | full queue, four reads in a row that the RPC may refuse | what is queued is judged or counted, and a missing measure never improves a verdict |
| **Live view** (API `main.py`, `candles.py`, `livesignals.py`, ...) | trackers of the tokens on screen, the last operations of each | look, follow, answer, forget | idle shutdown races with a new look; an answer computed on both sides of two awaits; a rejected subscription | what is looked at is followed, an answer holds together |
| **Key store** (signer `cartera.py`, `crypto.py`) | two files | load or create | death while writing, a password in the environment or not | the wallet that was shown is never replaced |
| **Protocol** (`packages/pumpfun`) | none | quotes, decoding | integer rounding, reserves at their limit | no profit from rounding, no quote above the reserves |
| **RPC client** (`solana/rpc.py`) | lock, instant of the last call | call | retries overtake one another | spacing, bounded attempts |
| **Risk** (`packages/risk`) | none of its own: it judges an account and a position | kill switches, size, stops | several limits that bind at different losses, prices that jump past a stop | a day loses no more than it may, no position stays open |
| **Execution** (`packages/execution`) | ledger of decisions | reserve, mark, check before signing, activate | marks late, repeated or missing; a wait that times out | one landing per decision |
| **Simulator** (`packages/simulation`) | cash, position, trades | buy, sell, step, measure, replay, split | failing fills, fees beyond the capital, looking ahead | cash and trades add up, metrics agree, windows keep apart |
| **Strategies, features, narratives, models** (`packages/strategies`, `features`, `narratives`, `ml`) | none, but for the registry of models | detect, score, veto, signal, label, select a training set | missing measures, what arrives later | vetoes before scores, nothing looks ahead |
| **Panels, desktop shell** (`apps/panel`, `apps/web`, `apps/escritorio`) | open position, child processes | draw, start, stop | stale price, a dead child | no stop on a stale price |
| **Command-line analyser** (`pumpscope.py`, `serve.py`, `ps/`) | moment of the last call, list of soft errors, histories of creators, shared by the threads of its server | analyse, search, look at newborns, stream, forecast | threads over three things without a lock, retries, sources that fail | spacing, honest reports, nothing made of what is missing |
| **Database, scripts** (`infrastructure`) | schema, corpus | migrate, mine | keys the worker relies on; files rewritten in place | - |

How they interact: the automatic stop asks order preparation for an unsigned
sale, the signer (over HTTP) for its signature and the RPC to send it, so the
signer's caps can refuse a stop; the panel asks the same of both by hand. The
detection path feeds the radar and the analysis queue; the radar follows
graduated tokens through the log subscriptions, as the live view does with the
tokens on screen. The signer opens its key store at the start of every request that needs it.
The analysis feeds the strategies, whose verdict the radar publishes. The simulator, the
risk engine and the execution ledger are libraries: no process of this version trades
automatically with them (the API only prices a round trip with the simulator), so their callers are
environment in the models. The command-line
analyser shares nothing with the rest. `PROJECT.json` lists every component with its sources, and the
hazards of each at the line where they bite.

## The modules

Names are the source's wherever the language allows it, and Spanish where the
source is. A ghost variable (marked so where it is declared) records what
happened for a property to speak of; no guard of the code reads one, but for two that
bound the environment: the amount a day is followed to in `Signer`, and
`completas` in `Radar` (a curve has no trades after the one that completes it).
In a module, `MutX` is a plausible bug of the definition `X` that follows it; the specification
does not use it.

### Signer

Handlers of the service never await, so requests do not interleave; what comes
between two statements is the clock and the death of the process. A request is
therefore cut into the points at which a file or the counter changes.

| Model | Code |
|---|---|
| `contador`, `disco` | `Contador`, and the file `CONTADOR.anotar` rewrites (policy.py) |
| `retirada` | the wallet file (servicio.py) |
| `paso`, `peticion` | how far the running handler is, and what it was asked |
| `AceptarOrden`, `AceptarRetirada` | `validar` up to its acceptance; a refusal changes nothing but the day of the counter (`PonerAlDia`) |
| `Anotar`, `GuardarContador`, `Firmar` | the rest of `firmar`: count, save, sign |
| `Registrar`, `TerminarRegistro` | `registrar_retirada`: `write_text` truncates, then writes |
| `Caer`, `Arrancar`, `Medianoche`, `AtrasarReloj`, `DanarFichero`, `BorrarRetirada` | environment: death, start, clock, damage, the user's manual deletion |

A transaction is what the policy distinguishes of it: who pays, the programs
it invokes, the destinations of its System instructions. `Fallos` names
the faults an instance allows, and `fallado` which file can no longer be relied on.

### Llavero and Firmante

`Llavero` is the key store: the two files, each emptied before it is written (`PrepararContrasena`,
`EscribirContrasena`, `PrepararClave`, `EscribirClave`), the death in between (`Morir`), the start
with another environment (`Renacer`), and the cipher as what it does: what was closed with a
password opens with that one (`Abre`). `Firmante` composes it with `Signer`: a handler that needs
the wallet opens it first (`ConLlave`), and process and start are one for both. It is the
specification the signer's runs check; that it takes no step `Signer` does not is a theorem.

### AutoStop

A position is an object, numbered in order of creation, because the round walks
a copy of the list it took at its start: an object may be sold after it was
dropped from, or replaced in, the dictionary. `fase` is the await the loop is
suspended in; each action runs from one await to the next.

| Model | Code |
|---|---|
| `EmpezarVuelta`, `SaltarCerrada` | `_vuelta`: the copy and the check of `cerrada` |
| `LeerTranquila`, `LeerYDisparar`, `LeerGraduada`, `LeerFallida` | reading the curve, updating the peak, deciding |
| `PrepararVenta`, `FirmarVenta`, `EnviarVenta`, `EnvioPerdido`, `VentaFallida` | `_vender` and its handlers of failure |
| `VigilarLeer`, `VigilarInsertar`, `VigilarRechazar`, `Cancelar`, `OperarComprar`, `OperarVender` | the routes |
| `MoverPrecio`, `Graduar`, `DecidirVenta`, `FirmanteCambia`, `CambiarAdmitida`, `Medianoche`, `Reiniciar` | chain, signer, what `prepare` finds, and process (environment) |

The signer is abstracted to what the loop can tell of it: it answers or not and
its caps allow the sale or not (`FirmaAdmite`). What is spent and refused
in detail is `Signer`'s matter. Of the preparation of a sale there is one bit, `admitida`: whether
`prepare` would offer it, or refuse it whatever the RPC does (an output that does not pay its fee, no SOL for the fee,
no recent trade that shows the account to copy, a simulation that fails); it comes and goes with the chain.
`/operar` is one step: what it awaits (auto.py:412-455) leaves nothing the loop reads before its end.

### MultiLogStream

One task iterates, another calls `watch` and `unwatch`. `fase` says whether the
iterator is outside a connection, in the loop that subscribes everything again,
or in `recv`. The provider answers in order, gives ids unique only within a
connection, may reject, and the connection breaks at any moment with what
was travelling on it. `Conectar`, `Resuscribir`, `RecibirAck`, `RecibirRechazo`,
`RecibirAviso`, `Caer` are the iterator; `Watch`, `Unwatch` the caller;
`Aceptar`, `Rechazar`, `DarDeBaja`, `Avisar`, `Romper` the provider and the network.

### Ingesta

Engines (`Conectar`, `Confirmar`, `Rechazar`, `Cortar`, `Traer`), the race's
queue and memory (`Encolar`, `Recordar`, `SacarRepetido`, `SacarOtro`), the
detector (`SacarCreacion`), the transaction (`Guardar`, `FallarAlGuardar`),
publication (`Publicar`), the analysis queue (`Analizar`), and death with restart
(`Reiniciar`), which keeps the database alone.

### Radar

The counters, memories and files of the worker. Each handler that never awaits
is one action; the trade that graduates a token when no place is left
(`OperacionGraduaEsperando`) suspends in the eviction of the oldest, and
`Reanudar` is what follows. `Fotografiar` is the snapshot that closes
stampedes and writes the corpus; `Reiniciar` reads it back (`Sembrar`). Market
caps are naturals, growth is the cap it stands for, and time is a choice made at each trade.

### CacheCurvas

The two caches the API keeps of a token (`curvaCache`, `gradCache`, dictionaries
in order of insertion), and the requests of `token_live` that ask for the
graduation and then for the curve. A request suspends where it awaits the RPC
(`tarea`) and carries over that await what the code does: the curve cached when
the read was sent, the answer to the first question, the instant
`token_graduated` looked at the clock.

| Model | Code |
|---|---|
| `PedirConGraduacion`, `PedirConCurva`, `PedirSinNada` | `token_live` up to its answer or its first await, by what the caches hold |
| `LlegarGraduacion`, `LlegarCurva` | the answer of the RPC: `_leer_curva` and `token_graduated` store it |
| `FallarGraduacion`, `FallarCurva`, `NoHayCurva` | the RPC fails and the old curve is taken for the present one; the account is not there or cannot be decoded |
| `Olvidar` | `forget_graduation` |
| `Mirar`, `Completar`, `PasarTiempo` | node, chain and clock (environment) |

Of a curve only its completion is kept, and of an instant the time since.

### TradePrepare

One order being prepared and one token being warmed, for one token and one wallet, over the
caches both fill. A request is at the datum it awaits (`paso`) and carries what the code's local
variables hold: the curve and the balance it read, the amounts computed (`orden`), those in the
transaction built (`mensaje`) and those announced (`resumen`), which composition is being
tried and whether the retry was spent.

| Model | Code |
|---|---|
| `Comprar`, `Vender`, `LlegarCuentas` | `prepare` up to the four accounts read in one call |
| `QueFalta`, `Seguir`, `LlegarDato` | `_global_account`, `_discover_token_extra_account`, `_recent_blockhash`: from memory, or awaited and stamped with the instant before the call (`Sello`) |
| `ConDatos`, `LlegarSaldo` | the amounts of a purchase, and of a sale once the balance is read; both with their refusals |
| `Aceptar`, `Rechazar` | `_simulate`, and the choice between the retry and the next composition |
| `LlegarCurva`, `LlegarResaldo`, `FallarRelectura`, `RechazarReintento` | the one retry: `curva_fresca`, the balance again, and the second simulation |
| `Calentar` | `warm` |
| `Terminar` | the RPC fails or what it needs is not there; the answer is taken |
| `MoverCurva`, `Completar`, `MoverSaldo`, `Desalojar`, `PasarTiempo` | chain, other tokens in the cache, clock (environment) |

The integer quotes are those of `pumpfun/trade.py`, in full: `Neto`, `TokensPor`, `LamportsPor`,
`Tope`, `Suelo`. What the program on chain answers (`Respuestas`, `Cobro`) is external: a purchase is
charged its price and its fee and refused above its cap, a sale is refused above
the balance. A percentage of a balance is exact here, and goes through a float in the code
(trade.py:607), which may leave one unit unsold.

`Operar` puts `Firmante` and `TradePrepare` side by side: two processes that share no state, with the browser in
between, which may send the signer anything.

### Decision: Simulador, Backtest, Series, Riesgo, Ordenes, UnaVez, Analisis

Five components that share no state and do not call one another; `Decision` puts them side by side in
one instance, where the variable `maquina` says which of them moves, so that its behaviours are
the union of theirs. Each has a specification of its own (`SpecSimulador`, ...), which is what is proved about.

| Module | Models | How |
|---|---|---|
| `Curva` | `pumpfun/curve.py` | the reserves, the two quotes and the curve a trade leaves, in integers, truncated where the code truncates |
| `Simulador` | `simulation/engine.py`, `fills.py`, `latency.py` | one event at a time: wait, buy or sell (`Esperar`, `Comprar`, `Vender`), with every fate of an order (an old quote, a drift, somebody ahead, a failure on chain) chosen at every order; fees are paid by failed orders too |
| `Backtest` | `simulation/metrics.py` | `compute_metrics` and `evaluate_candidate` over the closed trades of the simulation |
| `Series` | `features/windows.py`, `ml/labeling.py`, `ml/training.py`, `simulation/trailing.py`, `walkforward.py` | a series of prices that grows by one (`Llega`), and everything read from it as operators |
| `Riesgo` | `risk/engine.py`, `stops.py`, `types.py` | an account that takes the size `size_position` offers (`Abrir`) and applies the stop `evaluate_stops` answers at each tick (`Tick`), through one day |
| `Ordenes` | `execution/orders.py`, `signing.py`, `settings.py` | the ledger (`reserve`, `mark`); caller, chain and notifications are external: a transaction lands or fails when it likes, what the caller hears of it is true but late, repeated or never (`Avisar`), and it may give up waiting (`Vencer`) |
| `UnaVez` | what `orders.py:56` promises | the abstract specification: each decision is carried out at most once |
| `Manipulacion`, `Veredicto` | `strategies`, `features/concentration.py` | detectors, eligibility, scores with penalties, signal, as operators |
| `Analisis` | worker `analysis.py`, `enrichment.py` | the queue (`submit`, `Coger`), the four reads, each refused or not (`LeerHolders`, `LeerSupply`, `LeerTrades`, `LeerCreador`), the verdict (`Juzgar`, `Fallar`) |

`Numeros` holds Python's min, max and int(). In `Analisis` what the chain says of a token is fixed
(`Verdades`) and what the RPC lets through is chosen. In `Riesgo` returns are per cent and amounts units of equity.

### Consulta: Fuentes, Pronostico, Rpc, Vista

The same arrangement for the parts that ask and show.

| Module | Models | How |
|---|---|---|
| `Fuentes` | `ps/sources.py` and its callers `analyze.py`, `scan.py`, `radar.py`, `live.py`, `serve.py` | a thread per request, at a source (`etapa`) and a moment of asking it (`sub`); `Medir` reads the shared moment of the last call, `Enviar1` writes it after the sleep, with nothing between them held; `Contesta`, `Falla1`, `Reintentar`; `Pagina` reads a creator's history; `Recoge` takes the shared list of failures. The ghost `propios` has every source that failed the thread for good, written down or swallowed |
| `Rasgos`, `Modelo`, `Niveles`, `Pronostico` | `ps/features.py`, `model.py`, `levels.py`, `setup.py` and the rest of `analyze.py` | a forecast from its measures to the conditions of entry (`Medir1`, `Predecir`, `Concluir`), each source there or missing |
| `Rpc` | `solana/rpc.py` | tasks that queue for the lock, wait for the gap, ask, and back off without it |
| `Vista` | API `candles.py`, `livesignals.py`, `potential.py`, and `token_live`, `token_simulate`, `_recommendation` of `main.py` | the tracker (`Notificar`, `Rehusar`, `Soltar`, `Terminar`), the page (`Abrir`, `Apartar`) and the request at each of its awaits (`Pedir`, `Servir`, `Grado`, `Cuenta`) |

Prices of the analyser are logarithms in thousandths, so that a return is a difference; standard
deviations and the Hurst exponent are given as measured. Time is relative: an age saturates at
the largest one the code compares it with.

### Proof modules

`SignerProofs` is about what is signed and how it was prepared (`Firmante`, with the `Signer` and the `Llavero` it
composes, and `TradePrepare`), `MultiLogStreamProofs` about the stream of logs and the live view that reads one
(`MultiLogStream`, `Vista`). `AutoStopProofs`, `IngestaProofs` and
`RadarProofs` extend the module they are named after. `DecisionProofs` is about what
risks money and how it is judged: `Ordenes`, `Riesgo`, `Simulador`, `Backtest` and `Series`. `ConsultaProofs` is about what
asks somebody else, and the forecast and the verdict made of the answers: `Rpc`, `Fuentes`, `CacheCurvas`,
`Pronostico` and `Analisis`. `PlieguesProofs` has the lemmas these share: sums over finite sets,
their largest and smallest members, and the sizes of their parts.

## The runs

| Run | Expected | Shows |
|---|---|---|
| `orden_ok` | pass | What is signed and what is offered to be signed. With death at every step, restarts and midnight: the day's orders stay under the cap (`TopeDiario`) because the file always covers what was signed (`DiscoCubre`); SOL leaves for the wallet registered first (`SaleSoloALaFijada`); the wallet whose address was shown is the one on disk (`LaMostradaSigueAhi`). The first two need a reliable counter file, and say so; the others hold whatever fails. After a balance or a price read again, the floor is the one of what is sold (`SueloDeLoVendido`) and a purchase costs what the user wrote (`GastoEsElImporte`) |
| `signer_corte` | violation | `RetiradaUnaVez`: a death inside a second registration of the same wallet leaves the file empty, and any wallet is then accepted |
| `auto_ok` | pass | A closed position is never touched again (`CerradaNoCambia`); the trailing rule goes ahead of the stop (`TrailingSubsume`); a position that stays sellable, in the chain, for `prepare` and for the signer, is sold (`StopActua`). A stop that `prepare` refuses in every round stays due for ever: nothing in the code ends that, and the property does not claim otherwise |
| `auto_cancelar` | violation | `CanceladaNoVende`: a round that took its copy before `/cancelar` sells afterwards |
| `stream_ok` | pass | Right attribution (`Atribucion`), no served subscription lost sight of (`SinHuerfanas`), what stays watched is subscribed or was rejected (`SeguidaAcabaActiva`) |
| `ingesta_ok` | pass | No creation vanishes uncounted (`NadaSeEsfuma`), no event is delivered twice while remembered (`EntregaUnaVez`), no token is announced twice (`PublicadaUnaVez`) |
| `radar_ok` | pass | The counters are the recount of the peaks (`ConteoHonesto`), both memories of a peak agree while a stampede needs it (`PicosConcuerdan`), a multiple of the ceiling below 1 comes only from a base nobody read, the cap at birth (`TechoSobreBase`), no bad reading graduates (`GraduadoReal`), what is followed is the end of the queue (`SeguidosSonLosUltimos`) |
| `curvas_ok` | pass | No token is shown as graduated before its curve completes (`GraduadoCierto`), and one that graduated stops being shown as open, in spite of the reads that were on their way, of the failed ones and of what the caches evict (`AcabaSabiendose`) |
| `decision_ok` | pass | The simulator's books balance after every event (`LibroCuadra`), the cash lacks at most the fees of orders (`SinApalancamiento`), buying and selling back gains at most its rounding (`IdaYVueltaAcotada`), the metrics agree with the trades and with each other (`MetricasCoherentes`); what is computed about a moment does not change with what arrives later, and the windows keep apart (`NadaMiraAdelante`); the day's loss is bounded whatever prices jump (`PerdidaDelDiaAcotada`) and no position outlives its stops (`NoSeQuedaAbierta`); a decision lands once (`UnaPorDecision`, a refinement of `UnaVez`); what is queued is judged (`TodoEncoladoAcaba`) and no judgement made of what could be read opens anything (`AnalisisNoAbre`) |
| `analisis_censo` | violation | `SinCensoSinNota`: a census of holders that the RPC refused gets the best score of distribution |
| `consulta_ok` | pass | Each thread's requests to GeckoTerminal are a gap apart though the moment they share is raced for (`RitmoPorHilo`), every request ends (`ConsultaAcaba`) and an undisturbed report names no failure of another request and all of its own that the code writes down (`InformeFiel`); what is missing has no opinion, liquidity excepted (`LoQueFaltaNoOpina`), and the bands of a forecast are in order (`EscenariosEnOrden`), though a reported target may be a level nearer than its band, inside the range even (levels.py:124-146); calls to the node keep their gap across retries (`Espaciadas`); a token that is looked at ends up followed, by a task that the provider may still reject every time (`SeVuelveAVigilar`), and its answer holds together (`RespuestaFiel`): of COMPRA it says that the account, where it can be read and is not complete, is not nearly sold, and nothing where the curve is a guess |
| `consulta_informe` | violation | `InformeCompleto`: a failure that the code swallows (the words in fashion, the price of SOL, a page of a creator) is in no report |

Every property of a passing run is paired in `PROJECT.json` with a mutant of the
definition it guards, under which TLC finds the property violated.

## Bounds

| Run | Instance | Why it is enough |
|---|---|---|
| orden, signer_corte | signer: two wallets, caps of one per order and two per day, two days (one where midnight does not matter), every shape of transaction the policy tells apart; preparation: one order and one warming at a time, two prices more than a slippage apart, one amount, half and all of a balance of 0, 20 or 60 tokens, times to live of one | the day fills and overflows, midnight and a clock set back fall at every step, and a second wallet tries to replace the first; a purchase is refused for its price and accepted or refused again at the new one; a balance shrinks to something, to nothing and to what does not pay its fee; one request fills a cache while the other awaits the same datum |
| auto | one token, two prices a fall of exactly 50% apart, two objects (one in `auto_cancelar`), one sale in flight, a failure that warns | the threshold is met exactly, and the loop can hold the object of the first watch while the second is in the dictionary. Objects of different tokens share the loop, the signer's cap and nothing else |
| stream | two keys, three ids, three requests, one break, two notifications travelling | an id is given to one key before the break and to the other after it, and an answer crosses an unwatch. `MaxPeticiones` stops the caller only: what was asked is still subscribed again |
| ingesta | two engines, three events of which two create tokens of one creator, memories of two and one, queue of two, analysis of one, three connections, one restart | the third event always takes the place of another in every memory, one engine repeats what the other brought, and one connection is opened again |
| radar | three tokens, memories of one or two places, bursts of two trades, readings of 1 (below the cap at birth, 2), 3 and 4, seven notifications, one trade of PumpSwap, one restart | every eviction and every pruning happens, caps are read on both sides of the one at birth, a token comes back after it was forgotten, and a graduation has to wait for its place |
| curvas | two tokens of which one may complete, two requests, caches of one place, time to live of one (curve) and two (graduation), ages up to two | each token evicts the other, a read sent before the completion arrives after it and after another request's, and an entry expires in one cache and not in the other |
| decision | simulator: three curves (its start, half-way, one token from its end), three sizes of order, capital for one or two, four events of which a position may hold two. Series: four prices of four levels one or three apart. Ledger: two decisions, two retries. Risk: three positions a day, one at a time, jumps past the stop to -45%, two entries of which different limits bind. Analysis: three tokens, queue of one | a purchase, a failed sale, a sale and another order fit in four events, and the fees exceed the cash; a label resolves inside, at the edge of and outside the next window; a mark of the first attempt arrives during the second; the day's budget shrinks twice; the queue overflows while an enrichment fails |
| consulta | two threads, in two pairs of requests (newborns beside a stream, an analysis beside a search), a gap and two attempts, two pages of a history; three tasks of the RPC client with three attempts; one token of five notifications, of which one fails, one cannot be decoded and two have no signature, in a memory of six operations and two signatures; thirty-odd measures of a token with each source there or missing, two horizons | both threads read the shared moment before either writes it; back-offs of three tasks end together; the tracker closes while the page comes back; a request is suspended while the memory loses what it counted |

The largest instance has 2.7 million states (`orden_ok`), the longest takes a little over three minutes (`consulta_ok`).

`UltimoDia`, `MaxGastado`, `MaxAltas`, `MaxEnVuelo`, `MaxPeticiones`, `MaxCaidas`,
`MaxCola`, `UltimoEvento`, `MaxConexiones`, `MaxArranques`, `MaxAvisos`, `MaxSwap`,
`Graduables`, `MaxEdad`, `MaxCreadas`, `MaxEventos`, `MaxSerie`, `MaxAbiertas` are bounds of the models; the other numeric constants are constants of the code, scaled down.
Symmetry is used over wallets, engines and tokens, in runs without liveness only.
In `Consulta` the windows in which a return is resampled (`MIN_RETS` is 3 for the code's 30, `DRAWS` 3)
are as small as keeps every branch.
Deadlock is checked for the signer, the preparation of orders and the automatic stop, which never stop;
the others stop where their bounds end, or where the code waits for ever
(an iterator in `recv` with nothing watched, a worker whose engines were all rejected).

## Fairness

- **AutoStop** (`StopActua`). Weak fairness of each await of the loop: asyncio
  always resumes a coroutine that can go on, and the loop is restarted by its
  own `while True`. Strong fairness of a reading that fires, of the preparation and of
  the sending: the RPC does not fail every time it is asked. That is all it stands for: a preparation
  that the code refuses whatever the RPC does is not enabled (`SePuedeVender`, `admitida`). Weak fairness
  of the chain, which decides every transaction. Nothing is assumed of the
  user, the market, the signer or what `prepare` finds: `StopActua` says that a position does not
  stay sellable for ever, and `Vendible` includes that `prepare` would offer the sale, that the signer answers and that
  its caps allow it.
- **MultiLogStream** (`SeguidaAcabaActiva`). Weak fairness of the iterator,
  which includes a connection that succeeds some time, and of the provider's answers.
  Nothing of the caller or of the network, whose breaks are bounded.

- **CacheCurvas** (`AcabaSabiendose`). Weak fairness of the end of every read (the client
  has a time-out) and of the clock. Strong fairness, for a token that graduates, of being asked
  about (the panel asks several times a second) and of the node looking and its answer arriving:
  its reads do not all fail.

- **Analisis** (`TodoEncoladoAcaba`). Weak fairness of the consumer, the only task of its
  own; its reads may all fail. Nothing of who submits.
- **Fuentes** (`ConsultaAcaba`). Weak fairness of every thread, which the system schedules, and of the
  clock: every request has a bounded number of attempts, each with urllib's time limit. That
  limit is per operation of the socket, so a source that trickles for ever is beyond the model. Nothing of the
  browser, nor of the sources, which may fail for ever; streams last while the browser wants and are excepted.
- **Vista** (`SeVuelveAVigilar`). Weak fairness of the page's query, which it repeats every 800 ms
  while it is open, of the tasks of the event loop and of the clock. The provider may reject every subscription.

In `Decision` and `Consulta` each of these is stated of the component's action while it is the one that moves.
The other modules state safety only and no fairness.

## What is proved

Each theorem holds for every value of the constants that meets the named
assumptions of its module (sets are disjoint, capacities are positive naturals,
thresholds are ordered as in the code), without the bounds of the runs mattering.

- **`SignerProofs`**: `TypeOK`, `TopeDiario`, `DiscoCubre`, `TopePorOrden`,
  `SaleSoloALaFijada`. The daily cap is not inductive: between two steps
  of a request the counter, the file and what was signed differ. `CuentaInv` says
  that while the counter is reliable, the counter of a live process and the file
  each *cover* what was signed (their day is not in the future, nothing is
  signed for a later day, and they hold at least what was signed on
  theirs), with one more amount between the counting and the signature. Then a restart,
  which reads the file, and midnight, which starts a day with nothing signed, preserve it.
  `OrdenInv` bounds the amount of the request being served and `RetiradaInv`
  ties file, first wallet and the destinations being served.
  Then the composition: `Firmante_Signer` proves that the service with its key store implements the service
  alone, so all of the above holds of it, and `Firmante_LaMostradaSigueAhi` that no start replaces the wallet
  whose address was shown. Its invariant (`LlaveroInv`) numbers the keys: the one on disk is the
  last one made, and what closed it is still there to open it.

  The preparation of orders, both its invariants in `orden_ok` and three more. First the arithmetic, for every curve, amount and
  fee: `NetoLema` and `TokensLema` bound a truncated quotient, and `CobroLema` follows them to
  the charge, at most one lamport above what the user wrote. Then `Recta`, what a
  request may be at each of its steps: it announces what it holds, its limit is the one of its
  amounts, and it was simulated no more than its compositions and its retry allow. `CacheInv`
  says that a stamp is never younger than its datum, which makes
  `MemoriaFresca` independent of how long an answer took.
- **`AutoStopProofs`**: `TypeOK`, which relates dictionary, round and objects,
  and `TrailingSubsume`, from `PicoInv` (a peak is never below the entry) and the
  monotonicity of the fall in percent (`CaePctLema`). `CerradaNoCambia`, an action property, from `EnVentaAbierta`:
  from the reading that fires a stop to the answer of the sale the object in turn is open. With it
  a step either appends an object or rewrites the open one in turn (`EscrituraPermitida`), whatever became
  of the dictionary meanwhile.
- **`MultiLogStreamProofs`**: `TypeOK`, `Atribucion` and `SinHuerfanas`. An entry of the table is right
  because its confirmation was, and that because the request was:
  `MensajesInv` carries the fact along the messages both ways, and `RedInv`
  says that nothing travels on a connection that is gone. Together they are `IInv`. That no subscription is
  lost sight of needs that an answer always finds its request: `PendientesInv` says that the ids on the way,
  as requests or as answers, are all waited for, and each on its way once.

  `Vista_RespuestaFiel`, from `VistaInv`: the candles a request drew before its awaits count no more operations
  than are held now, because what arrives is appended and a list is cut only to its limit
  (`FinalLema`, `IngestaLema`). The candles are disjoint parts of the operations (`ParteLema`,
  `VelasLema`), so what they count together is no more than the operations there are. The wallet with most
  volume exists and is one of those that say who they are (`BallenaLema`). An account that is read and not complete is
  the curve that `_recommendation` judges, whatever the operations seen say (`CuentaLema`).
- **`IngestaProofs`**: `TypeOK`, `NadaSeEsfuma`, `EntregaUnaVez`,
  `PublicadaUnaVez`. `MemoriaInv`: what either memory holds went through.
  `VistasInv`: the race's memory is the end of what was delivered, without
  repetition. `AnuncioInv`: what was announced is in the database.
- **`RadarProofs`**: `TypeOK`, `ConteoHonesto`, `SeguidosSonLosUltimos`,
  `GraduadoReal`, `TechoSobreBase`, `PicosConcuerdan`. `RecuentoInv` adds to the counters that the sets of
  those that arrived, exploded and grew big are the ones whose peak says so. `ColaInv`: the
  queue of graduations holds each token once, all of them graduated, the one that awaits
  its place among them. `GraduaInv`: only tokens seen born trade, a token has no
  trades on its curve after the one that graduates it, and the one that awaits is about to be
  observed with the cap that graduated it. `TechoInv`: no current cap is above the peak beside it,
  and no base is above both but the one at birth. Nothing is assumed of the caps that are read: the worker notes readings far
  below the one at birth (ingest.py:188-195). For the two memories of a peak, `OlvidoInv`:
  the tracked tokens and the last caps are two queues of the same length where a token that trades goes to the end of
  both, so the caps are in the order of the tracked, and (a pigeonhole argument over the places) the radar forgets
  the cap of a token only after it stopped tracking it, and no peak of a tracked token is pruned. A token
  without a peak showed the tracker of outcomes nothing above its birth, and one that the tracker of outcomes
  does not know met it full.
- **`DecisionProofs`**. `Ordenes_UnaPorDecision`: the ledger implements `UnaVez`, by step simulation under the mapping
  that reads the transactions that landed. A mark may overwrite anything, so the proof does not rest on
  the state of the ledger but on its attempts (`LibroInv`): a second attempt exists only after the first failed
  or was never sent, and no third one ever does. It needs `MAX_RETRIES` to be at most the 2 that ships: with one
  more, a late failure of the first attempt would let a third start beside the second.
  `Riesgo_PerdidaDelDiaAcotada`, from `DiaInv`: what the day has lost and what the open position may
  still lose down to its stop are together within the limit. Opening preserves it only because
  `can_open` refuses once the limit of the day is reached and the size comes from the stop (`TamanoLema` and
  its neighbours follow the chain of reductions); a partial exit, because the part sold and the rest
  round to no more than one unit. `Riesgo_NoSeQuedaAbierta`, from `PuestoInv`: the stops that let a position live past its
  term fire once each. Both rest on `LimitesAssumption`: one trade risks no more than a day may lose, and
  the term is positive, as the defaults do (types.py:49-51, stops.py:26); the code itself validates neither.
  `Simulador_LibroCuadra` and `Simulador_SinApalancamiento`, inductive together with what an absent position is
  (`SimuladorInv`), for any curve, drift, competition and fees; `Simulador_IdaYVueltaAcotada` is arithmetic of
  the curve alone (`VueltaLema`): two truncated quotients of the constant product gain at most a unit of
  tokens and a lamport.

  `Backtest_MetricasCoherentes`, for a history of any length. `NetoInv` says that the net result the run accumulates is
  the sum over the trades it has closed; the positive terms of a sum less its negative ones are the
  sum. The counter of losses goes back to the last trade that did not lose, so its peak is
  the longest run. The percentile is one of the values and bounds the mean of what lies under it. A sum that
  stays positive without its best terms stays positive without any one of them.
  `Serie_NadaMiraAdelante`: times grow strictly in what may arrive (`EsSerie`), so a new
  price is later than every cut, and what is visible at a cut keeps its places; a resolved label and a
  closed stop keep theirs; two tranches of a walk forward are a purge apart; and a stop that gives more
  room never closes earlier.
- **`ConsultaProofs`**. `Rpc_Espaciadas`, from
  `RpcInv`: between the throttle and the answer the lock is held, and who sleeps wakes up a gap after the
  last request. `Fuentes_RitmoPorHilo`: the shared moment is never older than the thread's own last request
  (`RitmoInv`), so whoever read it, before or after others wrote it, sleeps enough for itself.
  `Fuentes_InformeFiel`: while nobody else touches the list, it is what failed the thread among the sources
  whose failures are written down, whatever failures it swallowed (`ListaInv`).
  `Curvas_GraduadoCierto`: every "complete" the program holds, in a cache or in a suspended request (`CachesFieles`,
  `TareasFieles`), is of a curve that completed; a curve stays complete, so no order of arrivals can
  make one false. The `TypeOK` of the three.

  Then the forecast, for whatever the sources answered, of the types in `EsMedida` (a count
  or a volume is a natural, any of it may be missing). `PronosticoInv` says what the report holds at each
  step. `Pronostico_LoQueFaltaNoOpina`: a signal is 0 when its source said nothing (`SenalesLema`; the liquidity is left out of it,
  for `liquidez_fina` and `dev_vendiendo` take its lack for very little, model.py:121, 128), each stays under
  its cap (`AportesLema`), and the caps together keep every exponential in its range, so the
  probabilities are defined whatever is missing (`PredecirLema`). `Pronostico_EscenariosEnOrden`: the draws
  are sorted, a quantile grows with its level (`QuantileCrece`), and the median of
  the worst or of the best draws is on its side of the quantile that cut them (`CabezaLema`, `ColaMedianaLema`), so the
  bands come out in order for any resampling of any history.

  And the verdict. `Analisis_NoAbre`, from `AnalisisInv` (what has been read, whichever parts were refused, is of
  finitely many holders and trades): the penalties of the manipulation report and the shares of
  the holders are never negative (`InformeLema`, `ConcentracionLema`), so what can be measured from the
  chain adds up to at most 3335 of 10000 (`PonderadoLema`, `NotaLema`), and the lowest threshold that advises
  anything is 4000 (`SenalLema`). It assumes of the chain only `EsVerdad`: finitely many holders of
  natural balances, finitely many trades in a transaction.
- **`PlieguesProofs`**. The sums under these are folds over finite sets and functions, defined by choosing a recursive function,
  which says nothing until one is shown to exist. `Inducir` and `InducirPartes` state induction over naturals and over the
  subsets of a finite set for *sets* of values in place of predicates; they come from the library's
  well-foundedness of the naturals, and give the recursion its witness (`PliegueLema`, `SumaLema`).

Only model-checked: the six liveness properties (liveness under fairness is out
of the prover's reach, as ENABLED is), and the violations. `SelectSeq` and `SortSeq`, which the prover keeps
closed, are left where no proof has to open them (`Senales1`, `detect_pre_bounce`). The library's induction
theorems that take an operator as a parameter cannot be used; facts by induction over data are proved where
the hypothesis can be put as a set, as above. No module uses RECURSIVE operators.

## What the runs found

Four places where the code does other than what its docs, comments or tests say,
each shown by a run of its own, quoted in `PROJECT.json` under `findings`:

1. registering the wallet is not atomic: a crash reopens it (`signer_corte`);
2. `/cancelar` does not stop a round already under way (`auto_cancelar`);
3. a census of holders that could not be read is scored as the best distribution there is (`analisis_censo`);
4. the list of what did not answer, kept so that a report may say what is missing, lacks the failures that are swallowed (`consulta_informe`).

Met while modelling, with no run of their own:

- signer: a withdrawal is counted against the daily cap it is exempt from (servicio.py:169); an empty password file makes every
  later start fail, and a key made with a password in the environment does not open without it (cartera.py:48-86);
- log subscriptions: an unwatch before the confirmation leaves a subscription nobody cancels (multi_log_stream.py:163,
  against its line 113);
- detection: saving a creation again counts it again for its creator (repository.py:26, against its line 6);
- radar: the peak written for a winner is its growth when first noticed (ingest.py:1337), and is read later as its
  peak (ingest.py:421);
- order preparation: after the balance is read again the sale is not checked again to pay for its fee (trade.py:626,
  712-736), which the first check exists to prevent; no property covers it;
- automatic stop: a sale that `prepare` refuses whatever the RPC does is tried again in every round without end or other notice
  than its log (auto.py:239);
- live view: a rejected subscription makes the tracker's task end with an error, and the next query starts
  another (candles.py:233), though logs_stream.py says it is not retried for ever; closing the trackers awaits
  each, so that error would leave the rest uncancelled (candles.py:211); without the account, the curve is
  rebuilt with real reserves of half the virtual ones, so a new token reads as a third sold and
  none as nearly sold;
- analyser: the gap between requests to GeckoTerminal holds of each thread and not of all together
  (sources.py:49); what a stream failed to read stays in the list for the next report (sources.py:35);
  a history of a creator of which a page failed is remembered as whole (radar.py:117); the liquidity that is
  missing counts as the least there is (model.py:128, against its lines 11 and 102), and costs nothing in the set-up; above a probability of fall of 48% the
  cut of the range and the probability are not the partition that analyze.py:212 says;
- simulator: the fees of failed attempts to leave are in no trade (fills.py), though a trade is said to carry its
  whole cost; an order that fits the cash leaves it negative by its fees (engine.py:238);
- execution: the activation list has sixteen conditions where its docstring says fifteen (settings.py:78);
- models: the version deployed is the highest number approved, not the last one approved (registry.py).

## What is not modelled

- Within the modelled components: the text of alerts and logs, the periodic pruning of series,
  exact times (a time-out, a throttle or a TTL is a choice at each step), the
  series of a symbol and the deep analysis in the worker's radar. The messages the radar publishes
  matter only through the state they show.
- Components with status `not_modelled` are declarations (shared types, migrations), drawing (the panels), and the
  shell that starts and kills processes, whose deaths are in the models of those processes.
- Components with status `partly` say in `PROJECT.json` what is missing. It is mostly arithmetic over one
  snapshot with nothing to interleave: byte decoding checked against recorded transactions, floating-point
  statistics (volatilities, Hurst, Sharpe, drift, projections), the texts of reports, the shape of instructions. Left
  out though they have states: the registry of models and the states of narratives, which no process calls, and
  `whale.py`.
- The ledger of orders and the positions of the automatic stop live in memory; what a restart of theirs forgets is
  in `AutoStop` (`Reiniciar`) and not in `Ordenes`, whose caller does not exist yet.
- Cryptography, Solana and PostgreSQL are environment: a signature is the event of
  signing, a transaction lands or not, a transaction of the database happens whole or not at all.

## The plan

What is left, in order of importance:

1. Compositions: `AutoStop` over `Signer` in place of its own abstraction of the caps; the
   radar's follower of graduated tokens over `MultiLogStream`.
2. `Panel`, the stop of the manual panel with a price that no longer arrives (index.html:1130), and `Laboratorio`,
   the promotion of models.

`PROJECT.json` lists the hazards that matter most. Others:

- order preparation: what is offered may wait for its signature longer than its blockhash lives, which only
  the panel's countdown covers (trade.py:755);
- automatic stop: positions live in memory and a restart forgets them (auto.py:126); the entry
  price is read before the balance is awaited (auto.py:358); a sending that times out after the RPC took
  it (auto.py:245);
- signer: a withdrawal uses up the day's cap (servicio.py:169);
- worker: engines deliver trades of one token out of order (ingest.py:1359); a failed follower
  of PumpSwap ends the service as if it had been stopped (ingest.py:1424); the throttle may drop the
  trade that completes a curve (ingest.py:835); the memory of stampedes only grows, and dead ones hide live
  ones from the photo (ingest.py:1250); the creator's counter is not idempotent (repository.py:93);
- live view: when the memory of signatures is full, any two thousand are kept (candles.py:321);
  a first visit is forgotten in order of arrival (main.py:382);
- caches: a late answer that says open overwrites a confirmed graduation (trade.py:834);
- execution: a ledger that a restart empties (orders.py:58);
- curve: the progress stays at 0 until 73 of the 793 million tokens are sold (curve.py:152);
- desktop: the free port may be taken (main.js:111), the death of the signer goes unnoticed (main.js:139);
- scripts: the corpus is rewritten in place (mine_corpus.py:63).

## How to run it

    tlc -workers 2 -config MCOperar_ok.cfg MCOperar
    tlapm SignerProofs.tla

Each `MCx.tla` extends the module `x` with the values its `.cfg` files name;
`MCOperar`, `MCDecision` and `MCConsulta` hold the instances of several components each;
`PROJECT.json` maps every definition to the lines of source it stands for.
