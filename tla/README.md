# Verification of the DALI gateway

The gateway is an ESP32 firmware that lets HTTP and MQTT clients drive a DALI
lighting bus. This directory holds TLA+ models of it, the TLC configurations that
check them, and TLAPS proofs. Every definition is translated from the C source;
`PROJECT.json` maps it to its lines. Paths below are relative to the repository, and
file names without a path are those of `components/*/src` and `main`.

## 1. Inventory

| Component | State it keeps | Operations | Talks to |
|---|---|---|---|
| `dali_bus` (dali_bus.c) | queue of 16 commands, one running long operation, cancel flag, poll deadline, `powered`, replies (reference counted) | init, submit, submit_sync, cancel, listen_set, get_status, get_gears | adapters call it; posts results and gear changes on the event loop |
| `dali_bus` operations (dali_ops.c) | registry of 64 gears, cursor and substep of the running operation | short commands; scan, poll_all, identify, one frame per step | bus frames; registry read by adapters under a lock |
| `dali_bus` commissioning (dali_commission.c) | state machine of 15 states, bisection bounds, cached search bytes | begin, step, cancel | bus frames, marks the registry |
| `dali_bus` configure (dali_configure.c) | job list with one status per job | begin, step, finish | DTR0 of the gears |
| `dali_bus` names (dali_names.c) | gear names, in registry and configuration | set, get, carried by set_short_address | app_config |
| `dali` (vendored driver) | RMT channels, listen task, receive ownership | transaction, listen start and stop, bus idle | hardware; gives reply, none, collision or error |
| `gw_api` | none | JSON to command, result to JSON, configuration to and from a document | both adapters |
| `gw_events` | the default event loop's bounded queue | post without waiting; a full loop drops | everyone |
| `http_iface` | session token, three stream slots | routes, upload, broadcast, heartbeat | dali_bus, app_config |
| `mqtt_iface` | work queue of 16, client, masks of what discovery sent, rate limits, reassembly buffer | connect, publish, submit, rename, configure, reboot | dali_bus, event loop, broker |
| `net_wifi` | state, three deadlines, back-off, event queue of 8, DNS responder | connect, retry, fallback access point, mDNS | Wi-Fi driver, event loop |
| `app_config` | the configuration in RAM and in NVS | get, clone, merge, validate, set, label, factory reset | everyone |
| `status_led` | what it knows of network, bus and upload | show the most urgent | event loop |
| `main` | image guard, factory reset button | start, confirm an image, reset | everyone |
| `webui`, `web/` | browser state | REST and SSE client | http_iface |

Interaction: adapter tasks (HTTP server, MQTT worker) turn JSON into a command and
put it on the queue of the bus task, which alone drives the bus. Synchronous callers
wait on a reply with a time-out; everyone else learns of outcomes from the event loop.
A long operation runs one step at a time, and between two steps the bus task drains
the queue, so **short commands interleave with every long operation at frame
granularity**. The configuration is shared memory without a lock, written by the HTTP
task, the MQTT worker and the button. Everything the adapters learn passes bounded
queues that drop.

Hard behaviours: time-outs racing answers; a cancel with two paths (queue and flag); a
full queue at each of its uses; commands between two steps of an operation that change
what the operation remembers; lost frames and replies and colliding replies; gears
losing mains; deadlines racing driver events that are read late; events of an MQTT
client that is being stopped; restarts that leave retained documents behind; two
writers of one configuration; power cuts between the steps of a write; socket numbers
that are reused. `PROJECT.json` lists each under `hazards` at its line.

What makes each part correct:
- queue and task: a reply is freed by its last holder; every command is settled once;
  no command overtakes; a cancel stops what runs, soon; callers return; polls run.
- registry: a finished scan tells the truth; addresses stay distinct; levels shown
  become the gears'; identify leaves no trace; operations end.
- commissioning: isolates one gear at a time; gives no address twice; success means
  everyone is addressed; always leaves the bus usable; ends.
- configure and deep scan: what is reported as written is written; what is reported as
  identity was read.
- network: there is always a way in; no driver event is lost; what is shown is what
  the station is; the recovery access point is not taken from its user; a network that
  stays is joined.
- MQTT: what the broker retains is the registry; no discovery document is forgotten;
  a reboot drops no entity; a changed configuration is adopted; the worker comes to rest.
- configuration: what a reply acknowledged runs and is booted with; a restart is asked
  for whenever one is needed; a power cut leaves the old or the new.
- HTTP and what the event loop feeds: a stream with a gap ends; the LED tells the truth;
  a new image does not stay pending.

## 2. Modules

| Module | Models | State and actions against the code |
|---|---|---|
| `CommandService` | what the bus promises adapters, without queue or replies | abstract: each request new, refused, pending, running, settled; at most one running |
| `DaliBus` | dali_bus.c | `queue` is s_queue, `refs`/`done`/`res` a bus_reply_t, `op*` the part of s_ctx.op the task uses, `flag` s_cancel_requested, `timer` s_next_poll_us. `pc` is the place in bus_task; the three statements of deliver are three actions, because a caller may wake or time out between any two. Caller actions are the three entry points, cut where other tasks see the difference |
| `DaliBusClaims` | one statement of dali_bus.h that the code does not keep | |
| `Commission` | dali_commission.c | one action per state of comm_state_t; the bytes of the search address are digits of base `Radix` |
| `Registry` | the registry and dali_ops.c | one action per scan, poll and blink substep, one per short command; `present`, `cache`, `dali2` are the fields the operations read back |
| `DtrOps` | dali_configure.c and the deep part of the scan | `left` is what remains of cfg->jobs from the cursor on; load, store and read back are separate steps; short commands that load a register come in between, and one operation follows another on what the last one left in the registers |
| `NetWifi` | net_wifi.c and dns_hijack.c | `pc` is the place in net_task and start_radio; a deadline is off, armed or due; one action per driver event, posted and handled apart |
| `MqttIface` | mqtt_iface.c against broker, client library and registry | one action per kind of work; client_stop and mqtt_iface_restart are cut where the client's task or the other writer comes in; `haMask` is s_ha_gears and s_ha_groups, `docs`, `states`, `list`, `status` what is retained |
| `Settings` | app_config.c, app_config_logic.c, and the writers in http_routes.c, mqtt_iface.c, factory_button.c | a write is clone, merge, save, adopt (in two halves, for it is a structure assignment) and reply; a rename changes RAM, then flash, then takes back or replies |
| `HttpServer` | http_sse.c, the upload, gw_events.c, status_led.c, ota_validate.c | the server's one task, the event loop with one delivery per action, and the bootloader's slots |
| `*Proofs` | theorems about the module they extend (section 4) | |
| `MC*` | instances for TLC | symmetry of requests and gears, where it is sound |

`DaliBus` and `CommandService` are the pair of detailed and abstract specification:
`bus_progress` checks that each step of the first is a step or a stutter of the second,
and that the second's liveness follows. `MqttIface` and `HttpServer` share the event
loop's rule (post or drop, deliver one at a time), each with the kinds of event its part
reads; `MqttIface` takes a save of the configuration as one step, whose inside is
`Settings`.

External parts, marked so in the map: the gears and the wire; the Wi-Fi driver and the
network in range; broker and MQTT client library; sockets and bootloader. Each is what
the code in these components takes it to be.

What is abstracted: in `DaliBus` what a command does on the wire (one action for a short
command, a bounded number of steps for a long one); in `Commission`, `Registry` and
`DtrOps` the queue (a short command or a cancel may come between any two steps, which
is what the queue allows). A commissioning is alone on the bus, because
serve_between_steps rejects everything else. In `Settings`, `lock` and `key` stand for
the settings that need a restart and for secrets, `name` for the rest. In `MqttIface`, a
level is one bit and a group is a light that never answers; what is published once and
not retained is left out. Texts, durations, progress events and JSON are left out.

## 3. Runs

| Run | Question | Instance |
|---|---|---|
| `bus_safety` | are replies, results, order and cancels right in every interleaving? | 3 calls of 5 kinds, queue 2, boot scan, 2 steps |
| `bus_progress` | does everyone get done, do polls run, does the task refine `CommandService`? | 2 calls of 3 kinds, queue 1, poll timer, boot scan |
| `commission_clean` | on a quiet bus, does the search isolate, and does success mean addressed? | 3 gears (one may take no address), 4 addresses, every draw of distinct random addresses in 0..7 |
| `commission_ends` | does it end with replies and frames lost without limit and an input device talking? | 1 gear, 2 stuck rounds |
| `registry_safety` | is the registry right while scans, polls, blinks and commands interleave? | 2 gears, 2 addresses, 3 levels, 3 blink frames |
| `registry_poll` | does the poll repair what nothing cached, with mains switched? | 2 gears, 2 addresses |
| `configure_verified` | does ok mean written, and is the identity right? | 1 gear, 3 parameters, 3 values, two lost frames or replies, any number of operations one after another |
| `net_recovery` | can the gateway be reached, and does it come back? | queue 4, two failed calls, one responder that overruns its join |
| `mqtt_retained` | is the broker's copy the registry after losses, restarts and changes? | 1 gear, 1 group, discovery on or off, queue 2, event loop 1, 3 changes |
| `settings_kept` | does what was acknowledged hold? | 2 writes, 1 restart, 1 failed call, 1 secret, 1 name |
| `http_server` | do gaps end, is the LED right, does an image settle? | 1 socket, 1 slot, event loop 2 |
| `bus_stale_cancel` (violated) | does a cancel only stop what was running? | 2 calls |

Bounds and why they are enough:
- `Request`: each call is made once. Three suffice for one being served, one being
  put back and one behind it; two suffice for one that runs and one that waits.
- `QueueDepth` 1 and 2 stand for 16: full, one place left, and order among two.
- `MaxSteps` bounds how long an operation lasts. Two are needed to tell one more
  step after a cancel from two.
- `Radix` 2 gives search addresses of three one-bit digits: the byte cache, the
  skipping of equal bytes and both ends of the bisection all occur. The theorems of
  section 4 hold for every radix.
- `MaxFaults` bounds lost frames, replies and failed calls; `Unlimited` in
  `commission_ends`. `MaxStuckRounds` 2 and 3 stand for the constant of the code.
- `Gear` has one member in `configure_verified`: what its properties say is said of one
  gear addressed. `DtrOpsProofs` has the gears beside it, whose registers hear every load.
- `MaxTypes` stands for the eight types an entry holds, `BlinkFrames` for six;
  the code treats all of them alike.
- `QueueLen` 4 stands for eight slots: it is the least for which no event is lost, as
  `EveryEventHeard` proves for all larger ones. `MaxErrors` and `MaxOverruns` bound
  failures only; retries, losses and joins go on without bound.
- `WorkDepth` 2 and `LoopDepth` 1 make both queues fill. `MaxMoves` bounds what the
  world does to the adapter (saves, messages, changed gears, scans, lost connections,
  restarts); three are needed for a change during the recovery from another.
- `MaxWrites` 2 lets two writers meet at every pair of steps, `MaxBoots` 1 puts one
  restart between any two steps. One secret and one name, with the empty ones and the
  mask, give every case of the merge.
- One socket is purged and reused at every place; with more the sockets do not interact
  but through the number of slots, which `HttpServerProofs` covers for any number.
- History variables (`published` capped at 2, `lag` at 3, `legit`, `wanted`, `strays`,
  `touched`, `acked`, `asked`, `excuse`, `lost`, `blind`, `stale`, `behind`) record what a
  property needs and influence no action.

`CHECK_DEADLOCK FALSE` is said where the system may really stop: `Commission` models one
operation, which ends; in `DtrOps` nobody has to ask for another; the bus task without polling waits
on its queue for ever (portMAX_DELAY); the net task ends when the radio cannot be
started; the MQTT worker waits when there is nothing to do; `Settings` ends when its bounded writes are done;
the server waits for clients.

Every property is also run against a mutant of a definition, the way a plausible bug
would change it; the mutants stand beside the definitions and are marked.

Fairness, and why the code justifies it:
- `DaliBus`: the bus task is weakly fair because it has the highest priority of the
  application (10) and none of its waits holds while a message is queued; initialisation
  finishes; a caller inside a call goes on. No caller has to call or to time out.
- `Registry`: the bus task steps what runs, and the poll timer falls due again and again.
  It is weak: a client that begins one identify after another keeps the poll out, and
  `PollRepairs` says so. `Commission`: the bus task steps it.
- `NetWifi`: the net task and the responder run, the three deadlines fall due, and a
  network **that is in range** lets a station associate and hands it an address. Nothing
  makes a network come into range or stay: `Recovers` assumes it in its own hypothesis.
- `MqttIface`: the worker, the event loop and the HTTP handler go on; the client library
  reconnects and reports a lost connection. No message has to come.
- `HttpServer`: events are delivered, the guard starts and its grace period elapses, and
  an upload makes progress or breaks off: the last is the code's only where the client
  sends or its connection dies (section 5). A queued close is strongly fair because the
  server takes its own queue before the next request.
- `Settings` and `DtrOps` are checked for safety only.

## 4. Proofs

Every theorem holds for all values of the constants that satisfy the named assumptions
of its module; further hypotheses stand in its statement. Every invariant and every action
property of the passing runs is the conclusion of one, and so is the refinement. Every
module with a run has a `TypeCorrect`: its state is well typed. Four liveness
properties have their safety half proved: what must hold at each step for the end
to come, without any fairness. These halves (`PollNotForgotten`, `GapsAreClosed` and two
`CountsDown`) stand beside the properties; the runs check the whole instead.

### The bus task (`DaliBusProofs`), for any number of calls, queue depth, operation length and kinds

`TypeCorrect` (which includes that the queue never exceeds its depth) and
`RefsCorrect` (`RefsCountHolders`: nothing is freed twice, leaked or used after it is
freed) come from one invariant, `IInv`. `RefsCountHolders` is not inductive, since
releasing decrements correctly only if the task's reference is in exactly one place. `IInv`
adds that: a request is on the queue at most once, only after it was made; the message in
hand and the caller parked on the operation are not also queued, and are not each other;
`hand` is set exactly at the places of `pc` that use it; an operation that does not run has
nobody parked. The rest builds on `[]IInv`:

- `Answers`, for `AnswersWritten` (`NoEmptyAnswer`), `ConfigureParked`
  (`ConfigureGetsOutcome`) and `CommissioningExclusive` (`NoSuccessWhileCommissioning`):
  a reply's semaphore is given only after its result was written, a result is written
  only for a synchronous call, and an outcome is in hand exactly while one is being
  delivered. Nothing begins between taking an outcome up and handing it over.
- `CancelSeen`, for `CancelPrompt` (`CancelIsPrompt`): a call of `dali_bus_cancel` during
  an operation leaves the flag up until the operation is gone, and after the one step
  that may pass, the loop has read the flag before the next.
- `Announced`, for `PublishedOnce` (`PublishedAtMostOnce`): a request that waits, is put
  back or runs has not been published, and a running one is not queued again. With it,
  `Told`, for `OutcomesTold` (`OutcomeAnnounced`): a posted request that neither waits nor
  runs has been published, unless it is of a kind that may end as it begins. The first half
  is needed because a count that is capped at one proves nothing of a second announcement.
- `OrderHeld` (`NoOvertaking`) needs no further invariant: of the queue with the message in
  hand in front, each step takes the first, adds at the end, or changes nothing. That a
  message occurs once (`IInv`) makes "ahead of" an order.
- `PollRemembered` (`PollNotForgotten`): only the head of the loop sends the task to its
  wait, and the scan at the start is queued after the timer is armed. Without that scan it
  is false (section 5).
- `ServiceImplemented` (`ImplementsService`): under the mapping of `DaliBus`, the initial
  state is one of `CommandService`'s and each step is one of its steps or a stutter. `Woken`
  is what it needs beyond `IInv` and `Announced`: a semaphore is given only for a request
  that no longer waits, so a caller never leaves with an answer to a pending command. The
  proof reads each step as what it does to one request's phase and caller, with all others
  standing still (`ServiceCaller`, `ServiceBegins`, `ServiceSettles`, `ServiceStutters`).

### The operations

`RegistryProofs`: `ScanListsAll` (`ScanTellsTruth`) and
`NobodyJoined` (`NeverJoinsOccupied`) while the mains stays on; `IdentifyLeavesNoTrace`
(`LevelsAsCommanded`) if also `on`, group commands and level queries are left out, for
after those the code does restore another level (section 5). `Orderly` says that no two gears
share an address and that the registry lists no address nobody answers on; `ScanSoFar`
that what the cursor has passed is listed where somebody answers, unless a gear the
registry did not know of moved; `Promise` that if the blink ended now, every gear would
be at the level it had or was given: the cached one for the target, its own for the rest.

`CommissionProofs`: `BusReleased` (`BusLeftUsable`, if frames are not
lost) holds whatever replies are misheard. `SearchFindsOne` (`SearchIsolates`) needs
distinct random addresses and no faults: `Registers` says that the search bytes written
so far are those the gears hold, `Bisect` that once somebody has answered, somebody is
below the upper bound and nobody below the lower one, until one address is left. Its lemmas on the
three digits of a number carry it over every radix. `AddressesStayApart` (`LandsOnFree`)
and `SuccessIsComplete` (`SuccessMeansAddressed`) add that a scan had filled the registry: `Free`
says that every address in use is listed, but the one just programmed; `Settled`, in
`Success`, that every gear that has left the search has a listed address of its own, and
that nothing else is listed but where a gear is stuck, which success rules out, because
the search is then not empty.

`StepsCountDown`, in both (`CountsDown`), is what `Terminates` and `OperationsEnd` rest on
before fairness enters: a tuple of natural numbers, `Remaining`, whose first part that
changes gets smaller with every step, and which nothing that happens between two steps makes
larger. For a commissioning these are the restart, the gears and the stuck rounds it
may still count, the place in the sequence, the open round, the width of the window and the
bytes left; for the others the addresses or frames, the substep and the types. What remains for TLC is that steps go on
being taken. It holds with every fault the models have.

`DtrOpsProofs`: `OkIsWritten` (`OkMeansWritten`), for any parameters, values
and faults: `Written` says that what configure has verified so far is what the gear holds,
unless somebody set a fade time since. It is inductive because a job is verified by
reading the very parameter it wrote, and no later job or command writes it again.
Its hypothesis, that requests name no parameter configure makes no job of, is needed:
of those it says ok as well (section 5). `IdentityRead` (`IdentityIsBank0`), for any
bank and number of bytes: `BankSoFar` says what the registers hold at each place of the read
and that the bytes read are those before. It is about one gear answering, as a deep scan
asks one address.

### Network, MQTT, configuration, HTTP

`NetWifiProofs`: `NeverLockedOut` (`AlwaysAWayIn`) and `GraceIsKept` (`RecoveryStays`) from
`Booting /\ WayIn`, what each place of the boot sequence has set up already;
`EveryEventHeard` (`NoEventLost`) and `StateFollows` (`LinkTold`) for queues of four
slots or more, from `Waiting`: what may be queued, by what the station is at, with
`OneAttempt`, for a second attempt would break it. `NoForeignBeacon` and `RespondersEnd`
state two properties no run has: the access point never beacons with the driver's default
SSID, and no more responders outlive it than joins timed out.

`MqttIfaceProofs`, for any lights, prefixes and depths:
- `EntitiesSurvive` (`KeepsEntities`) and `MasksAccount` (`NoOrphan`) from one fact about
  every step, `Careful`: what a step removes is in the masks or follows a scan, and what it
  leaves unaccounted for is recorded.
- `ConfigReached` (`ConfigAdopted`). Saves and restarts overlap: one may decide on a
  configuration that the next has replaced. `ConfigInv` says that the last order on the
  queue asks for what the configuration says, that without one the client has it or the
  worker is on the way to it, and that the order to start comes first and once. It excepts
  what the property does, and the time in which somebody has decided and not yet posted.
- `CopyCurrent` (`RetainedIsCurrent`), from `ViewInv`: while the client is up and
  on_connected has run for this connection (`Live`), filters and status are set, and each
  part of the copy is current or **due**: an event or a piece of work that will make it
  current waits in one of the two queues, or was dropped and is recorded in `lost`. When both queues
  are empty and nothing was lost, nothing is due. The hard part is `Live` itself:
  events of a client that is being stopped reach the worker when the next one is there.

`SettingsProofs`: `AcknowledgedIsKept` (`AcknowledgedHolds`), `RestartIsTold`
(`RestartTold`) and `ResetSurvived` (`SurvivesReset`), for any number of writes, faults and
restarts. `Story` says at each place of a write what RAM and flash hold relative to what
was acknowledged, while writers have not met; `TellsInTime` needs no such condition,
because the impact is computed against what runs. `ReadBackKeeps` and `ImportRestores` are
about documents: a masked document written back changes nothing, and an export restores.

`HttpServerProofs`: `LedIsTrue` (`LedTellsTruth`) from
`NothingForgotten`: of each kind the last event that waits carries the truth, or none
waits and the LED shows it, unless the change was dropped or never posted; and `GapsClosed`
(`GapsAreClosed`), the safety half of `GapsEnd`, from `Gaps`: who misses something is a stream,
and a stream that is not on the list of clients is about to be closed.

### Only model-checked

Liveness under fairness, which is beyond the prover: `PollRuns`, `ImplementsProgress` (that
accepted commands are settled and waiting callers return), `PollRepairs`, `OperationsEnd`,
`Terminates`, `Recovers`, `ComesToRest`, `GapsEnd`, `ImageSettles`. `CancelOnlyRunning` is
false and has a run that shows it.

## 5. Disagreements met while modelling

With a run, and listed under `findings`: a cancel that finds nothing running stops the next
operation (dali_bus.c:592, dali_bus.h:57).

Read off the code, without a run. A property that such a case would break excepts it
by name, or the instance leaves it out, as said.

Bus task:
- dali_bus.c:539: the poll timer is armed after the task that reads it was created. A task
  that computed its first wait before waits without end, until a command comes; with
  `scan_on_boot` one does, and `PollRuns` is checked with it.
- dali_bus.c:372: an urgent command behind two ordinary ones waits for the next step
  (SPEC.md:276 says it is served before it).
- dali_bus.c:408: the scan after a commissioning is lost when the queue is full, or
  rejected when another long operation is queued before it (SPEC.md:308). A cancelled
  commissioning is not followed by one at all (dali_bus.c:405), although it may have
  erased addresses.
- dali_bus.c:304: a long command that is declined, submitted without waiting, gets no
  event (dali_bus.h:40). `OutcomeAnnounced` checks the rest.
- dali_bus.c:612: get_status names configure and identify `poll_all`.
- dali_bus.c:178 and 206: GW_EVENT_BUS_ACTIVITY is posted before the error is looked at,
  so a failed transaction counts for a new image, where SPEC.md:490-491 asks for a
  successful one.

Operations:
- dali_commission.c:355: one lost reply to VERIFY makes the code give the same address to
  the next gear. `commission_clean` and the theorems leave faults out.
- dali_commission.c:330: with a registry no scan has filled, free addresses are
  guesses. `commission_clean` sets `RegistryKnown`.
- dali_ops.c:323: colliding answers to the occupancy probe pass as free, so a third
  gear can join two that share an address. `Registry` starts from distinct ones.
- dali_ops.c:957: identify ends with the cached level. A level query served meanwhile
  caches the level of the blink; `on`, scenes, steps, groups and broadcasts are not cached
  (dali_ops.c:142), so an identify undoes them. `registry_safety` leaves these out.
- dali_ops.c:343: a gear moved during the first scan, from an address not reached
  yet to one passed, is on no list. `ScanTellsTruth` excepts these `strays`.
- dali_ops.c:68: nothing but a bus check clears `powered`; a bus that loses its supply
  is polled for ever (dali_bus.c:440 says polls are then skipped).
- dali_configure.c:297: a short command between load and store makes configure store
  somebody else's DTR0 (SPEC.md:314). The read back reports a mismatch, so `OkMeansWritten`
  holds, but a parameter nobody asked for stays in the gear.
- dali_configure.c:109: `extended_fade_time` is accepted and never written
  (SPEC.md:314); `Ignored` in `DtrOps`, which `configure_verified` does not name.
- dali_ops.c:822: a command between two bytes of a memory bank read makes the identity
  wrong; `IdentityIsBank0` excepts it.
- dali_system_components.c:323: `listen_idle` is given and taken but never created
  (563-570), so the listen mode SPEC.md:609 describes cannot run.

Configuration:
- http_routes.c:47 and cmd_set_config of mqtt_iface.c: two writers clone, merge and write
  back without a lock; one undoes what the other acknowledged. `AcknowledgedHolds` excepts
  writers that met, `RestartTold` does not.
- app_config_gear_name is called nowhere: names survive in the configuration and never
  come back to the registry after a boot (SPEC.md:283, 365; MQTT_API.md:156, 358). Names in
  a document written with set_config or an import do not reach it either.
- http_auth.c:39 reads the live configuration, so `http.auth` takes effect at once;
  HTTP_API.md:91-92 and SPEC.md:235 say after a reboot.
- app_config_logic.c:386: `dali.poll_interval_s`, the inversions and the host name are read
  at boot only and are not said to require a reboot.
- http_routes.c:32: reboot_later is created without a look at the result, and between
  the erase of a factory reset and the restart 500 ms later a write recreates the namespace
  the comment at app_config.c:161 wants left erased.
- app_config.c:58: a boot that had no memory to load runs on defaults, and the first rename
  (app_config.c:195) then saves those over a good blob.
- http_routes.c:81: out of memory for the reply, a write that was saved is reported as failed.
- An import does not remove names the exporter did not have (`ImportRestores` says which).

HTTP server and images:
- http_routes.c:227-230 and 274-277: two error paths of the upload post no final event; the
  LED shows an upload until the next one. `LedTellsTruth` excepts them as `NeverPosted`.
- ota_validate.c:25: `s_done` is set even when the image could not be marked, and nothing
  tries again. `ImageSettles` excepts it as "failed".
- A second upload erases the slot that the first one selected for the next boot.
- http_routes.c:236 and http_util.c:29 go on after a receive time-out without a limit, so
  a stalled upload occupies the one server task until its connection breaks. `HttpServer`
  assumes an upload goes on or breaks off.
- http_iface.c:202: purging the least recently used socket takes event streams too.

MQTT:
- mqtt_iface.c:1154: `WORK_CONNECTED` is posted without a look at the result. Dropped, the
  adapter is connected and subscribed to nothing until the next connection.
- mqtt_iface.c:1349: a restart that finds the queue full for 200 ms is lost, and so is one
  whose decision a later save overtakes (MQTT_API.md:213). `ConfigAdopted` excepts the first
  and follows the second.
- mqtt_iface.c:564: a prefix that changes after a reboot but before the blind pass leaves
  the documents of the earlier boot under the old one (MQTT_API.md:398). `NoOrphan` excepts it.
- mqtt_iface.c:1021: a client that could not be started is not tried again.
- `gear/<addr>/state` of a gear that vanished stays retained.

## 6. Not modelled

- `dali`, the vendored driver, below its results. Its listen path is the only part with
  concurrency of its own, and as it stands it has no behaviour: the semaphore its task
  gives is never created. With it goes listen mode in dali_bus.c, `RX` events and the
  bus monitor. The command tables are data.
- `gw_api`'s parsing of commands and formatting of results: pure conversions under host
  tests, whose outcomes the other modules take as inputs.
- Colour and raw commands, which appear only as loads of a transfer register; group and
  scene membership bits; the registry's copy of names.
- `net_wifi`: the scan for networks, the status getter, the length of the back-off.
- `mqtt_iface`: topics that are sent once (bus, event, result, progress, log) and their
  limits, the reassembly buffer, parsing. That the client library's outbox may deliver an older state later
  is outside what its use in the code shows.
- `http_iface`: authentication, static files, the captive portal and read-only routes: no
  state that several steps share.
- `status_led`: pixels, the held button's pattern, the colour set over MQTT.
- The web client, tests and tools.
- Durations. The registry lock is held for a transaction, which bounds readers' waits in
  time the models do not measure. Reply loss in `Registry` is loss of mains.

## 7. Plan

Done: `CommandService` and `DaliBus`, `Commission`, `Registry`, `DtrOps`, `NetWifi`,
`MqttIface`, `Settings`, `HttpServer`, and the proofs of section 4.

Left:
1. Composition of `DaliBus` with `Registry` and `Commission`: what a lost rescan or a
   cancelled commissioning of all gears leaves behind.
2. Gear names in registry and configuration across moves and restarts, once a boot
   restores them.
3. The receive channel between listen task and transactions, once the driver can run it.
4. Theorems: the safety half of `ComesToRest` and of `Recovers`, and that a request's phase
   is bounded by its place on the queue, which `ImplementsProgress` rests on.
