# Verification of the openHop modem firmware

TLA+ models of the firmware in `src/firmware`, checked with TLC and, for the
parts named below, proved with TLAPS. Line numbers are those of
`src/firmware/src/main.cpp` unless another file is named.

## 1. The system

The modem is a microcontroller with an SX1262 LoRa radio. A host talks to it in
frames over USB, a UART or TCP (`protocol.h`); it asks for transmissions, channel
scans and settings and receives every LoRa packet the radio hears.

| Component | State | Operations | Interacts with |
|---|---|---|---|
| Radio core (`main.cpp`) | radioReady, radioStandby, isTxActive, radioTxReady, currentConfig, dio1Flag, rxActivityAt, rxHeaderSeen, autoCadEnabled | `loop`, `processHostCommand`, `handleLoRaRx`, `isReceivingPacket`, `applyConfig`, `startReceive`, `maybeResetAgc`, the DIO1 interrupt | everything; the chip over SPI, the interrupt through dio1Flag |
| RF front end (`rf_frontend.cpp`) | LNA and PA pins and settings | `prepareTransmit/Receive/Standby`, setters of the web pages | called by the radio core and the web handlers |
| AGC maintenance (`agc_maintenance.h`) | interval, last attempt | `shouldAttempt`, `run` | called once per loop, consults the reception guard |
| Node state (`node_state.cpp`, T114) | three files and their cached values | `begin`, setters | written by host commands, read at boot |
| Frame parser (`frame_parser.cpp`) | parser state, payload | `frameparser_feed` | one per transport; calls `processHostCommand` |
| TCP server (`tcp_server.cpp`) | one client, its token and parser | `begin`, `loop`, `write`, invalidation | budget per loop; Wi-Fi and Ethernet managers |
| Wi-Fi manager (`wifi_manager.cpp`) | mode, event bits of another task, grace, backoff and restart counters | `begin`, `loop`, `startAPMode`, `attemptSTA` | event task of the driver, config portal, TCP server |
| RAK4631 configuration store | two flash slots, active slot and generation | `load`, `save`, `erase` | flash that fails or loses power at any page |
| Staged OTA writer | stream position, page buffer, error | `push`, `finish`, `cancel`, `service` | HTTP upload, external flash |
| OTA manager (`ota_manager.cpp`) | session, boot sanity window | upload handlers, `notifyValidFrame` | bootloader, radio core |
| W5100S transport | socket, one-slot transmit buffer | `service` | polled once per loop |
| Management server of the RAK4631 (`w5100s_http_server.cpp`, `w5100s_bounded_rx.cpp`, `http_request_parser.cpp`, `rak4631_web_handlers.cpp`) | one client, its request, the answer's offsets, a snapshot of the configuration | `begin`, `loop`, `dispatch`, `handlePost` | polled once per loop; the configuration store, the bootloader manager |
| Bootloader manager (`bootloader_manager.cpp`) | the transition that waits for an answer | `arm`, `responseClosed`, `responseAborted`, `poll` | called by the management server; resets the MCU |
| OTA manager on the network (`ota_manager.cpp`, `config_portal.cpp`) | a copy of the configuration, NVS | the form and JSON handlers, `applyConfigPatch`, the portal's save | Wi-Fi manager's `Config`, RF front end, restart |
| Ethernet manager (`ethernet_manager.cpp`) | started, cached address | `begin`, `loop`, `end` | event task of the driver; `setup()` chooses the transport, `loop()` starts the servers late |
| RAK4631 settings (`rak4631_config.cpp`, `rak4631_web_handlers.cpp`) | the configuration's fields | validation, normalisation, `encode`, `decode`, form and JSON requests | configuration store, management server |
| Sensors (`environment_sensor.cpp`, `station_g3_power.cpp`, `tbeam_1w_fan.cpp`, `battery_monitor.cpp`, `gps_manager.cpp`) | cached samples and when they were taken | periodic sampling, the fan task, GPS lines | read by the web pages and the panel |
| Panels (`oled_display.cpp`, `tft_display.cpp`, end of `loop()`) | screen, wake and debounce times, lit or dark | button, sleep, cycle, redraw | nothing reads them |
| PMU, web pages, build tools | register writes, text | -- | -- |

What makes it hard. There is one thread, and the chip runs beside it: between any
two statements a preamble, a header, a complete frame, the end of a scan or the
end of a transmission can be latched, and all of them arrive through one flag.
Handlers block in polls of up to 4.5 s during which the chip gets ahead. Every
handler takes the half-duplex radio away from reception and has to give it back
on each of its paths. Completion interrupts get lost, so every wait has a
deadline, and an interrupt can then come after its deadline. Driver calls fail
halfway. Power can go at any statement. The same holds, with sockets and flash
in place of the chip, for the transport, the configuration store and OTA.

What makes each component correct:

* **Radio core** -- reception is never lost for good; a frame the guard watches
  is not aborted; answers to the host are true; every request is answered; a
  half-applied configuration never reaches the air; hard standby holds until it
  is lifted and survives a reboot.
* **RF front end** -- the LNA is out of the path while the amplifier transmits.
* **Configuration store** -- `save` is atomic: after any crash or flash failure,
  `load` returns the last acknowledged record or the one being written.
* **Staged OTA writer** -- an image is declared verified only when all of it was written
  and read back, in order, exactly once.
* **Wi-Fi manager, Ethernet managers** -- a modem without an address keeps trying, in
  station mode or beside its access point; an address is noticed and served; no
  event is lost between two passes.
* **TCP server and frame parser** -- commands run only for the authenticated
  client; bytes of one client never complete a frame of another; a session does
  not outlive the address it was accepted on.
* **W5100S transport** -- whole frames go to the wire in order; a refused client gets
  its error and is closed, if its socket lasts that long; a peer that stops answering does not keep the socket.
* **OTA manager** -- a setting saved over any of its doors leaves a modem that can be
  reached; an update never leaves it without an image that has proved itself.
* **Sensors, panels** -- no stale or half sample passes for a current one; the panel
  sleeps and wakes by the clock.
* **HTTP parser and decoders** -- no byte outside a buffer; what is taken means what
  was sent.
* **Management server and bootloader manager** -- the one slot for clients always
  comes back; a save is never undone by a later one; a restart that a save needs
  comes whatever becomes of its answer, a DFU transition only after its answer.

`PROJECT.json` lists the components with what is modelled of each, and the
hazards of this code with the properties that watch over them.

## 2. Modules

| Module | What it holds |
|---|---|
| `RadioCore` | the radio core, the front end, the node-state files, the chip and the air |
| `MCRadioCore` | the small instance TLC runs (symmetry of the frames) |
| `RadioSafetyProofs` | lemmas about the chip and the helpers, type correctness, and the inductive invariant of the chip, the flags and the handlers |
| `RadioHostProofs` | what rests on it: placement, verdicts, files, the guard, what is served |
| `ConfigRegister` | what the users of the RAK4631 configuration store may rely on |
| `ConfigStore` | the two flash pages, the store's bookkeeping and the calls of `Rak4631Config` |
| `RakConfigProofs` | the store's invariant and its refinement of the register; what a saved setting is |
| `StagedUpload` | what the caller of the OTA writer may rely on |
| `OtaStagedWriter` | the streaming OTA writer, its caller and the staging flash |
| `MCOtaStagedWriter` | the packages TLC uploads |
| `OtaStagedWriterProofs` | what VERIFIED means, that sound uploads get there, where every byte is; the refinement of `StagedUpload` |
| `W5100sHttp` | the management server, its requests' saves and restarts, the W5100S socket and the peer |
| `W5100sHttpProofs` | its inductive invariant and safety theorems |
| `AgcSchedule` | when the AGC maintenance of the radio core may reset the receiver |
| `WifiRecovery` | Wi-Fi manager, driver events and TCP server of the ESP32 |
| `Esp32Config` | every way to change the ESP32's settings, NVS and what is in use |
| `Esp32Update` | uploads, trial boot, mark and rollback of the ESP32 |
| `Ethernet` | on-board Ethernet, the boot's choice of transport, late servers |
| `Esp32Proofs` | invariants and theorems of `WifiRecovery`, `Esp32Config`, `Esp32Update`, `Ethernet` |
| `W5100sTcp` | DHCP, link and the host protocol over the W5100S |
| `Parsers` | the host frame parser and the HTTP request automaton, byte by byte |
| `Decoders` | URL, form, target and base64 decoding against their inverses |
| `RakSettings` | validation, normalisation and records of the RAK4631's settings |
| `Sensors` | environment sensor, supply monitor, fan, battery, GPS |
| `Panel` | the panel's sleep, wake, cycle and button |
| `BoardProofs` | invariants and theorems of `Parsers`, `W5100sTcp`, `Sensors`, `AgcSchedule`, `Panel` |
| `MCNetwork` | the instance in which TLC runs the modules from `ConfigStore` to `Panel` that have no run of their own |
| `NetworkProofs` | the same composition for all values of the constants |

The modules beside `RadioCore` share with it only what they are given as choices: a
request that was parsed, a client that is served, a reset. `WifiRecovery` is itself the
composition of two components that call each other (manager and server), and so are
`W5100sTcp` (its EthernetManager and server) and `W5100sHttp` (server, reader, chip,
bootloader manager).

### How RadioCore corresponds to the code

`pc` is where the loop is: `irq`, `rearm`, `host`, `maint`, `agc` are the stations
of `loop()`, the others are points inside a handler of `processHostCommand()`. A
handler is cut exactly where it polls, delays or sends, because there the chip can
get ahead of it: CMD_TX_REQUEST is `TxRequest` (the reception guard), `AcGuard`,
`AcScan`, `AcPoll`, `AcFail` (auto-CAD), `TxStage` (standby, LNA bypass,
startTransmit), `TxWait` (the 4.5 s wait) and `TxFinish` (clean-up, recovery,
answer); CMD_CAD_REQUEST is `CadRequest`, `CadStage`, `CadPoll`. Every other command
is one action, split only where it acknowledges or where the node-state file is
rewritten (`Forget` removes it, `NvWrite` writes it, a reboot can come in between).
Commands that change no radio state are `AnswerOnly`.

* `Guard` is `isReceivingPacket()` with all its effects: it starts, keeps or resets
  the two timer variables and clears stale flags. `Receiving`, `StaleFlags`,
  `HeaderAge` and `PreambleAge` are its branches.
* `ApplyResults` is the set of outcomes of `applyConfig()`: whole, half (the chip
  then holds `PartialConfig`), or refused before the first change. `StartReceive` is
  `startReceive()`: a success that does nothing in hard standby, else RX or a
  failure. Its callers ignore that failure, as in the code.
* `rf` is the LNA pin, stationG3InReceive and the setting the web page wants.
* Three boards cover the `#if`s that matter here: `station` (Station G2/G3: guarded
  AGC reset, LNA control), `v43` (Heltec V4.3: unguarded AGC restart), `t114`
  (persisted standby and auto-CAD).

### What is assumed of the chip and the library

RadioLib and the SX1262 are not in the repository; they are modelled from how
the code uses them, and marked external in `PROJECT.json`. Entering RX, CAD or TX
clears the IRQ register; standby does not. `readData()` clears it too. DIO1 is an
edge: it rises only when a routed flag is latched while none was (`Raise`), and only
terminal flags are routed (`DioMask`, the RX mask of `OpenHopSX1262::startReceive`).
standby, CAD and TX abort a reception. A failing call leaves the chip where it was
or in standby. A scan may outlast the wait for it only when `CadOverruns` says so
(the host can ask for 16 symbols; the wait is 200 ms). A transmission or scan may
also never complete.

### Abstractions and bounds

* A frame is a model value, heard once; `heard`, `delivered`, `witness`,
  `protected` and `placed` are history variables that only properties read.
* A configuration is a model value, accepted (`ValidConfigs`) or rejected by a
  setter (`BadConfigs`).
* Time is counted in ticks longer than the code between two points of `pc`; time
  does not pass at `StagePcs`, the points right after the guard. Ages saturate
  one above the largest bound they are compared with, so nothing is lost. In the
  code the bounds are airtimes padded by half; that of the header phase is computed for
  a whole frame of the longest payload, so preamble and payload together fit into it
  (`TimeAssumption`; 428).
* `MaxFaults` bounds failing driver and file calls. One is enough for each
  recovery path, since every path recovers on its own; the proofs have no bound.
* The CAD exit mode is standby, its default. The CRC flag is not modelled: a frame
  that fails its CRC is simply not delivered (`LoopIrq`).

### How ConfigStore corresponds to the code

`Begin` is `begin()` with `load()`; `StartWrite` is `saveConfig()` or `factoryReset()` down
to `writeSlot()`, whose three flash calls are `Erase`, `Write` and `Verify`. Each of the
first two succeeds, or fails with or without its effect, and `PowerLoss` can come
at every point, with the call under way done or not. `BeginWithoutFlash` is the boot
whose SoftDevice would not stop. `Refuse` stands for a configuration that
`validateAndNormalize()` rejects and for flash that cannot be written.

A page is what `readSlot()` makes of it: nothing (`NoRecord`: erased, torn, a bad
magic, length or CRC) or a generation with a value, `Empty` being the tombstone of
`factoryReset()`. CRC-32 is taken to detect a torn record. `NrfConfigFlash::read` is a
copy from memory-mapped flash and cannot fail, so neither can `load()`. The uint32_t
generations wrap at `2 * HalfRange`; TLC uses 4 instead of 2^32, so that every
history wraps within a few saves. Records that this firmware cannot decode are
left out (see the hazard at `rak4631_config_store.cpp:81`).

`ConfigRegister` is the abstract side: a write that was acknowledged is what the next
boot loads; one that failed or was cut short leaves the old value or its own, and
a retry takes that back first; nothing else is ever loaded. `Settled`, `Status` and
`Loaded(slot)` are the refinement mapping.

### How OtaStagedWriter corresponds to the code

`writer` is the `Writer` object, field by field (`headerLength_`, `payloadLength_` and
`eraseEnd_` follow from the package and are left out). `Push` is `push()` with a piece
of any size, `Finish` and `Cancel` their namesakes, and `ServiceErase`, `ServiceWrite`,
`ServiceHash`, `ServiceRead` the branches of `service()`, one flash unit each. The
caller keeps to the contract in `ota_staged_writer.h`: it offers again what was not
taken. It may also end early or cancel. `Restart` makes the next writer, after a
verdict or a reset, over whatever the last one left in the staging area.

A byte is a model value that knows its place in its package. A hash is the stream
of bytes it was given, so a match means equal bytes: SHA-256 is taken to be free of
collisions. The header's many checks are two verdicts, one per parsing step, except
the length checks, which are kept. Flash comes in both kinds: with its own page
erase (the nRF52), or needing `ERASING` first; a cell programmed without an erase is
garbage. `MaxDisturbances` bounds, per upload, early ends, failing accesses and cells
that decay before they are read back (afterwards nobody looks again). The range
checks of the code cannot fail; `touched` stays in the staging area by `TypeOK`.

### How W5100sHttp corresponds to the code

`Loop` is one pass of `loop()`: `Execute` is `deferredTransition.poll()` (a reset of the
MCU, after which `Begin` runs again), then the return while a transition is committed,
the lost address, and one of `Accept`, `Read`, `Serve` and `Write` by `clientState`. Each
of these is its branch with every call it makes: `Read` is one byte through the bounded
reader and the parser, or one of the timeouts; `Write` is `writeOneChunk()` with its send
machine (`SendChunk`, `CommandTaken`, `ChunkSent`) and every way of giving up. `CloseClient`
is `closeClient()` down to `responseClosed()` or `responseAborted()`.

* `reader` is what `Reader` knows of the command register: everything `settled`, some
  bytes read and `unacknowledged`, or a RECV `pending`. Its guards are those of `settled()` and `poll()`.
* `chip` is the socket: `connected`, a SEND `given` (in the command register) or `out`
  (on its way), and the latched SEND_OK and TIMEOUT flags. The chip and the peer may
  stop at any step; the chip, the peer, the address and power are separate actions.
* What a request says, whether its password, origin and form are good, and what
  its answer contains are chosen by the step that first depends on them. The
  configuration is two fields: one that needs a restart and one that does not
  (`/auth`). A save that fails may or may not have written, as `ConfigRegister` allows.
  `FactoryReset` is the host's CMD_WIFI_RESET, the only other writer of the store.
* `age` holds the time since each deadline's start, counted up to the deadline.
* `answer`, `heard`, `owed` and `acceptable` are history variables: what the answer
  announces, how many of its chunks were acknowledged, whether a restart is owed, and
  what a reader of a field may find.

Left out: the listening sockets and `lastIpUsable` (`accept()` of the library listens
again by itself), an answer too large for its buffers, a configuration flash that
cannot be read at boot (then every save is refused), and a received length that the
chip reports wrongly.

### How AgcSchedule corresponds to the code

`ReadyPass` is `shouldAttempt()` with a radio that is ready, neither parked nor
transmitting, in its three outcomes; `BusyPass` is any other pass of `loop()`. What the
attempt does is `AgcRun` and `AgcRestart` in `RadioCore`. Time is `millis()` modulo
`AgcWrap`, and the differences are taken as the code takes them. `lastTxCompleteMs` = 0
stands for `never transmitted', in the code and in `AttemptsSpaced`, which therefore says
nothing of a transmission that ends in the millisecond of the wrap. `sampleNoiseFloor()`,
which follows the same pattern without resetting anything, is left out.

### How WifiRecovery corresponds to the code

`WifiManager::loop()` and `TCPServer::loop()` alternate (`wpc`). `pending` is the atomic word
of event bits that `onWiFiEvent()` (the driver's task, `Deliver`) sets and `loop()` takes
whole; `drv` is the driver with its own address, `mgr` the manager's mode, address on
record and timers, `tcp` the server. `MaxCallbacks` bounds the events not yet delivered
and `MaxSessions` the sessions told apart: 1 is enough to see one client's state with
the next (0 is `none'); the run also passed with 2. The calls of the driver may fail.
`stale` marks a session whose address an event has called in question. A client that
waited in the backlog on the old address can still be accepted after the invalidation
was consumed; nothing in the code tells it from a new one, and no property asks it.

### How Esp32Config and Esp32Update correspond to the code

`nvs` is what the flash holds, `inUse` what the running program works with; each handler
is one action, with the order in which it persists. `saveConfig()` looks at no result, so
each of its keys may keep the old value (`SaveOutcomes`). A setting is a flag: `static` that the mode is set,
`address` that all the addresses it needs are there. `excused` records the two ways
the code knowingly leaves a static mode without them: the setup portal, which does
not ask, and a save that failed halfway. The HTTP password, which has a record of its
own, is left out. `MaxNamed` bounds how many members a JSON request names; two are
the mode and its address.

`Esp32Update` has the two slots with the states of the bootloader's otadata, both ways
to upload (`ArduinoOTA` and the HTTP form), the sanity window, the mark and the
rollback. The bootloader and `verifyRollbackLater()` are external. Three things the code
does are in the model as they are: `markedValid` is set even when the mark failed;
the mark needs a host frame and the time, but not a radio that came up
(the comment at `ota_manager.cpp:984` says otherwise; nothing in `main.cpp` checks it); and
an upload is taken while the image is still on trial (`trialUpload`).

### How Ethernet corresponds to the code

`phase` follows `setup()` (start, wait for an address, choose the transport) and then the
passes of `loop()`: refresh the cached address, start the servers late, draw the status
line. The cable, the lease and the Wi-Fi station move by themselves. The choice is
made once: a cable pulled after the boot never brings Wi-Fi up. The cached address
outlives the lease it came from, so the status line can show an address that is gone
once; the header says it would be `---`.

### How W5100sTcp corresponds to the code

`EthernetLoop` and `TcpLoop` are the two `loop()`s that alternate. A frame is `FrameChunks` chunks
of 256 bytes; `session.tx` is the transmit buffer that holds one frame, and its send
machine (`ChunkGiven`, `FrameChunkSent`, `Overdue`) has the command phase, the acknowledge
phase and the deadline of the code. `ReadBytes` are up to 256 bytes, which stop at the first
answer queued; what a frame does is `Framed`, and what the frames of one pass do is `Batch`.
Two frames stand for any number: as long as nothing is queued, an open socket has carried
only commands without an answer, and on a closed one a refusal and a login, in either order,
set all the flags there are. `Broadcast` is the frame another part of the firmware sends, and
`Sent` what becomes of a frame: nothing on a closed socket, and the end of the client when the
buffer is taken.
`late` are the deadlines that have passed; whether one passes is up to the clock
(`Passes`). An outcome is a record of session, socket, wire and deadlines, so that a pass is
the composition of what its calls do to it (`Served`, `Written`). The chip and the peer may stop
at any step, and the socket may close between the looks that a pass takes at its status
(`Closing`): before the bytes are read, before each frame, before `writeOneChunk()` and
before a broadcast is queued. What else the chip does, it does between two passes. A closed
socket stays closed until its client is let go: that the driver gives it to a listener
earlier is not modelled.

### How Parsers and Decoders correspond to the code

`FrameFeed` is `frameparser_feed()` with one byte: numbers have two digits of radix `Radix`
instead of two bytes, so that both sides of every comparison are reached. The CRC is a
choice. `RequestFeed` is `Parser::feed()`; a byte is CR, LF or another, and
what a complete line says (its method, a Content-Length, a Transfer-Encoding, something
malformed or repeated) is chosen when it ends.

`Decoders` are pure functions, evaluated on all texts of at most `DecoderLength` tokens,
and against their inverses on all small forms. Widths are scaled: escapes have two
digits of base 4, base64 has 3 bits per character and 4 per byte, so that padding and
cut-off bits occur as in the code.

### How RakSettings corresponds to the code

`stored` is the record in flash, `editing` the server's copy; a request edits the copy and
`Persist` validates, normalises and saves it or not. A refused request is no step.
An address is the set of its one bits, `AddressBits` of them, so that the masks and every
boundary of `isValidStaticNetwork()` occur and `&`, `|` and `~` are set operations;
`invertedMask + 1U` is `Incremented`, with the carry. Texts are sequences of the kinds of
characters `sanitizeHostname()` tells apart, one longer than a host name may be; its loop
is the recursive function `Labels`, the label after each character. A JSON request
names each member at most once, in any order; members it omits are kept (on the ESP32
they are not: see the findings). Tokens, password and GPS, which nothing validates
beyond their length, are one flag.

### How Sensors and Panel correspond to the code

One variable per sensor; each has its passes of `loop()` (the fan has its own task,
with its steps apart because the web page reads between them). Readings are members of
small sets around the thresholds. The battery's batch is kept as how many samples were
taken, how many were plausible, and their sum: the filter judges each sample by itself,
so nothing else of the batch matters. Left out are position and motion of the GPS, and the
PMU. Noted on the way: `TBeam1WFan::powerOff()` has no caller; GGA before RMC at midnight
pairs the new time with the old date for one sentence; message 1 of each talker resets
the satellite list; `datetimeUtc` keeps its value when the date empties; a minimum of
exactly 0 V counts as not yet set.

`PanelPass` is the end of `loop()`: button, wake time, sleep, cycle and redraw, with the
driver's `turnOn()` and `turnOff()`. Time is `millis()` modulo `PanelWrap`. The button's
comparison (2086) is not made for the wrap: after 49.7 days it is ignored until
`millis()` exceeds the last `prgIgnoreUntil`, which `PressesAnswered` exempts (`wrapped`).

## 3. What TLC checks

| Run | Instance | Question |
|---|---|---|
| `radio_faults` | 3 boards, 1 frame, 1 good and 1 bad configuration, 1 fault, about 2.5 million states | where the radio ends up after any command, failure and reboot |
| `radio_traffic` | Station, 2 frames, no fault, frame symmetry, about 650 thousand states | does the guard keep its promise, are answers true |
| `radio_live` | Station, 1 frame, completions lost or late | does everything end |
| `radio_preamble`, `radio_header` | Station, 2 frames | comments on the guard, refuted |
| `radio_late_cad` | Station, late CAD_DONE | comment on the DIO1 flag, refuted |
| `radio_dead` | Station, 1 frame | comment on modems without a radio, refuted |
| `ota_staged_writer` | pages of 2 bytes, 2 pages, header of 2 parts, packages from 0 to 5 bytes, sound and not, 1 disturbance, about 49 thousand states | what VERIFIED means, and that uploads end |
| `w5100s_http` | 2 values of 2 fields, answers of 2 chunks, deadlines of 1 to 3 ticks, about 105 thousand states | what becomes of saves, restarts, DFU requests and the client slot |
| `w5100s_http_dfu` | the same | documented promise of `POST /dfu/ble`, refuted |
| `network` | seventeen components side by side, about 240 thousand states | everything around the radio (below) |
| `esp32_omitted` | requests that name one member | documented promise of omitted fields, refuted |

`network` is the union of the components' state spaces and not their product: each initial
state picks the `part` that runs, the other variables stand still. The components share no
state in the models, so the product would show nothing more. The table gives the
states and the bounds of each part.

| Part | States | Bounds |
|---|---|---|
| `store` | 3231 | 2 configurations, 4 generations, no bound on saves or failures |
| `tcp` | 46320 | frames of 2 chunks (a first and a last), a token required |
| `wifi` | 127746 | 2 addresses, 1 event under way, 1 session told from none |
| `config` | 800 | 2 members named in one request |
| `update` | 448 | 2 slots |
| `env`, `power`, `fan`, `battery`, `gps` | 81, 84, 108, 30, 2056 | ages of a few ticks around each limit, 3 samples, lines of 2 characters |
| `frame`, `request` | 89, 9584 | radix 3, payload of 3, lines of 1, bodies of 2 |
| `ethernet` | 578 | 2 leases |
| `panel` | 1556 | a clock of 10 |
| `agc` | 25528 | a clock of 6, intervals of 0 and 2 |
| `settings` | 10420 | 4 bits of address, host names of 3, texts of 4, 2 requests between two factory resets |
| `form` | 11111 | 4 tokens, fields of 1 and 2 characters; the inverses over all small forms |

Two frames are what the guard's timer needs to confuse one with another, and two
scans what auto-CAD makes (`CAD_AUTO_RETRIES` = 2; the comment at line 1070 speaks of
three scans, the loop makes two). One bad and one good configuration
suffice because nothing compares two good ones except through `PartialConfig`.

Safety:

* `RadioPlacement` -- between requests the radio is in RX, or out of it in hard
  standby, on every path of every handler that the driver did not fail; and the LNA
  is out of the path while the amplifier transmits and in standby (`LnaFollowsRadio`).
* `PendingFrameVisible` -- the edge-triggered flag is never lost: while RX_DONE is
  latched in RX, dio1Flag is up. Its one exception is the way out of a scan that
  would not start, where `startReceive()` follows at once.
* `HandlerAccounting` -- a request is pending exactly in a handler and isTxActive
  is up exactly in CMD_TX_REQUEST.
* `NoPartialConfigOnAir` -- radioTxReady keeps a half-applied configuration off the air.
* `PersistedStateMatches` -- files and RAM agree between requests, so a reboot
  restores what the host last had acknowledged.
* `TimedReceptionSurvives` -- the frame the guard has timed afresh is not aborted
  by a TX, CAD or AGC pass within its airtime. This is what the guard does
  guarantee; the two comments quoted in the findings promise more.
* `HonestVerdicts` -- TX_DONE, clear and busy are true of this request.
* `ServedIrqIsReception` -- what `loop()` serves as a reception is a new one.

Configuration store:

* `ImplementsRegister` -- every history of saves, resets, failing flash calls and
  power losses is one of `ConfigRegister`.
* `GenerationsAdjacent` -- two valid pages are one generation apart, also after a failed
  save whose record is overwritten under the same generation, and across the wrap.

Staged OTA writer, with bodies shorter, longer and other than declared, on page
boundaries and off them:

* `VerifiedIsComplete` -- the staging area holds the image the header promises.
* `SoundPackageAccepted` -- the converse: an undisturbed sound package is never
  refused, however it is cut up and whatever the flash held before.
* `StreamAccounted` -- no byte is lost, repeated or hashed twice between caller,
  page buffer and flash; and no flash access comes before the header is good or goes
  beyond the declared pages (`OnlyDeclaredPagesTouched`).
* `ImplementsUpload` -- every history of the writer is one of `StagedUpload`: one verdict per
  upload, which nothing revives; VERIFIED only with the whole image in place; a refusal
  only of what is unsound or was disturbed; no cell changed outside the declared pages or
  after the verdict, which neither invariant above says.
* `UploadEnds` -- if the caller goes on offering, finishing and calling `service()` (weak
  fairness of each), the verdict comes.

Management server, with a peer and a chip that may stop at any step, failing saves and
resets. Two chunks are a first and a last one; the deadlines keep the order of the
code's (the fallback is longer than an answer may take), and two values tell an old
save from a new one:

* `UpdatesKept` -- no save undoes another field's, although each request edits a
  snapshot and the flash may hold what a failed save left there.
* `OneCommandAtATime` -- SEND and RECV share one command register and are given by two
  pieces of code that must wait for each other.
* `RestartStaysArmed` -- a restart that was promised or is needed is never cancelled or
  replaced, whoever hangs up.
* `DfuOnlyWhenHeard` -- DFU is committed only when the peer has acknowledged every
  chunk of the answer that announces it; a latched SEND_OK of the chunk before must
  not count.
* `ServerGoesOn` -- such a restart comes (`RestartComes`), and the only slot is given back
  (`ClientLetGo`). Fairness is that `loop()` goes on being
  called and that time passes; nothing is assumed of the chip or the peer, so the
  deadlines must do the work.

Around the radio (run `network`):

* `NetworkTypeOK` -- the type invariants of all parts.
* `StaleSessionDropped` -- an outage invalidates the session accepted before it, even
  when it comes and goes between two passes.
* `SessionStateIsItsOwn` -- half a frame or a login never outlives its client.
* `WholeFramesOnWire` -- chunks go to the chip in order, each once, and a frame begun is
  finished or the client is gone, also when a broadcast meets a full buffer.
* `RefusedClientCloses` -- as long as the socket of a client whose token was refused is
  open, its error is in the queue, the client is to be closed after it, and it is not
  authenticated. It does not hold of a socket that closes between the check at
  `w5100s_ethernet_transport.cpp:768` and the error: `sendToClient()` then queues nothing
  (530), `txBusy()` stays false, and `poll()` does not look at the status while bytes are
  left. So a right token and commands behind the wrong one, if they arrived with it, are
  carried out without an answer, until the next pass finds the socket closed and lets the
  client go. The model has this window; the property leaves it out.
* `StaticAddressComplete` -- no sequence of requests over the four doors, refusals and
  restarts leaves a static mode without its addresses (with the two exceptions above).
* `KeepsAWorkingImage` -- one slot holds an image that answered a host and was marked
  valid (with the exception above).
* `TelemetryHonest` -- no sensor's value passes for fresher or truer than it is.
* `ParsersStayInBounds` -- both parsers write within their buffers and deliver what was
  announced.
* `StoredConfigBoots` -- what the RAK4631 saves is what its next boot takes, reachable and with
  a valid host name.
* `FormsFaithful` -- the decoders undo the encodings they are for and take nothing else
  (`DecodersFaithful`).
* `PressesAnswered` -- a press outside the debounce time moves the screen and keeps it lit
  for the whole wake time, and what `loop()` takes for a sleeping panel is dark
  (`DarkWhenAsleep`), with each of the three drivers.
* `AttemptsSpaced` -- receiver resets are a whole interval apart and keep the quiet time
  after a transmission, across the wrap of `millis()`.
* `LoopGoesOn` -- the liveness of the parts. `SendEnds`: an overdue answer leaves the queue.
  `NetworkRecovers`: a modem without an address goes on asking for one (`StationRecovers`,
  `EthernetRecovers`), an address that stays gets its servers (`EthernetServes`).
  `LoopKeepsTime`: a panel left alone falls asleep (`PanelSleeps`) and a radio left alone is
  reset again and again (`AgcComesRound`), across the wrap of `millis()` too.

Fairness in `network` is, for each part, that `loop()` goes on being called, that time
passes, and, for Wi-Fi, that the driver's event task runs: one thread each, which
nothing stops for good. Nothing is assumed of the chip, the driver's results, the peer,
the cable or the user; the properties state in their premises what has to stay so
(`<>[]`: a cable that stays in, an address that stays lost).

Liveness of the radio core, under its `Fairness`: weak fairness of the loop, the handlers, the air and
time (one thread that nothing preempts for good); strong fairness of `HostDone`,
because `loop()` drains the serial port without a budget and only a pausing host
lets it go on. There is no fairness for the chip's completions: they may be lost,
and the deadlines must do the work; nor for the host's requests, so what
`ReceiverComesBack` says is not the next request's doing. `StrayFlagsReleased` alone
speaks of a host that goes on asking, as the comment at 1045 expects of it.

* `EveryRequestAnswered`, `ReceiverComesBack`, `StrayFlagsReleased`.

Disagreements found (section `findings` of `PROJECT.json`): the guard's two timer
variables outlive the frame they were set for, so that a later preamble
(`radio_preamble`) or header (`radio_header`) is judged by an old time and aborted;
a late CAD_DONE is served as a reception and the buffer delivered twice
(`radio_late_cad`); standby and resume reach a chip that never came up
(`radio_dead`); a DFU request that is answered while an earlier restart still waits
(its own answer was lost) is dropped by `arm()`, and the modem reboots into the
application (`w5100s_http_dfu`); and a JSON request with a `network` object that omits the
addresses erases them, where `API.md:265` says that they are left unchanged
(`esp32_omitted`).

## 4. What is proved

For every set of frames and configurations, every airtime and bound that satisfies
the named assumptions of `RadioCore`, and any number of faults:

* `TypeCorrect` -- `Spec => []TypeOK`. `TypeOK` alone is not inductive because of the
  scan counter; `TypeInv` adds that a scan is only started while scans are left.
* `SafetyInvariant` -- `Spec => []SafetyInv`, the conjunction of `TypeInv` and of
  `Answering` (who is in which handler), `ChipModes` (which chip modes a point of
  the loop allows), `ConfigHeld` (radioTxReady vouches for the chip's
  configuration), `IrqsLatched` (in RX no flag but RX_DONE holds DIO1 up, and
  behind it there is a frame) and `PendingFrameVisible`. `IrqsLatched` and `ChipModes`
  are what makes the visibility of a pending frame inductive: without them a TX_DONE
  left over could hide the edge of the next RX_DONE.
* `HandlersAccounted`, `ConfigurationWhole`, `ReceptionsVisible` -- three of the
  properties TLC checks, as consequences.

What the host may rely on rests on four more invariants, each inductive relative to
`SafetyInv` (and, where said, to the first of them), in `RadioHostProofs`:

* `RadioPlaced` -- `RadioPlacement`, from `PlacementInv`. The property speaks of the points
  between requests; to carry it through the handlers, `Listening` says where the chip is
  inside the auto-CAD loop, and that no latched flag can make its next guard busy there
  (a busy guard leaves without `startReceive()`). `FrontEndHeld` ties the LNA to the
  front end's own state, which the property does not mention.
* `VerdictsHonest` -- `HonestVerdicts`, from `VerdictInv` and `PlacementInv`: while a handler waits,
  what the chip has latched is what this scan or transmission did (`ScansWitnessed`,
  `SendsWitnessed`).
* `FilesAgree` -- `PersistedStateMatches`, from `FilesFollow`, which says in the middle of an
  acknowledgement which of the three files is behind.
* `ReceptionsProtected` -- `TimedReceptionSurvives`, from `TimedInv` and `PlacementInv`. The timer
  may be ahead of the frame's header phase by up to a preamble, when the header flag of
  an earlier frame started it (`TimerRuns`). It therefore takes the bound of the header
  phase to cover preamble and payload: with less the guard gives the frame up before its
  end, as TLC shows. The code's bound does cover both (428).
* `ServedOnce` -- `ServedIrqIsReception` under the hypothesis `CadOverruns = FALSE`, from
  `ServedInv`: a frame goes from the air to the buffer to the host once, and outside the waits
  an edge announces a frame not handed over. Without the hypothesis it is false: that is
  the finding of `radio_late_cad`.

For every set of configurations and every `HalfRange` above 1, of `ConfigStore`:

* `StoreInvariant` -- `Spec => []StoreInv`: what `begin()` noted in RAM is still what the
  active page holds, the other page is empty or a neighbour, and before the verify
  the target page holds exactly the new record. `GenerationsAdjacent` alone is not
  inductive: it needs the active generation in RAM to be that of the page.
* `StoreTypeCorrect`, `StoreGenerationsAdjacent` -- its type and the property TLC checks.
* `StoreImplementsRegister` -- the refinement. `LaterLoaded` (of two neighbours `load()`
  takes the later), `ErasedLoadsSettled` and `WrittenLoadsWanted` carry it.

For every page size, capacity, header length, set of packages and number of
disturbances, of `OtaStagedWriter`:

* `WriterInvariant` -- what the header checks have let through so far (`HeaderParsed`),
  and that the readback hash is that of the first cells as they are now (`ReadInOrder`);
  the latter fails without the former, which bounds the cells by the capacity.
* `VerifiedImageComplete` -- `Spec => []VerifiedIsComplete`.
* `StreamInvariant` -- `Spec => []StreamInv`, relative to `WriterInv`: `Account`, `Hashes` and
  `Buffered` say where each byte taken is, `Phases` that written bytes end on a page or at
  the end and that each phase starts with the one before complete, `Contents` what the
  cells hold of an upload nothing disturbed (a page still to come is erased, where the
  flash does not erase it itself). `SoundPackageAccepted` is a conjunct: that no branch
  refuses a sound package follows only from all the others.
* `SoundAccepted`, `BytesAccounted`, `WriterTyped` -- the three invariants TLC checks, as
  consequences.
* `WriterImplementsUpload` -- the refinement of `StagedUpload`. A step that reaches VERIFIED is an
  abstract `Verify` because of `VerifiedIsComplete`; one that fails is a `Refuse` because of
  `SoundPackageAccepted`; every write of the flash stays in `DeclaredCells` because of `Account`
  and `HeaderParsed`; and `Restart` is `Begin`. Each step relies on both invariants, before
  it and after it.

For any number of address bits, any sample addresses and masks and any text and label lengths, of `RakSettings`:

* `SettingsInvariant` -- both copies are valid and normalised. It is inductive because
  validation and normalisation are what every handler ends in, a failed save included.
* `SettingsTypeCorrect`, and `SettingsBoot` -- `StoredConfigBoots`. Three facts carry it.
  `MaskIsPrefix`: a mask with `(inverted & (inverted + 1)) == 0` is a run of leading ones, so
  that two valid addresses are two inner hosts of one subnet (`ValidIsReachable`).
  `SanitizedIsLabel`: what `sanitizeHostname()` returns is a label; and `LabelIsSanitized`: it
  returns a label unchanged, so that the boot that normalises again finds what was saved.
  Both are inductions over the text. The library's induction theorems cannot be
  instantiated here, as their parameter is an operator; `Upwards` is induction for a
  property given as a set of numbers, from the least number that is missing
  (`LeastNumber`, from the well-founded order of the naturals).

For every number of values and chunks and all deadlines, of `W5100sHttp`:

* `ServerInvariant` -- `Spec => []HttpInv`. None of the properties is inductive alone: that
  the acknowledged chunks are those behind the offset (`BetweenChunks`), one more once
  SEND_OK is latched (`ChunkOut`), none without an answer (`NoAnswer`), makes `TypeOK` and
  `DfuOnlyWhenHeard` so; that DFU is armed only under its own answer or after it
  (`Transitions`) makes `RestartStaysArmed` so.
* `ServerTypeCorrect`, `CommandsSeparate`, `OwedRestartArmed`, `DfuFollowsAnswer`,
  `SavesKept` -- every safety property of the run `w5100s_http`.

For any addresses and any number of sessions and callbacks, of `WifiRecovery`:
`WifiInv` is the type with `GoodServer` (what holds of the TCP server by itself), `StaleKnown` (a
stale session is on the address the manager has on record while the bits are pending,
and on the one it has handed over afterwards: without the first half
`StaleSessionDropped` is not inductive) and `GoodPortal` (the access point against the first
success). From it `WifiTypeCorrect`, `StaleSessionAlwaysDropped`,
`SessionStateNeverShared` and `SetupPortalStaysClosed`.

Of `Esp32Config`, for any `MaxNamed`: `StaticAddressComplete` is inductive together with the type
(`ConfigInv`), because `Excuse` speaks of both copies; the work is in the lemmas about
overrides and partial saves. From it `StaticAddressAlwaysComplete`. Of `Esp32Update`: `UpdateInv`
adds to `KeepsAWorkingImage` which images a slot marked valid can hold (`ValidAnswers`), what
runs (`RunningBootable`) and where an upload writes (`UploadPlace`); from it `WorkingImageKept`.
Both have their type theorem (`ConfigTypeCorrect`, `UpdateTypeCorrect`), as has `Ethernet`
(`EthernetTypeCorrect`), whose other properties are liveness.

For frames of any number of chunks, of `W5100sTcp`: `TcpInv` says of every outcome of the
send machine (`GoodOutcome`) that the wire follows the queue (`WireFollows`) and that a
refused client whose socket is open is still busy with its error (`RefusalOK`); a socket that
closes under an outcome leaves it good (`ClosingGood`), and a batch of frames is good frame by
frame (`BatchGood`). From it `TcpTypeCorrect`,
`FramesStayWhole` and `RefusedClientAwaitsClose`.

For any radix, capacity and limits, of `Parsers`: `FrameInv` and `GoodRequest` say in each state of
the automata how far they have got and how much room is left; from them
`ParsersTypeCorrect` and `ParsersAlwaysInBounds`.

For any intervals in the order of the code's, any ADC scale and any line length, of
`Sensors`: `SensorsInv` (`SensorsTypeCorrect`) bounds each sensor's true age by the age the code
keeps, says what half a batch or half a line holds, and from it `TelemetryAlwaysHonest`
follows. The work is in `BatterySound`: the voltage reported is a rounded mean, scaled, and
lies between the least and the greatest plausible voltage because the sum lies between
the count times the least and the count times the greatest plausible reading.

For any intervals that fit into the clock, of `AgcSchedule`: `InTime`, that no difference the code
takes modulo `AgcWrap` runs ahead of the true time, is inductive, and `AttemptsAlwaysSpaced` follows
step by step. Of `Panel`: `PanelInv` has the type, `DeadlinesAhead` (where `oledWakeUntil` and
`prgIgnoreUntil` lie relative to the last press, before and after the wrap) and `Shows`;
`PressesAlwaysAnswered` and `PanelDarkWhenAsleep` follow. `PanelAssumption` keeps the wake time below
half the clock, as `(int32_t)` differences need.

Each proof has one lemma per action or group of actions; `ChipLemma`, `ApplyLemma`, `StartReceiveLemma`,
`GuardLemma` and `SettleLemma` state once what the helpers of the radio core do.

Of the composition itself (`MCNetwork`), for all values of all constants, in
`NetworkProofs`: it starts every component in one of its initial states
(`ComponentsStart`) and every step of it is, for each component, a step of its own or
none (`ComponentsMove`). Hence the conjunction of the twelve inductive invariants is
inductive (`NetworkInvariant`), and from it `NetworkTypeCorrect`, `NetworkSafe` (the ten state
invariants of the run but `FormsFaithful`) and `NetworkStepsSafe` (`ImplementsRegister`,
`AttemptsSpaced`, `PressesAnswered`). So all that the run `network` checks of safety, decoding
aside, is proved of the very specification that it runs.

Only model-checked:

* `FormsFaithful`: the decoders are folds over sequences cut at separators, and what they
  promise is the inverse of an encoding. Its proof would need the algebra of the community
  modules' `FoldLeft` and `FlattenSeq`, which are defined through a recursive function over
  CHOOSE and for which the library has no theorem;
* every liveness property (`EveryRequestAnswered`, `ReceiverComesBack`, `StrayFlagsReleased`,
  `UploadEnds`, `ServerGoesOn` with its parts `RestartComes` and `ClientLetGo`, `LoopGoesOn` with its parts `SendEnds`,
  `NetworkRecovers` and `LoopKeepsTime`), and with
  them fairness and ENABLED;
* the refutations, each of which is a behaviour TLC shows.

## 5. Plan

Done: the radio core, the configuration store and its settings, the OTA writer, the
management server, both transports, Wi-Fi recovery, settings and updates of the ESP32,
parsers and decoders, sensors, panel, Ethernet and the AGC schedule. Left:

1. The two TCP servers as refinements of one session protocol, and the radio core's answers
   as one of a host protocol, each like the store's register.
2. A proof of `FormsFaithful`, on decoders written as recursive functions.
3. The noise floor's sampling beside the AGC schedule.
4. Records of another configuration schema in `ConfigStore`, once the firmware has a
   second one.

Not modelled, and why:

* what the displays and the web pages show, board tables and the PMU: text, drawing and
  register writes without state that anything reads back;
* the comparison of HTTP credentials and the reading of Host names: sequential functions of
  strings, unit-tested;
* where the bounded reader's pointer stands in the chip's buffer: arithmetic modulo the
  buffer's size with nothing concurrent;
* the PA mode's DAC writes, statistics and noise floor: nothing in the models reads them;
* build and release scripts: they run on the developer's machine.
