# A TLA+ model of the sensor node and the HMI node

The repository is firmware for two ESP32 boards. The *sensor node* reads I2C and 1-Wire sensors,
drives GPIO expanders and a PWM controller, and serves a WebSocket. The *HMI node* finds it, connects,
shows its telemetry on a touch screen and sends commands. Both run FreeRTOS: the interesting
behaviour is in the tasks that share state, in the connection that comes and goes, and in counters
and caches at their limits. This directory holds TLA+ modules translated from the code, the TLC
configurations that check them, and proofs that TLAPS checks.

## 1. Inventory

| Component | State | Operations | Shared with |
|---|---|---|---|
| WebSocket server, `common/net/ws_server.c` | `s_clients` (fd, last_seen, awaiting_pong, handshake_verified, last_counter), `s_client_lock`, the nonce cache | `ws_handler`, `ws_close_hook`, `ping_timer_cb`, `ws_server_send`, start/stop | httpd task, timer task, `app_main` |
| Frame security, `ws_security.c`, `totp.c` | `tx_counter`, per-client `last_counter` | encrypt, decrypt, verify handshake, verify TOTP | server and client |
| WebSocket client, `ws_client.c` | `s_connected`, `s_reconnect_delay_ms`, counters, header block, one-shot timer | event handler, `reconnect_timer_cb`, `ws_client_send` | websocket task, timer task, UI task (no lock) |
| Sensor data model and publishing, `data_model.c`, `app_main.c` | `current`, `last_published`, sequence number, two buffers | setters, `should_publish`, `increment_seq`, `build` | `t_io`, `t_sensors`, `app_main` (mutex) |
| IO task, `t_io.c` | command queue, `s_pwm`, `s_pwm_freq` | apply, sample, report | httpd task through the queue |
| Sensor acquisition, `t_sensors.c`, SHT20 and DS18B20 drivers | filters, 1-Wire device list, pending conversion | read, scan, convert | I2C bus with `t_io` |
| I2C bus and multiplexer, `i2c_bus.c`, `tca9548a.c` | lock, failure count, cached channel | command with retries, recovery, select | `t_io`, `t_sensors` |
| HMI data model, UI task, screens | last update and its flag, widgets, preferences, connection and CRC flags | set/get update, draw, controls, preferences | websocket task, UI task (mutex) |
| HMI network, `hmi_node/main/net/ws_client.c` | discovery cache in NVS, URI, command sequence | resolve, start, purge, send command | net task, UI task |
| Preferences, `prefs_store.c` | NVS blob | load, save, erase | UI task |
| Wi-Fi manager, `wifi_manager.c` | event group, `s_connected`, back-off, timer | event handlers, start, provisioning | event task, timer task, caller |
| OTA, `ota_update.c` | stored version, two slots, attempts | mark valid, download, validate, store, reboot | its own task |
| Protocol, `messages.c` | none | encode, decode, checksum | both nodes |
| base64/base32, ring buffer, certificates, panel, touch | none of their own, or device registers | conversions, I/O | — |

How they interact: `t_io` and `t_sensors` write the data model; the loop of `app_main` publishes it
through `ws_server_send`; the httpd task delivers commands to the queue of `t_io`; the websocket task
of the HMI puts updates into a one-place mailbox that the UI task empties; the UI task sends commands
directly through `ws_client_send`.

What is hard: `ws_handler` uses a client's slot with no lock while the timer and the broadcast drop
clients; `httpd_sess_trigger_close` is queued, so descriptors live on after their slot is free; the
timer samples the tick before it waits for the lock; frame counters must restart together at both
ends over disconnections and reboots; the nonce cache is small, lazily expired and stamped with a
wrapping tick; the reconnect timer is one-shot; publishing is three critical sections; a queue that
is full, an I2C transfer that fails and an update nobody received are all silent; Wi-Fi start-up waits
on bits that two event handlers and itself set and clear; an update of the firmware may be cut short
anywhere; preferences and the cached endpoint are several writes to one partition; a driver trusts a
cached multiplexer channel over recoveries of the bus, and waits for conversions with a tick that wraps.
`PROJECT.json` lists these hazards with their lines and the properties aimed at them. Some of them the code does
not escape: the property next to them names the case as an exception, and so does not catch it. Their notes
in `PROJECT.json` say which exception it is; section 3 gathers them.

What makes each part correct, in one line each:

- server: the table describes the open sessions and nothing else; a late write reaches no other
  client; no session is left open without an entry; the replay state is exact;
- keep-alive: a dead peer is dropped in bounded time, a live one is not;
- authorisation: a nonce passes twice only if the cache could not hold it, and is refused only if it
  passed; the TOTP window is symmetric and safe near time 0;
- link: no frame that was sent once is taken for a replay; the back-off doubles and saturates; the
  HMI comes back;
- telemetry: the screen ends up right; a command that was not lost ends up in force;
- Wi-Fi: a node with credentials and a network gets online and stays, and its status says so;
- OTA: some valid image can always be booted, attempts are spaced as documented, a version is not
  installed for ever;
- discovery: a URI is used with the name it was announced with, an endpoint that failed is not taken
  from the flash again;
- preferences: what is shown, in force and kept agree, and a restart brings back what was kept;
- acquisition: a reading belongs to its sensor and to a finished conversion, and readings resume;
- protocol: a message is never misread.

## 2. Modules

| Module | Models | Runs |
|---|---|---|
| `WsServer` | client table, `ws_handler`, close hook, `ping_timer_cb`, `ws_server_send` | `ws_server` |
| `WsKeepAlive` | `WsServer` with a history variable for how long a peer really was silent | `ws_keepalive` |
| `WsAuth` | `authorize_request`, nonce cache, TOTP | `ws_auth` |
| `Session` | abstract: what the encrypted link promises of a session | (a property of `ws_link`) |
| `WsLink` | HMI client, counters of both ends, reconnection | `ws_link` |
| `Feed` | abstract: the screen shows whole snapshots of its source, in their order | (a property of `telemetry`) |
| `Telemetry` | commands, IO task, data model, publishing, mailbox, controls of the screen | `telemetry` |
| `Wifi` | `wifi_manager.c` and the tasks that call it | `wifi`, `wifi_timeout` |
| `Ota` | `ota_update.c`, the slots, rollback | `ota` |
| `Settings` | abstract: what the HMI promises of the user's preferences | (a property of `hmi_store`) |
| `Prefs` | settings form, UI callbacks, data model, `prefs_store.c` | `hmi_store` |
| `Discovery` | resolution, cached endpoint, start of the client | `hmi_store` |
| `HmiStore` | `Prefs` and `Discovery` as two tasks over one flash partition | `hmi_store` |
| `Acquisition` | sensors task, I2C bus, multiplexer, SHT20, DS18B20, 1-Wire bus | `acquisition` |
| `Proto` | encoders and decoders of `messages.c`, JSON and CBOR | `proto`, `proto_roundtrip` |
| `Doubling` | powers of two, for the back-offs of `WsLink`, `Wifi` and `Ota` | — |
| `*Proofs` | theorems about the module of that name; `WsServerProofs` has those of `WsKeepAlive`, `WireProofs` those of `WsLink` and `Proto`, `HmiProofs` those of `Telemetry` and of `HmiStore`, `Prefs` and `Discovery` | — |

The `MC*` modules only define symmetry sets and the values of constants a `.cfg` cannot write. Definitions whose comment begins with *Fault* are not
part of any specification: each is a plausible mistake in the code, and `PROJECT.json` ("mutants")
says which definition it replaces and which property then fails.

### WsServer

`clients` is `s_clients`; `lock` is `s_client_lock`, recorded only while a task keeps it over several
steps (a section that takes and gives it at once is one step with the guard `lock = "free"`).
`handler`, `timer` and `bcast` are program counters of the httpd, timer and publishing tasks.

The frame branch of `ws_handler` (lines 746-812) takes no lock, so *each access to the slot it found
is a step*: `FrameArrives` (receive and `find_client`), `Touch` (write `last_seen`), `Dispatch*`,
`Decrypt`, `Deliver` (the callback), `Clear` (write `awaiting_pong`). `Decrypt` reads, compares and
writes `last_counter` in one step: nobody but the httpd task writes it while a client is registered,
and a drop in between leaves the slot free either way. `TimerExpires` samples `now`, `TimerLocks`
waits for the lock, then one step per slot: `TimerChecks`, then `TimerDrops`, or `TimerPings` or
`TimerPingFails`, and `TimerFlags`. `SendLocks`, `SendNext`, `SendFails`, `SendUnlocks` are the
broadcast.

`sess` and `closing` are external: esp_http_server, modelled from how the code uses it. A session is
closed by its peer, by a handler that returns an error or by a close that was queued; each way runs the
close hook in the httpd task before the descriptor can be reused. A queued close is assumed not to get
lost. PING and PONG frames are assumed to reach `ws_handler`, as its code expects; with
`handle_ws_control_frames` unset in the URI registration (lines 1023-1028) esp_http_server may answer
them itself.

### WsKeepAlive

Adds `silent` (ticks since a peer was heard) to `WsServer` without changing it, so that `last_seen` and
`awaiting_pong` can be compared with what happened. `TimerLag` bounds how long the callback may wait
for the lock: the run has one tick of it, so that a frame may be handled between the sampling of the
tick and the comparison.

### WsAuth

One request is one step: only the httpd task runs `authorize_request`. The HMAC and the token are
inputs. `Purged` is the expiry the scan performs on the way, up to the entry that matches. `log` keeps
the nonces stored with their real age, against which the wrapping `Age` is judged. `MaxIdle` says that the cache
is gone through at least once before the 32-bit tick comes round (49 days).

### Session, WsLink

`Connected` and `ResetCounters` are two steps because the UI task sees `s_connected` before the
counters are reset; `SendReads` and `SendWrites` are two because `ws_security_encrypt` increments
`tx_counter` without a lock. esp_websocket_client is external: after a DISCONNECTED event it stays
down until `client_start`. A connection delivers in order and loses what is in flight when it ends.

`Session` knows a session, the numbers of the frames on their way and the number each end took last: frames are
taken in order and none twice, one that is sent is newer than those before it, and a session lasts until the
network fails. A session may be spoiled, before its first command only; then its commands may have any
number and the sensor may end it. `WsLink` implements it (`SessionKept`): there is a session while the library is open,
it is spoiled if a send overlapped its CONNECTED event, and an HMI that has yet to reset its counters has taken
nothing, whatever `s_rx_counter` still says.

### Feed, Telemetry

One PWM channel and the frequency, one GPIO port, one filtered reading. A command is applied register
by register, each I2C transfer may fail, and its result is ignored as in the code. `PubDecides`, `PubCounts`,
`PubBuilds`, `PubSends` are the three critical sections and the send of the loop in `app_main`.
`data_model_build` does not fail in the model: an update is bounded far below its 2048-byte buffer.
`StoresUpdate` and `RejectsUpdate` are the two outcomes of `handle_sensor_update`. `screen` is what
`ui_screens.c` last drew and where its widgets stand: `UserSets` moves a widget and sends (or fails
to), `ShowsUpdate` and `ShowsAgain` move the widgets without sending, as `s_updating_ui` makes them,
and `UserReleases` is `LV_EVENT_RELEASED`, which sends the slider's *present* value. The connection and
CRC badges are left out.

`Feed` has a source, the snapshots on their way and the one shown; it may lose snapshots and neither tears
nor reorders them. `Telemetry` implements it (`SnapshotsInOrder`): the source is `current`, on their way
are the update in the HMI's mailbox, those in the connection and the one being sent (`Snapshots`), and
shown is what `ui_screens.c` last drew. `PubBuilds` takes a snapshot; an update that overwrites the mailbox, one that cannot be
parsed, a failed send and the end of a connection lose some; `ShowsUpdate` shows.

`SettledIsRight` is the safety side of `ScreenCatchesUp` and `CommandsTakeEffect`: with nothing on its way, the
screen and the outputs *are* right, but for what `missed` and `lost` record.

### Wifi

`pc` follows `wifi_manager_start`: initialisation and provisioning, `StartDriver`, `ClearsBits`, the
wait. The order matters: the bits are cleared *after* the driver was started. The event queue, the
station and the network are external; a call of `esp_wifi_connect` while connecting is ignored, a
disconnect posts an event. `Fails` is what the caller does with an error: the sensor node's
`ESP_ERROR_CHECK` restarts it, the HMI's `net_task` waits and calls again, and the driver stays up.
`WaitTimesOut` is taken for a station that makes no progress: the time-out (20 s) is assumed longer
than the steps of one that does. `xEventGroupWaitBits` returns all bits of the group on a time-out,
which is why its guard asks for `bits = {}`.

### Ota

`cfg` ranges over both nodes, with and without a validation callback and automatic restart. An image
is good, crashes soon after boot, or is *deaf* (never gets a network). `slots`, `run`, `boot` are the
partitions and the bootloader with rollback: a new image that restarts before it was marked valid is
given up for the other slot. `Fault` bounds failures of flash, NVS and power; a failure of the network
is free and bounded by `MaxRetries`. `installs` and `forgot` are history.

### Settings, Prefs, Discovery, HmiStore

`Settings` has two variables, the choice in force and the one kept. `Prefs` implements it: in force is
the data model's copy, kept is what `hmi_prefs_store_load` and `sanitize_preferences` would make of the
blob in flash. `PrefsKept` is that refinement, checked over failing writes, restarts between any two
steps and a partition that `ensure_secure_nvs` erases. `form` and `active` are the widgets and the
preferences the screen was drawn with; LVGL selects the first entry when a drop-down is given its
options again.

`Discovery` asks mDNS, falls back to the cached endpoint and then to the configured name. The cache is
three keys; `StoresService` and `Purges` may stop after each. The age of an entry is a difference of
two 32-bit clocks that start at boot. `HmiStore` runs both beside each other and makes a restart and an
erased partition common to both.

### Acquisition

`sensors_task` round by round. A transfer of `i2c_bus.c` holds the mutex over all its attempts and is
one step, `Transfers`, which counts consecutive failures and recovers the bus at the threshold; the IO
task's transfers (`IoTransfers`) come in between. `mux` is where the TCA9548A really is, `cache` what
`tca9548a_select` believes; a reading carries the sensor it came from. The DS18B20 part has the scan, the
conversion with its two ways of waiting (polling the bit, and the time with a wrapping tick), and the
reading, whose entry is `fresh`, `stale`, or `other` after a disturbance. The boards of the run have
two SHT20 behind the multiplexer, one without, and none with two DS18B20: ambient sensors and 1-Wire
devices share nothing but the time a round takes, of which every length is tried.

### Proto

Every message over small value sets goes through an encoder and the decoder of the same format. A
JSON payload is the tree cJSON builds, or unparsable; a CBOR payload is the sequence of its items as
the decoder walks it. `%.2f` rounds. tinycbor is external: copying a text and leaving a container both
go on to the next item; copying a text from an item that is none, and an advance at the end of a container,
break its preconditions. `asserts` tells whether it was built with its assertions, as ESP-IDF builds it unless
told otherwise: then either stops the node (`Stopped`). Without them anything may come of the first, and the second
is an error that changes nothing. The checksum is whether the payload arrived whole; zero stands for none.

## 3. Runs

| Run | Result | What it shows |
|---|---|---|
| `ws_server` | holds | table, sessions, late writes and replay state agree: 2 descriptors, 2 slots, counters to 2, descriptors and slots reused (3.2 million states) |
| `ws_keepalive` | holds | `DeadClientEvicted`: at most 4 periods of silence and the lag; `TimeoutOnlyAfterSilence`: nobody else is timed out but who was heard within the lag (1.4 million) |
| `ws_auth` | holds | `ReplayNeedsFullCache`, `TotpTolerance`, `OnlyReplaysRefused`: nonce cache of 2 with 3 nonces over several wraps of the tick; TOTP window of 1 from time 0 |
| `ws_link` | holds | counters, back-off; `SessionKept` (refinement of `Session`); `ReconnectsUnlessRestartFails`: the HMI comes back as long as no restart failed (0.1 million) |
| `telemetry` | holds | `SettledIsRight`, `SnapshotsInOrder` (refinement of `Feed`), `ScreenCatchesUp`, `CommandsTakeEffect` (1.1 million) |
| `wifi` | holds | `LinkLookedAfter`: whatever the order of events, timer and start-up, a station that is down has a timer running; `StatusFollowsLink`; `OnlineOnceProvisioned` (24 thousand) |
| `wifi_timeout` | violated | `StartReturns`: with stored credentials a time-out is not recognised and the start waits for ever |
| `ota` | holds | `SafeToBoot`, `BackoffAsDocumented`, and with the validation callback `InstalledOnce` and `ComesToRest` (2.1 million) |
| `hmi_store` | holds | `SettingsAgree`, `PrefsKept` (refinement of `Settings`), `UntouchedKept`, `PairFromOneAnswer`, `FailedNotReused` (5.2 million) |
| `acquisition` | holds | `ReadingIsOwn`, `ReadingIsConverted`, `ReadingsResume` (0.5 million) |
| `proto` | holds | `NeverMisread`: JSON is exact but for rounding and a NaN, CBOR for simple commands unless an assertion of tinycbor stops the node (0.8 million) |
| `proto_roundtrip` | violated | `RoundTrips`: no CBOR sensor update is read back, with assertions no CBOR command with a part, nor a JSON update with a sensor never read |

The two violated runs check sentences of the repository; the findings in `PROJECT.json` quote them.

**What the models show besides.** Properties of passing runs name their exceptions; these are worth a
reader's attention:

- keep-alive: with a lag of one tick between reading `now` (ws_server.c:690) and taking the lock, a
  client heard in that tick has a huge unsigned silence and is timed out; a PONG handled between the
  send of the PING and the write of `awaiting_pong` (:708) is forgotten;
- link: a command sent while CONNECTED is handled (ws_client.c:317-320) uses the old counter, and the
  next one is taken for a replay; one failure in the one-shot timer's callback (:383) leaves the HMI
  disconnected for good. README.md:382 promises recovery "in <5 s", while the back-off grows to its
  maximum; time is not measured in `WsLink`;
- telemetry: a client that connects after the last change is sent nothing until the next one
  (app_main.c:103); a sensor that stops answering keeps being shown as valid, for validity is not compared
  (data_model.c:143); an update drawn between the last movement and the release of a slider makes the
  release send the old value over the user's (ui_screens.c:367-383); a switch shows what was asked
  of a pin that is an input; a command sent while disconnected is lost without a word;
- OTA: neither node sets the validation callback that documentations/release_and_testing.md:161 asks
  for, so the same image is installed after every boot; the image is marked valid before connectivity
  is known on the HMI;
- discovery: a sensor that moved is not looked for again by a running HMI (ws_client.c:408-416); the
  age of the cached endpoint (:194) is relative to a boot, so that after a restart an old entry may seem new or expired;
- preferences: redrawing the texts selects the first language in the drop-down (ui_screens.c:1010-1012)
  and the next Apply takes it; `ssid` and `mdns_target` are stored and never used;
- acquisition: a select that failed after it moved the multiplexer labels readings with the wrong
  sensor; the number of DS18B20 entries never decreases; the scratchpad's checksum is not verified;
  a rescan during a conversion brings in devices that never started one; over a wrap of the tick a
  scan may be skipped (t_sensors.c:183);
- protocol: with tinycbor's assertions every CBOR command with a part stops the sensor node, at the advance
  that follows the leaving of the part (messages.c:428, :447);
  a test of `test_messages.c` expects `gpio_write.port` 1 from an initialiser that gives 0.

**Hazards the properties exempt.** The code does each of the following, and a property that holds excludes it by
the condition given; these properties are no evidence that it does not happen.

| What the code does | Property | Excluded by |
|---|---|---|
| a client heard after the tick was sampled is timed out (ws_server.c:699) | `TimeoutOnlyAfterSilence` | silence below `TimerLag` |
| a PONG handled before `awaiting_pong` is written is forgotten (ws_server.c:708) | `TimeoutOnlyAfterSilence` | it speaks of silence, not of PONGs |
| a failed restart ends the reconnection (common/net/ws_client.c:383) | `ReconnectsUnlessRestartFails` | `retry.failed` |
| a full queue, a failed PWM transfer, a release that sends an older value (t_io.c:138, :70, ui_screens.c:382) | `SettledIsRight`, `CommandsTakeEffect` | `lost` |
| an update published to nobody (sensor data_model.c:187) | `SettledIsRight`, `ScreenCatchesUp` | `missed` |
| without a validation callback an image is installed at every start (ota_update.c:132) | `InstalledOnce`, `ComesToRest` | `cfg.validate` |
| a cached endpoint is written or purged in part (hmi ws_client.c:232) | `PairFromOneAnswer`, `FailedNotReused` | `torn` |
| redrawing resets the language, which Apply takes (ui_screens.c:1010) | `UntouchedKept` | `f = "lang"` |
| a select that failed had moved the multiplexer (tca9548a.c:29) | `ReadingIsOwn` | `slipped` |
| a rescan or a disturbance during a conversion (t_sensors.c:187) | `ReadingIsConverted` | `disturbed`: the entry is `other` |
| a scan put off by the wrap of the tick (t_sensors.c:183) | `ReadingsResume` | `ScanSkipped` |
| damage under a checksum of zero (messages.c:362) | `NeverMisread` | `crc = 0` |
| a reading that was never taken, a second part, an assertion (messages.c:55, :428) | `NeverMisread` | `AllRead`, `SimpleCommand`, `Stopped`; `RoundTrips` does not exempt them and is violated |

**Bounds.** Two descriptors and two slots are enough for every relation the invariants state between
two clients, for reuse of either, and for a full table with one descriptor waiting (`ws_keepalive` has
one slot for two descriptors). Two counter values distinguish newer, equal and older. `TickMod` is
small so that ticks wrap; `WideTicks` keeps it larger than any silence the keep-alive can meet, as
2^32 is. The nonce cache is smaller than the set of nonces so that eviction happens. The back-off runs
1, 2, 3, 3: doubling and saturation. In `Telemetry` the queue has one place and two inputs happen, so
that a full queue, an overwritten mailbox and a change between decision and snapshot all occur; the
sequence number wraps at 3. `Wifi`: four changes of the network or restarts allow an outage, a network without
addresses, a restart and a recovery; the back-off is cut at its third value. `Ota`: three
faults on top of free network errors, three attempts, a back-off of 5, 10, 12. `HmiStore`: two failures or moves,
an uptime of two units against a time-to-live of one, so that entries expire by age and because
the clock is behind, and restarts without bound; `ClockWrap` is larger than uptime and time-to-live together, as 49
days are. `Acquisition`: two faults; `TickWrap` of 8 with a scan every 3 ticks and conversions of 2, so
that both comparisons meet the wrap; recovery at the code's threshold of 3; two attempts per measurement
instead of five, a soft reset after the second. `Proto`: two integers, one reading that rounds, at most two
ambient sensors and one probe; an array of one duty stands for sixteen.

**Symmetry** is used for descriptors in `ws_server` and `ws_keepalive` and for nonces in `ws_auth`;
those runs check no liveness property.

**Deadlock** is checked except where the system may come to rest: a node that is online and a network
that stays (`wifi`), an OTA task that has ended (`ota`), a connected HMI with no failures left
(`hmi_store`), a message that was decoded (`proto`).

**Fairness.** `WsServer`, `WsKeepAlive`, `WsAuth`: none, they check safety only (`DeadClientEvicted` is a
bound in ticks: the guard of `Tick` makes the timer run within `TimerLag` of its expiry, as the timer
service of FreeRTOS does at its priority). `WsLink`: weak fairness of `net_task`'s start, of the websocket task's events and of
the timer; nobody is obliged to send, to publish or to end an outage. `Telemetry`: weak fairness of
each task's steps, which an infinite loop with a delay justifies, and strong fairness of `IoSamples`:
a read of the pins repeated every 50 ms succeeds at times. Connections, disconnections and inputs are
not fair; the properties are conditional on a session that lasts. `Wifi`: weak fairness of the event
task, the timer, the starting task and the station, which answers every attempt one way or the other;
no fairness of the user, of the network or of restarts. `Ota`: the task runs. `Acquisition`: the task runs and a
faulty line does not stay faulty; faults are bounded, not fair. `HmiStore`, `Proto`: none, safety only.

## 4. Proofs

Each `*Proofs` module proves an invariant that is inductive, and from it the properties that the run of
the component checks on a small instance, for every value of the constants that the component's
`ASSUME` allows. The inductive invariant is defined at the end of the component's own module, where TLC
can check it too (it does, on the instances of section 3).

| Module | Inductive invariant | What is proved from it |
|---|---|---|
| `WsServerProofs` | `SafetyInv` | `TypeOK`, `UniqueFds`, `RegisteredSessionsOpen`, `HandlerSlotOwned`, `NoOrphanSession`, `ReplayStateExact` |
| `WsServerProofs` | `KeepAliveInv` | `DeadClientEvicted`, `TimeoutOnlyAfterSilence` |
| `WsAuthProofs` | `AuthInv` | `AuthTypeOK`, `ReplayNeedsFullCache`, `TotpTolerance`, `OnlyReplaysRefused` |
| `WireProofs` | `LinkInv` | `LinkTypeOK`, `SensorFramesAccepted`, `RejectOnlyAfterOverlap`, `BackoffDoubles`, and that `WsLink` implements `Session` (`SessionKept`) |
| `WireProofs` | `ProtoInv` | `NeverMisread` |
| `WifiProofs` | `WifiInv` | `WifiTypeOK`, `LinkLookedAfter`, `StatusFollowsLink` |
| `OtaProofs` | `OtaInv` | `OtaTypeOK`, `BackoffAsDocumented`, `SafeToBoot`, `InstalledOnce` |
| `HmiProofs` | `TelemetryInv` | `TelemetryTypeOK`, `SettledIsRight`, and that `Telemetry` implements `Feed` (`SnapshotsInOrder`) |
| `HmiProofs` | `HmiStoreInv` | `HmiStoreTypeOK`, `SettingsAgree`, `PairFromOneAnswer`, `FailedNotReused`, `UntouchedKept`, and that `Prefs` implements `Settings` (`PrefsKept`) |
| `AcquisitionProofs` | `AcquisitionInv` | `AcquisitionTypeOK`, `ReadingIsOwn`, `ReadingIsConverted` |

`DoublingProofs` has the lemmas about powers of two, and the least number principle, that the others use. `AuthTypeOK`, `LinkTypeOK` and `HmiStoreTypeOK` are
proved and not listed among the properties of a run: what those runs check says more.

**Assumptions.** Sizes, bounds and periods are positive numbers, and markers such as `NoFd`, `None` or
`Garbage` are no value they could be taken for. Beyond that:

- `WsServer`: a pong timeout no longer than the ping interval, a lag shorter than it. `WsKeepAlive`:
  `WideTicks`, a tick modulus larger than the silences that occur;
- `WsAuth`: a tick modulus larger than the time-to-live and the longest time without a request together;
- `Telemetry`: a queue and a connection hold something, the sequence number has two values at least, and NaN
  is no reading;
- `Wifi`: the cap of the back-off is the initial back-off doubled some number of times, as 32 s is 1 s
  doubled five times (`wifi_manager.c` compares before it doubles: another cap would be passed);
- `Ota`: the image a node is delivered with works;
- `Prefs`: a blob of another size or version, or none, is told apart from one that was stored;
- `Proto`: the markers of a rejection, of a node that was stopped, of a misuse and of text that is no JSON are no message;
- `Discovery`: `ClockWrap` exceeds uptime and time-to-live together;
- `Acquisition`: more than one ambient sensor needs the multiplexer; ROM codes differ; the wrap of the
  tick is at least twice a conversion and a round of the task, which is what the signed comparison of
  ticks needs.

**Why the invariants are what they are.**

`SafetyInv` (`WsServer`) adds to the six properties: `LockHeld`, a task is inside its loop exactly while
it holds the lock (otherwise the timer and the broadcast could both be freeing slots); `TimerSlotTaken`,
what the timer decided about a slot stays true until it acts; `HandlerSession`, the session the httpd task
works for is open; `NoOtherSlot`, while the handler works on a slot no other slot has its descriptor,
which is what makes an unlocked pointer harmless: registering the descriptor again takes the httpd task,
which is busy; `FreshBeforeUpgrade`, nothing was delivered before a handshake. `FindUnique` and
`DropUnique` turn the first-match search of the table into "the slot that has it".

`KeepAliveInv` measures a client's silence against `SinceRound`, the time since the expiry whose callback
was last through with its slot: it exceeds it by `Allowance` at most, less than one period if it was found
heard, one more if it was pinged then, and one more once `ws_handler` may have wiped the flag out
(`MayClear`). The largest sum is the bound of four periods and the lag. `SilenceSeen` says that `last_seen`
tells the real silence over any wrap, `TimerInTime` that the tick the callback sampled is no older than
the lag; their sum over three ticks (`ElapsedSum`) is what a comparison with a sampled tick shows.

`AuthInv` matches the cache and the log of stored nonces in both directions: a live entry has its age in
common with its nonce (`LiveIsLogged`), and a nonce of the log is live or was crowded out (`LoggedIsLive`).
When a full cache gives up its oldest entry, the nonces of the other entries and the new one are a crowd
of at least `CacheSize`: an injection from the entries into the log shows it (`Crowded`). `AgesUnwrapped` keeps the
unsigned age of an expired entry from looking young. `TickNotBlocked` shows that the history in the model
never holds the clock up.

`LinkInv` orders the counters of sender, frames in flight and receiver in each direction
(`ToSensorInOrder`, `ToHmiInOrder`, over ascending sequences), with the case of a connection whose counters
are not reset yet, and ties the delay to the failures counted (`DelayFollowsFails`). The refinement of
`Session` has one lemma for each step that is not a stutter: connecting opens, a send that begins before the counters are reset
spoils, a send and a publication are newer than what they follow (`NewerThanAscending`), the HMI never skips (`DataTakes`),
a rejection is a refusal of a spoiled session (`RejectRefuses`), an outage ends it.

`WifiInv`: the two properties speak of an empty queue of events, and become inductive when they are said of
any queue: the last report in it, or the status if there is none, says what the link is (`Tells`), and a
station that is down has the timer running or an event pending that starts it (`WillBeLookedAfter`).

`OtaInv` knows which slot is written while which one runs (`SlotsInOrder`) and which of the three records of
a version, the stored one, the one read and the one about to be written, keeps it from being installed
again (`RecordsKept`).

`TelemetryInv`: `SettledIsRight` speaks of a moment when nothing is on its way, and becomes inductive when it
is said of every moment. `PublishedIsComing` says where the last published snapshot is: it is drawn, or it is
the last of those on their way, unless it was missed. `CommandIsComing` says the same of commands: the *last*
one for a target, over the queue and the connection together (`Coming`), carries what the user last
asked, and if there is none the register holds it. `ControlsFollow` says who moved a control last. The lemmas say what
a concatenation asks for (`AsksConcat`), what taking the head leaves (`TakenFromFront`), what an
append changes (`PutAtEnd`), that `Receives` changes nothing on the way (`HeadMoves`), and that a loss in the
middle of the way is one of `Feed` (`LostFromMiddle`). `StoresUpdate` is a stutter of `Feed` when the mailbox was empty and a loss when it
was not; a send is a stutter in a session and a loss without.

`HmiStoreInv` is the two components' invariants side by side; what they share, a restart or an erased
partition, is a step of both. The refinement of `Settings` maps `model` and what a load makes of the flash:
drawing, editing and a write that fails map to stutters; an Apply and a reset are a choice; a save and an
erasure of the blob keep it; a restart and a partition that is erased are the steps of that name. It rests on `SettingsAgree` and on "what is saved loads as it was" (`SavedLoads`).

`AcquisitionInv`: while a sensor is measured its channel is the cached one and nothing came from another
(`MeasuresOne`, `CacheTrue`); until a conversion is read the devices on the line are converting or done and
the bit is polled, unless it was disturbed (`ConversionWatched`), and the waited-for tick is when they are
done (`ConversionTimed`). The search of the 1-Wire bus is defined by ranks, so that its result is
proved to be a list of the devices on the line without recursion (`Ranks`, `SearchFinds`).

`ProtoInv` says that what is on its way is what `Encoded` makes of the message; everything else is what the
decoders do with that. For JSON, `JsonUpdate` and `JsonCommand`: the array limits cut nothing off a message that
fits, and `%.2f` is off by half a hundredth at most (`PrintedNear`). For a CBOR command the loop of
`proto_decode_command` is followed round by round (`WalkRounds`): three rounds over version, type and sequence
number (`WalksPreamble`), one over the part, whose second advance is past the end and does no harm since a
command of one part has no key after it (`WalksPart`), and then none (`LoopStays`). That is without tinycbor's
assertions; with them the advance past the end stops the node, and a command without a part is shown to come
to no such advance (`CborSimple`), so that the theorem covers both builds. `NeverMisread` asks no
more of CBOR: before a second part that advance would skip its key (`RoundTrips`, which asks for it, does not hold).

**How.** A preservation lemma has one step for each action. Two recursive functions are reasoned about, `Pow2` and
the loop of `proto_decode_command`: they get their equations by the least number principle (`LeastNumber`, from the
well-foundedness of `<`), since an induction theorem with an operator as parameter cannot be instantiated.

**Only model-checked.** Liveness, which the prover does not handle: `ReconnectsUnlessRestartFails`,
`ScreenCatchesUp`, `CommandsTakeEffect`, `OnlineOnceProvisioned`, `ComesToRest`, `ReadingsResume`.
Every invariant that a run checks is proved.

## 5. Plan

1. BME280 boards in `Acquisition`.

## 6. Not modelled

`ws_server_stop`, `ws_client_stop` and `wifi_manager_request_reprovision` (nothing calls them), a nonce
time-to-live of 0, the ciphers and MACs (frames and requests carry their outcome), the ring buffer
(neither node uses it), register layouts, the exponential filter, BME280 and the compensation
formulas, `i2c_bus_scan` (it logs), registration of the mDNS service, layout, drawing and touch,
the connection and CRC badges, certificate loading, and start-up code that only creates tasks. The
reasons are in `PROJECT.json`, "components".

Left out of parts that are modelled, so that no property speaks of them:

- the 1 s time-out of the lock of either data model: no section holds the lock that long;
- `i2c_cmd_link_create` out of memory (i2c_bus.c:107, :164);
- errors of registering the Wi-Fi handlers, and the loss of the address: no handler is registered for it
  (wifi_manager.c:267), so `s_connected` stays set with the station associated and without an address;
- a transport error of an endpoint that can be reached, and several answers to one mDNS query;
- a time-to-live of 0 of the cached endpoint;
- the lifetime of the HMI's data model: it is on the stack of `app_main`, which returns while the tasks keep the
  pointer (hmi_node/main/app_main.c:63-81). The modules take it to live on, which the code does not see to;
- the prescale of the PWM controller, which does not fit its byte for a frequency of 0 or below 24 Hz (pca9685.c:59);
- the filter's single flag for temperature and humidity, by which the first humidity is filtered against 0
  (t_sensors.c:161);
- the sign of DS18B20 readings: the register is signed and converted as unsigned (ds18b20.c:142), so that a
  temperature below zero reads as one above 4000 degrees.
