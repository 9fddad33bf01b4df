----------------------------- MODULE Acquisition -----------------------------
(***************************************************************************)
(* t_sensors.c over i2c_bus.c, tca9548a.c, sht20.c, ds18b20.c and          *)
(* onewire_bus_manager.c: how the sensor node reads its sensors.           *)
(*                                                                         *)
(* The builds of io_map.c with SHT20 sensors, or with none: several        *)
(* sensors have the same address and are each on a channel of the          *)
(* TCA9548A.  The DS18B20 sensors share the 1-Wire bus.  The sensors task  *)
(* works through a round (each ambient sensor, a 1-Wire scan when one is   *)
(* due, the temperatures when the conversion is over, a new conversion),   *)
(* then sleeps.  The IO task uses the I2C bus as well, between any two     *)
(* transfers: a transfer holds s_mutex over all its attempts and is one    *)
(* step.                                                                   *)
(*                                                                         *)
(* The lines, the multiplexer and the sensors are external.  A sound line  *)
(* carries everything; on a faulty one any transfer may fail, and a write  *)
(* reported as failed may have been carried out.                           *)
(***************************************************************************)
EXTENDS Integers, Sequences, SequencesExt, FiniteSets

CONSTANTS
    Boards,            \* boards: ambient_count, whether there is a multiplexer, 1-Wire devices
    RecoverThreshold,  \* I2C_RECOVER_THRESHOLD, 3
    FailureWrap,       \* s_consecutive_failures counts modulo this (256)
    ShtRetries,        \* SHT20_MAX_RETRIES, 5
    ResetFrom,         \* the first attempt a soft reset follows, 2
    Roms,              \* ROM codes of 1-Wire devices, in the order of the search
    MaxDevices,        \* length of ds_devices, 4
    ConvTicks,         \* the time of a conversion, 750 ms
    ScanTicks,         \* DS18B20_SCAN_INTERVAL_MS, 60 s
    MaxRound,          \* a round of the task takes 1 .. MaxRound ticks
    TickWrap,          \* TickType_t counts modulo this (2^32)
    MaxFaults          \* bound on faults of the lines and changes of the devices

ASSUME AcquisitionAssumption ==
    /\ \A b \in Boards : /\ b.ambients \in Nat /\ b.mux \in BOOLEAN
                         /\ b.ambients > 1 => b.mux
                         /\ b.roms \subseteq Range(Roms)
    /\ RecoverThreshold \in Nat \ {0}
    /\ FailureWrap \in Nat /\ FailureWrap > RecoverThreshold
    /\ ShtRetries \in Nat \ {0} /\ ResetFrom \in Nat
    /\ Roms \in Seq(STRING) /\ IsInjective(Roms) /\ MaxDevices \in Nat \ {0}
    /\ ConvTicks \in Nat \ {0} /\ MaxRound \in Nat \ {0}
    /\ ScanTicks \in Nat \ {0} /\ ScanTicks < TickWrap
    /\ TickWrap \in Nat /\ 2 * (ConvTicks + MaxRound) <= TickWrap
    /\ MaxFaults \in Nat

None == 0   \* no channel

VARIABLES
    board,     \* the board, one of Boards
    line,      \* external: the I2C lines are sound
    mux,       \* external: the channel the multiplexer connects
    bus,       \* i2c_bus.c: the driver is installed; s_consecutive_failures
    cache,     \* tca9548a.c: s_last_channel, None until s_has_state
    slipped,   \* history: a select that failed switched the multiplexer, and none has worked since
    task,      \* where sensors_task is: the step, the sensor, the quantity, the attempt
    got,       \* history: the sensors the quantities of this reading came from
    ambient,   \* the ambient entries of the data model
    tick,      \* xTaskGetTickCount
    list,      \* ds_devices, up to ds_count
    pending,   \* ds_conversion_pending
    ready,     \* ds_ready_tick
    nextScan,  \* next_ds_scan_tick
    entries,   \* the DS18B20 entries of the data model
    wire,      \* external: the 1-Wire line is sound
    attached,  \* external: the devices on it
    converting,\* external: those that are converting
    fresh,     \* external: those that hold the result of the last conversion asked for
    polls,     \* external: a read slot tells whether they are done; after any other use it reads 1
    age,       \* external: for how long they have been converting
    scanDue,   \* history: ScanTicks have passed since the last scan
    disturbed, \* history: a scan or a fault disturbed the conversion that is pending
    faults     \* faults so far

\* Sensor i is on channel i, or alone on the bus.
Sensor == 1 .. board.ambients
Channels == Sensor \cup {None}

i2c == <<board, line, mux, bus, cache, slipped>>
sht == <<got, ambient>>
model == <<entries, pending, ready, list, nextScan>>
devices == <<wire, attached, converting, fresh, polls>>
history == <<age, scanDue, disturbed>>
onewire == <<model, devices, history, tick>>
vars == <<i2c, task, sht, onewire, faults>>

Quantities == {"temp", "hum"}
At(step) == task.at = step

\* sensors_task up to its loop starts by selecting every channel once (ambient_sensor_init).
Init ==
    /\ board \in Boards
    /\ line = TRUE /\ mux = (IF board.mux \/ board.ambients = 0 THEN None ELSE 1)
    /\ bus = [driver |-> TRUE, failures |-> 0]
    /\ cache = None /\ slipped = FALSE
    /\ task = [at |-> IF board.ambients = 0 THEN "firstScan" ELSE "init",
                sensor |-> 1, quantity |-> "temp", attempt |-> 0]
    /\ got = {} /\ ambient = [i \in Sensor |-> [valid |-> FALSE, from |-> {}, slipped |-> FALSE]]
    /\ tick = 0
    /\ list = <<>> /\ pending = FALSE /\ ready = 0 /\ nextScan = tick
    /\ entries = <<>>
    /\ wire = TRUE /\ attached = board.roms
    /\ converting = {} /\ fresh = {} /\ polls = FALSE
    /\ age = 0 /\ scanDue = TRUE /\ disturbed = FALSE
    /\ faults = 0

(***************************************************************************)
(* i2c_bus.c.                                                              *)
(***************************************************************************)

\* Fault: a bus whose driver could not be installed again is left alone.
BeginsOnce(b, done, installs) ==
    LET n == (b.failures + 1) % FailureWrap
    IN  CASE b.driver /\ done -> [driver |-> TRUE, failures |-> 0]
          [] ~(b.driver /\ done) /\ (n < RecoverThreshold \/ ~b.driver) -> [b EXCEPT !.failures = n]
          [] OTHER -> [driver |-> installs, failures |-> IF installs THEN 0 ELSE n]

\* i2c_bus_cmd_begin: the driver of a bus that keeps failing is deleted and installed again, which
\* may fail and is then tried after every further failure.
Begins(b, done, installs) ==
    LET n == (b.failures + 1) % FailureWrap
    IN  CASE b.driver /\ done -> [driver |-> TRUE, failures |-> 0]
          [] ~(b.driver /\ done) /\ n < RecoverThreshold -> [b EXCEPT !.failures = n]
          [] OTHER -> [driver |-> installs, failures |-> IF installs THEN 0 ELSE n]

\* One attempt at a transfer, from every state that earlier attempts may have left.  Only a faulty
\* line keeps a device that answers from being reached, or the driver from being installed.
Attempts(answers, states) ==
    {s \in states : s.ok}
    \cup {[ok |-> s.bus.driver /\ done, bus |-> Begins(s.bus, done, installs)] :
            s \in {t \in states : ~t.ok},
            done \in IF ~answers THEN {FALSE} ELSE {TRUE} \cup (IF line THEN {} ELSE {FALSE}),
            installs \in {TRUE} \cup (IF line THEN {} ELSE {FALSE})}

\* i2c_master_cmd: how a transfer with a device may end, after three attempts at most.
Transfers(answers) ==
    Attempts(answers, Attempts(answers, Attempts(answers, {[ok |-> FALSE, bus |-> bus]})))

\* A transfer of the IO task, with an expander or the PWM controller.
IoTransfers ==
    /\ \E t \in Transfers(TRUE) : bus' = t.bus
    /\ UNCHANGED <<board, line, mux, cache, slipped, task, sht, onewire, faults>>

(***************************************************************************)
(* tca9548a_select, sht20_read_temperature_humidity,                       *)
(* update_ambient_readings.                                                *)
(***************************************************************************)

\* Fault: once a channel was selected, the selection is trusted.
SelectedOnce(channel) == board.mux => cache # None

\* select_ambient_channel and tca9548a_select have nothing to do.
Selected(channel) == board.mux => cache = channel

\* The channel is selected, or believed to be, and the task goes on at next.
Selects(channel, next) ==
    \/ /\ Selected(channel)
       /\ task' = next
       /\ UNCHANGED <<bus, mux, cache, slipped>>
    \/ /\ ~Selected(channel)
       /\ \E t \in Transfers(TRUE) : t.ok /\ bus' = t.bus
       /\ mux' = channel /\ cache' = channel /\ slipped' = FALSE
       /\ task' = next

\* It could not be selected: the cached channel is kept, whether or not the multiplexer has moved.
SelectFails(channel, next) ==
    /\ ~Selected(channel)
    /\ \E t \in Transfers(TRUE) : ~t.ok /\ bus' = t.bus
    /\ mux' \in {mux, channel}
    /\ slipped' = (slipped \/ mux' # mux)
    /\ task' = next
    /\ UNCHANGED cache

\* The next sensor, or what follows the last one.
NextSensor(step, after) ==
    IF task.sensor < board.ambients
    THEN [at |-> step, sensor |-> task.sensor + 1, quantity |-> "temp", attempt |-> 0]
    ELSE [at |-> after, sensor |-> 1, quantity |-> "temp", attempt |-> 0]

\* ambient_sensor_init: a channel that cannot be selected is logged.
InitSelects ==
    /\ At("init")
    /\ LET next == NextSensor("init", "firstScan")
       IN  Selects(task.sensor, next) \/ SelectFails(task.sensor, next)
    /\ UNCHANGED <<board, line, sht, onewire, faults>>

\* data_model_set_sht20: the entry of the sensor is written, valid or not.
Stores(valid, from) ==
    ambient' = [ambient EXCEPT ![task.sensor] =
                   [valid |-> valid, from |-> from, slipped |-> valid /\ slipped]]

ReadSelects ==
    /\ At("select") /\ Selects(task.sensor, [task EXCEPT !.at = "command"])
    /\ got' = {}
    /\ UNCHANGED <<board, line, ambient, onewire, faults>>

ReadSelectFails ==
    /\ At("select") /\ SelectFails(task.sensor, NextSensor("select", "scan"))
    /\ Stores(FALSE, {})
    /\ UNCHANGED <<board, line, got, onewire, faults>>

\* The sensor whose channel is connected answers to the address of all of them.
Answers == mux # None

\* Fault: one attempt too many.
GivesUpLate(attempt) == attempt = ShtRetries

\* The loop of sht20_read_measurement is at its last attempt.
GivesUp(attempt) == attempt + 1 = ShtRetries

\* The attempt failed, and was followed by a soft reset where there is one.
AttemptOver ==
    IF GivesUp(task.attempt)
    THEN task' = NextSensor("select", "scan") /\ Stores(FALSE, {})
    ELSE task' = [task EXCEPT !.at = "command", !.attempt = @ + 1] /\ UNCHANGED ambient

AttemptFails ==
    IF task.attempt >= ResetFrom
    THEN task' = [task EXCEPT !.at = "reset"] /\ UNCHANGED ambient
    ELSE AttemptOver

\* sht20_measure_once, up to the wait: the other task may use the bus before the result is read.
ShtCommands ==
    /\ At("command")
    /\ \E t \in Transfers(Answers) :
         /\ bus' = t.bus
         /\ IF t.ok THEN task' = [task EXCEPT !.at = "result"] /\ UNCHANGED ambient
                    ELSE AttemptFails
    /\ UNCHANGED <<board, line, mux, cache, slipped, got, onewire, faults>>

\* The result is read, and its checksum is right: the humidity is next, or the entry is stored.
ShtReads ==
    /\ At("result")
    /\ \E t \in Transfers(Answers) : t.ok /\ bus' = t.bus
    /\ got' = got \cup {mux}
    /\ IF task.quantity = "temp"
       THEN task' = [task EXCEPT !.at = "command", !.quantity = "hum", !.attempt = 0]
            /\ UNCHANGED ambient
       ELSE task' = NextSensor("select", "scan") /\ Stores(TRUE, got')
    /\ UNCHANGED <<board, line, mux, cache, slipped, onewire, faults>>

\* It cannot be read, or a faulty line damaged it.
ShtReadFails ==
    /\ At("result")
    /\ \E t \in Transfers(Answers) : (t.ok => ~line) /\ bus' = t.bus
    /\ AttemptFails
    /\ UNCHANGED <<board, line, mux, cache, slipped, got, onewire, faults>>

\* The soft reset, whose result does not matter.
ShtResets ==
    /\ At("reset")
    /\ \E t \in Transfers(Answers) : bus' = t.bus
    /\ AttemptOver
    /\ UNCHANGED <<board, line, mux, cache, slipped, got, onewire, faults>>

(***************************************************************************)
(* ensure_ds18b20_devices, read_ds18b20_temperatures,                      *)
(* kick_ds18b20_conversion.                                                *)
(***************************************************************************)

\* The places in Roms of the devices on the line, in whose order the search meets them.
Found == {p \in DOMAIN Roms : Roms[p] \in attached}
Rank(p) == Cardinality({q \in Found : q < p})

\* The devices on the line, as many as ds_devices holds.
Search ==
    [i \in 1 .. (IF Cardinality(Found) < MaxDevices THEN Cardinality(Found) ELSE MaxDevices) |->
       Roms[CHOOSE p \in Found : Rank(p) = i - 1]]

AfterScan == IF At("firstScan") THEN "firstKick" ELSE "read"

ScanDue == list = <<>> \/ tick >= nextScan

\* No scan is due, as far as the comparison of two wrapping ticks tells.
ScanNotDue ==
    /\ At("scan") \/ At("firstScan")
    /\ ~ScanDue
    /\ task' = [task EXCEPT !.at = AfterScan]
    /\ UNCHANGED <<i2c, sht, onewire, faults>>

\* onewire_bus_scan replaces the list, also while a conversion is pending.  On a faulty line the
\* search ends early, or the scan fails and the list is kept.
Scans ==
    /\ At("scan") \/ At("firstScan")
    /\ ScanDue
    /\ list' \in {Search} \cup (IF wire THEN {} ELSE Prefixes(Search) \cup {list})
    /\ nextScan' = (tick + ScanTicks) % TickWrap
    /\ scanDue' = FALSE
    /\ polls' = FALSE
    /\ disturbed' = (disturbed \/ pending)
    /\ task' = [task EXCEPT !.at = AfterScan]
    /\ UNCHANGED <<i2c, sht, entries, pending, ready, wire, attached, converting, fresh, tick, age,
                   faults>>

\* (int32_t)(now - ds_ready_tick) >= 0
TimeIsUp == (tick - ready) % TickWrap < TickWrap \div 2

\* The read slot says that the conversion is over, or a faulty line does.
SlotReads1 == polls => (converting = {} \/ ~wire)
SlotReads0 == (polls /\ converting # {}) \/ ~wire

ReadNotDue ==
    /\ At("read")
    /\ ~pending \/ (~TimeIsUp /\ SlotReads0)
    /\ task' = [task EXCEPT !.at = "kick"]
    /\ UNCHANGED <<i2c, sht, onewire, faults>>

\* What ds18b20_read_temperature may obtain; it does not look at the checksum.  "fresh": the result
\* of the conversion; "stale": what the device held before it.  "other": such a value after a
\* disturbance, what a read slot gives when the device is gone, or the synthetic value that is stored
\* when the line is empty or the transfer fails.
Obtained(r) ==
    (IF r \in fresh THEN {"fresh"}
     ELSE IF r \notin attached \/ disturbed THEN {"other"} ELSE {"stale"})
    \cup (IF wire THEN {} ELSE {"other"})

\* Every device in the list is read into its entry; the entries past the list stay as they are.
ReadsTemperatures ==
    /\ At("read") /\ pending
    /\ TimeIsUp \/ SlotReads1
    /\ \E what \in [DOMAIN list -> {"fresh", "stale", "other"}] :
         /\ \A i \in DOMAIN list : what[i] \in Obtained(list[i])
         /\ entries' = [i \in DOMAIN list \cup DOMAIN entries |->
                          IF i \in DOMAIN list
                          THEN [rom |-> list[i], what |-> what[i]]
                          ELSE entries[i]]
    /\ pending' = FALSE /\ polls' = FALSE /\ disturbed' = FALSE
    /\ task' = [task EXCEPT !.at = "kick"]
    /\ UNCHANGED <<i2c, sht, list, ready, nextScan, wire, attached, converting, fresh, tick, age,
                   scanDue, faults>>

\* A round begins with the ambient sensors.
RoundBegins == IF board.ambients = 0 THEN "scan" ELSE "select"

AfterKick == IF At("firstKick") THEN RoundBegins ELSE "delay"

\* There is nothing to convert, a conversion is pending, or it cannot be started: the reset of the
\* bus finds nobody, or the line is faulty.
DoesNotKick ==
    /\ At("kick") \/ At("firstKick")
    /\ list = <<>> \/ pending \/ attached = {} \/ ~wire
    /\ polls' = (polls /\ (list = <<>> \/ pending))
    /\ task' = [task EXCEPT !.at = AfterKick]
    /\ UNCHANGED <<i2c, sht, model, wire, attached, converting, fresh, tick, history, faults>>

\* Fault: the wait is that of a lower resolution.
WaitTooShort == ConvTicks - 1

\* ds18b20_conversion_time_ms
Wait == ConvTicks

\* Convert T goes to every device on the line, whether it is in the list or not.
Kicks ==
    /\ At("kick") \/ At("firstKick")
    /\ list # <<>> /\ ~pending /\ attached # {}
    /\ pending' = TRUE
    /\ ready' = (tick + Wait) % TickWrap
    /\ converting' = attached /\ fresh' = {} /\ polls' = TRUE
    /\ age' = 0 /\ disturbed' = ~wire
    /\ task' = [task EXCEPT !.at = AfterKick]
    /\ UNCHANGED <<i2c, sht, entries, list, nextScan, wire, attached, tick, scanDue, faults>>

\* vTaskDelay, and with it all the time that the round took.  A device is done with its conversion
\* when its time is over, or before.
Delays ==
    /\ At("delay")
    /\ \E d \in 1 .. MaxRound :
         /\ tick' = (tick + d) % TickWrap
         /\ scanDue' = (scanDue \/ d >= (nextScan - tick) % TickWrap)
         /\ \E done \in SUBSET converting :
              /\ age + d >= ConvTicks => done = converting
              /\ converting' = converting \ done /\ fresh' = fresh \cup done
         /\ age' = IF converting' = {} THEN 0 ELSE age + d
    /\ task' = [task EXCEPT !.at = RoundBegins]
    /\ UNCHANGED <<i2c, sht, model, wire, attached, polls, disturbed, faults>>

(***************************************************************************)
(* External: faults, which come to an end.                                 *)
(***************************************************************************)

\* Without ambient sensors only the IO task would notice, and none of it shows here.
LineFails ==
    /\ board.ambients > 0 /\ line /\ faults < MaxFaults
    /\ line' = FALSE /\ faults' = faults + 1
    /\ UNCHANGED <<board, mux, bus, cache, slipped, task, sht, onewire>>

LineRecovers ==
    /\ ~line /\ line' = TRUE
    /\ UNCHANGED <<board, mux, bus, cache, slipped, task, sht, onewire, faults>>

\* The multiplexer loses its power and comes back with no channel connected.
MuxResets ==
    /\ board.mux /\ mux # None /\ faults < MaxFaults
    /\ mux' = None /\ faults' = faults + 1
    /\ UNCHANGED <<board, line, bus, cache, slipped, task, sht, onewire>>

WireFails ==
    /\ board.roms # {} /\ wire /\ faults < MaxFaults
    /\ wire' = FALSE /\ faults' = faults + 1
    /\ disturbed' = (disturbed \/ pending)
    /\ UNCHANGED <<i2c, task, sht, model, attached, converting, fresh, polls, age, scanDue, tick>>

WireRecovers ==
    /\ ~wire /\ wire' = TRUE
    /\ UNCHANGED <<i2c, task, sht, model, attached, converting, fresh, polls, history, tick, faults>>

\* A device is plugged in, with its power-on value for a result, or taken away.
Plugs(r) ==
    /\ faults < MaxFaults
    /\ faults' = faults + 1
    /\ attached' = IF r \in attached THEN attached \ {r} ELSE attached \cup {r}
    /\ converting' = converting \ {r} /\ fresh' = fresh \ {r}
    /\ disturbed' = (disturbed \/ pending)
    /\ UNCHANGED <<i2c, task, sht, model, wire, polls, age, scanDue, tick>>

-----------------------------------------------------------------------------
SensorsTask ==
    \/ InitSelects \/ ReadSelects \/ ReadSelectFails
    \/ ShtCommands \/ ShtReads \/ ShtReadFails \/ ShtResets
    \/ ScanNotDue \/ Scans \/ ReadNotDue \/ ReadsTemperatures
    \/ DoesNotKick \/ Kicks \/ Delays

Environment ==
    \/ LineFails \/ LineRecovers \/ MuxResets \/ WireFails \/ WireRecovers
    \/ \E r \in board.roms : Plugs(r)

Next == SensorsTask \/ IoTransfers \/ Environment

\* The sensors task runs; the lines do not stay faulty.
Fairness == WF_vars(SensorsTask) /\ WF_vars(LineRecovers) /\ WF_vars(WireRecovers)

Spec == Init /\ [][Next]_vars /\ Fairness

-----------------------------------------------------------------------------
AmbientSteps == {"init", "select", "command", "result", "reset"}
OneWireSteps == {"firstScan", "firstKick", "scan", "read", "kick", "delay"}

\* The failure counter stays in its byte, a measurement takes no more attempts than
\* SHT20_MAX_RETRIES, the list fits ds_devices and names no device twice, and every variable has its
\* type.
AcquisitionTypeOK ==
    /\ board \in Boards /\ bus \in [driver : BOOLEAN, failures : 0 .. (FailureWrap - 1)]
    /\ mux \in Channels /\ cache \in Channels
    /\ task \in [at : AmbientSteps \cup OneWireSteps, sensor : Sensor \cup {1},
                 quantity : Quantities, attempt : 0 .. (ShtRetries - 1)]
    /\ got \in SUBSET Channels
    /\ ambient \in [Sensor -> [valid : BOOLEAN, from : SUBSET Channels, slipped : BOOLEAN]]
    /\ list \in Seq(Range(Roms)) /\ Len(list) <= MaxDevices /\ IsInjective(list)
    /\ tick \in 0 .. (TickWrap - 1) /\ ready \in 0 .. (TickWrap - 1)
    /\ nextScan \in 0 .. (TickWrap - 1)
    /\ converting \cup fresh \subseteq attached /\ attached \subseteq Range(Roms)
    /\ DOMAIN entries \subseteq 1 .. MaxDevices
    /\ line \in BOOLEAN /\ slipped \in BOOLEAN /\ wire \in BOOLEAN /\ polls \in BOOLEAN
    /\ pending \in BOOLEAN /\ scanDue \in BOOLEAN /\ disturbed \in BOOLEAN
    /\ faults \in 0 .. MaxFaults

\* A reading is the sensor's own (tca9548a_select trusts its cached channel, and every SHT20 has the
\* same address): temperature and humidity of a valid entry both came from the sensor it stands for,
\* unless a select that was reported as failed had switched the multiplexer.
ReadingIsOwn ==
    \A i \in Sensor : ambient[i].valid => ambient[i].from = {i} \/ ambient[i].slipped

\* A temperature is that of the conversion it was waited for (ds18b20_conversion_complete): a device
\* that was still converting, or never began, is read only if a scan, which ends the polling of the
\* status bit and brings in devices that were not asked, or a disturbance of the line came in between.
ReadingIsConverted ==
    \A i \in DOMAIN entries : entries[i].what # "stale"

(***************************************************************************)
(* What the above rests on.                                                *)
(***************************************************************************)

\* The ambient sensors are read one after the other, and the 1-Wire steps begin with the first.
SensorServed == IF task.at \in AmbientSteps THEN task.sensor \in Sensor ELSE task.sensor = 1

\* The cached channel is the one that is connected, unless the multiplexer was reset or a select that
\* failed moved it; without a multiplexer there is one sensor.
CacheTrue ==
    /\ board.mux /\ cache # None /\ ~slipped => mux \in {cache, None}
    /\ ~board.mux /\ board.ambients > 0 => mux = 1

\* While a sensor is measured its channel is the cached one, and nothing came from another.
MeasuresOne ==
    task.at \in {"command", "result", "reset"} =>
        /\ Selected(task.sensor)
        /\ slipped \/ got \subseteq {task.sensor}

\* Until a conversion is read, every device on the line is converting or done, and tells, unless the
\* wait was disturbed.
ConversionWatched ==
    pending /\ ~disturbed => polls /\ wire /\ attached = converting \cup fresh

\* The time that the sensors task waits for is the one at which the devices are done.
ConversionTimed ==
    /\ age \in 0 .. (ConvTicks - 1)
    /\ pending /\ converting # {} => ready = (tick + (ConvTicks - age)) % TickWrap

\* The inductive invariant.
AcquisitionInv ==
    /\ AcquisitionTypeOK /\ SensorServed /\ CacheTrue /\ MeasuresOne
    /\ ConversionWatched /\ ConversionTimed
    /\ ReadingIsOwn /\ ReadingIsConverted

\* The task went past a scan that was due.
ScanSkipped == scanDue /\ At("read")

\* Everything is read again when the faults are over (i2c_bus_recover_locked, the caches, the flags
\* and the rescan): the ambient entries end up valid and right for good, the driver stays installed,
\* conversions are started and read for ever, and, unless the wrap of the tick makes the task skip
\* its scan, the entries are again and again those of the devices on the line, freshly converted.
ReadingsResume ==
    /\ <>[](bus.driver /\ \A i \in Sensor : ambient[i].valid /\ ambient[i].from = {i})
    /\ <>[](attached # {} /\ ~ScanSkipped) =>
         /\ []<>pending /\ []<>~pending
         /\ []<>(/\ Len(entries) >= Len(Search)
                 /\ \A i \in DOMAIN Search : entries[i].rom = Search[i] /\ entries[i].what = "fresh")
=============================================================================
