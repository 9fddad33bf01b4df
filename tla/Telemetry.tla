------------------------------ MODULE Telemetry ------------------------------
(***************************************************************************)
(* The loop from a control of the HMI to the sensor node's outputs and     *)
(* from its data model back to the screen.                                 *)
(*                                                                         *)
(* Sensor node: ws_rx (httpd task) puts commands into the queue of t_io.c; *)
(* io_task applies them, samples the GPIO expanders and writes the data    *)
(* model; t_sensors writes its readings; the loop of app_main publishes    *)
(* the model when it changed.  HMI: handle_sensor_update (websocket task)  *)
(* stores an update, ui_task shows it and handles the controls.  Each      *)
(* section under the mutex of a data model is one step.  The connection is *)
(* external: WsLink models it.  So is LVGL: a control reports a new value  *)
(* and, a slider, that it was released.  The badges for the connection and *)
(* the checksum are left out: each shows a flag that is polled.            *)
(*                                                                         *)
(* One GPIO port stands for the four, one filtered reading for those of    *)
(* the ambient sensors.  A masked write is a write of the bits under the   *)
(* mask: the port is what the mask covers.  The timestamp is left out: no  *)
(* decision depends on it.                                                 *)
(***************************************************************************)
EXTENDS Integers, Sequences, SequencesExt

CONSTANTS
    Channels,      \* the PWM channels
    Values,        \* values of a setting and of a GPIO port
    Default,       \* what every setting and port has at boot
    MaxTemp,       \* readings are 0 .. MaxTemp
    Threshold,     \* a reading is news when it moves by more, 0.3 degrees
    NaN,           \* the reading of a sensor that was never read
    QueueDepth,    \* length of s_cmd_queue, 16
    MaxInFlight,   \* frames a connection buffers
    SeqWrap,       \* sequence_id counts modulo this (2^32)
    MaxInputs      \* bound on what the user and the outside world do

ASSUME TelemetryAssumption ==
    /\ {"freq", "gpio"} \cap Channels = {} /\ Default \in Values
    /\ MaxTemp \in Nat /\ Threshold \in Nat /\ NaN \notin 0 .. MaxTemp
    /\ QueueDepth \in Nat \ {0} /\ MaxInFlight \in Nat \ {0}
    /\ SeqWrap \in Nat /\ SeqWrap > 1 /\ MaxInputs \in Nat

VARIABLES
    pins,       \* external: the level at the pins of the expander, all of them inputs
    outputs,    \* external: the registers of the PWM controller and the latch of the expander
    set,        \* s_pwm and s_pwm_freq
    queue,      \* s_cmd_queue
    io,         \* where io_task is: draining the queue, or about to report the PWM settings
    ema,        \* ambient_temp_ema, NaN until ambient_initialized
    current,    \* model->current
    published,  \* model->last_published
    pub,        \* where the loop of app_main is
    open,       \* external: the HMI has a session
    toSensor,   \* external: commands in flight
    toHmi,      \* external: updates in flight
    hmi,        \* the HMI's last_update and has_update
    screen,     \* s_last_proto_update and the values of the controls
    held,       \* external: the sliders the user has a finger on
    moved,      \* history: the controls the user moved since an update was last drawn
    want,       \* history: the last value the user gave each target
    lost,       \* history: targets whose last value was not sent, was lost or was sent over
    missed,     \* history: what kept the last update from the HMI, or "no"
    inputs      \* inputs so far

ioVars == <<outputs, set, queue, io>>
modelVars == <<current, published, pub>>
linkVars == <<open, toSensor, toHmi>>
hmiVars == <<hmi, screen, held, moved>>
vars == <<pins, ioVars, ema, modelVars, linkVars, hmiVars, want, lost, missed, inputs>>

Pwm == Channels \cup {"freq"}
Targets == Pwm \cup {"gpio"}
Commands == [target : Targets, value : Values]
Readings == [temp : (0 .. MaxTemp) \cup {NaN}, valid : BOOLEAN]
Updates == [pwm : [Pwm -> Values], gpio : Values, ambient : Readings, seq : 0 .. (SeqWrap - 1)]

\* data_model_init; the HMI's model starts zeroed as well.
AtBoot ==
    [pwm |-> [p \in Pwm |-> Default], gpio |-> Default,
     ambient |-> [temp |-> 0, valid |-> FALSE], seq |-> 0]

\* update_pwm_state, update_gpio_state: what an update makes of the sliders and the switches.
Controls(update) == [t \in Targets |-> IF t = "gpio" THEN update.gpio ELSE update.pwm[t]]

-----------------------------------------------------------------------------
\* io_task_start, and io_task up to its loop: mcp23017_init makes every pin an input.
Init ==
    /\ pins = Default
    /\ outputs = [t \in Targets |-> Default]
    /\ set = [p \in Pwm |-> Default]
    /\ queue = <<>> /\ io = "drain" /\ ema = NaN
    /\ current = AtBoot /\ published = AtBoot /\ pub = "idle"
    /\ open = FALSE /\ toSensor = <<>> /\ toHmi = <<>>
    /\ hmi = [last |-> AtBoot, has |-> FALSE]
    /\ screen = [update |-> AtBoot, any |-> FALSE, controls |-> Controls(AtBoot)]
    /\ held = {} /\ moved = {}
    /\ want = [t \in Targets |-> Default]
    /\ lost = {} /\ missed = "no" /\ inputs = 0

(***************************************************************************)
(* io_task.                                                                *)
(***************************************************************************)

\* The registers a command writes: a new frequency writes every channel again.
Writes(cmd) == IF cmd.target = "freq" THEN Pwm ELSE {cmd.target}

\* One command is taken from the queue and applied. Any of its I2C transfers may fail: the result of
\* pca9685_set_pwm, pca9685_init and mcp23017_write_gpio is not looked at, and s_pwm keeps the value.
IoApplies ==
    /\ io = "drain" /\ queue # <<>>
    /\ queue' = Tail(queue)
    /\ LET cmd == Head(queue)
           New(t) == IF t = "gpio" THEN cmd.value ELSE set'[t]
       IN
       /\ set' = IF cmd.target \in Pwm THEN [set EXCEPT ![cmd.target] = cmd.value] ELSE set
       /\ \E done \in SUBSET Writes(cmd) :
            outputs' = [t \in Targets |-> IF t \in done THEN New(t) ELSE outputs[t]]
       /\ lost' = lost \cup {t \in Writes(cmd) : outputs'[t] # New(t)}
    /\ UNCHANGED <<pins, io, ema, modelVars, linkVars, hmiVars, want, missed, inputs>>

\* mcp23017_read_gpio reads the pins, and an input does not follow the latch.
IoSamples ==
    /\ io = "drain" /\ queue = <<>>
    /\ current' = [current EXCEPT !.gpio = pins]
    /\ io' = "report"
    /\ UNCHANGED <<pins, outputs, set, queue, ema, published, pub, linkVars, hmiVars, want, lost,
                   missed, inputs>>

\* The read fails: the model keeps the port.
IoSampleFails ==
    /\ io = "drain" /\ queue = <<>>
    /\ io' = "report"
    /\ UNCHANGED <<pins, outputs, set, queue, ema, modelVars, linkVars, hmiVars, want, lost, missed,
                   inputs>>

\* data_model_set_pwm, then 50 ms of delay.
IoReports ==
    /\ io = "report"
    /\ current' = [current EXCEPT !.pwm = set]
    /\ io' = "drain"
    /\ UNCHANGED <<pins, outputs, set, queue, ema, published, pub, linkVars, hmiVars, want, lost,
                   missed, inputs>>

(***************************************************************************)
(* t_sensors: update_ambient_readings.                                     *)
(***************************************************************************)

\* A sensor is read: the filter moves to some temperature, in the end to the one it is given.
AmbientReads(temp) ==
    /\ inputs < MaxInputs
    /\ ema' = temp
    /\ current' = [current EXCEPT !.ambient = [temp |-> temp, valid |-> TRUE]]
    /\ inputs' = inputs + 1
    /\ UNCHANGED <<pins, ioVars, published, pub, linkVars, hmiVars, want, lost, missed>>

\* It is not: the last filtered reading, or NaN, is stored as not valid.
AmbientFails ==
    /\ inputs < MaxInputs
    /\ current' = [current EXCEPT !.ambient = [temp |-> ema, valid |-> FALSE]]
    /\ inputs' = inputs + 1
    /\ UNCHANGED <<pins, ioVars, ema, published, pub, linkVars, hmiVars, want, lost, missed>>

(***************************************************************************)
(* The loop of app_main.                                                   *)
(***************************************************************************)

\* |a - b| > threshold, which no comparison with NaN satisfies.
ValueChanged(a, b) ==
    /\ a # NaN /\ b # NaN
    /\ a - b > Threshold \/ b - a > Threshold

\* Fault: a change of the GPIO port is no reason to publish.
ShouldPublishNoGpio ==
    \/ published.seq = 0
    \/ ValueChanged(current.ambient.temp, published.ambient.temp)
    \/ current.pwm # published.pwm

\* data_model_should_publish: whether a reading is valid is not compared.
ShouldPublish ==
    \/ published.seq = 0
    \/ ValueChanged(current.ambient.temp, published.ambient.temp)
    \/ current.gpio # published.gpio
    \/ current.pwm # published.pwm

PubDecides ==
    /\ pub = "idle" /\ ShouldPublish
    /\ pub' = "count"
    /\ UNCHANGED <<pins, ioVars, ema, current, published, linkVars, hmiVars, want, lost, missed,
                   inputs>>

\* data_model_increment_seq
PubCounts ==
    /\ pub = "count"
    /\ current' = [current EXCEPT !.seq = (@ + 1) % SeqWrap]
    /\ pub' = "build"
    /\ UNCHANGED <<pins, ioVars, ema, published, linkVars, hmiVars, want, lost, missed, inputs>>

\* data_model_build: the snapshot counts as published before it is sent.
PubBuilds ==
    /\ pub = "build"
    /\ published' = current
    /\ pub' = "send"
    /\ UNCHANGED <<pins, ioVars, ema, current, linkVars, hmiVars, want, lost, missed, inputs>>

\* Fault: what is sent is read from the model again, without its mutex.
PubSendsCurrent ==
    /\ pub = "send" /\ Len(toHmi) < MaxInFlight
    /\ toHmi' = IF open THEN Append(toHmi, current) ELSE toHmi
    /\ missed' = IF open THEN "no" ELSE "offline"
    /\ pub' = "idle"
    /\ UNCHANGED <<pins, ioVars, ema, current, published, open, toSensor, hmiVars, want, lost, inputs>>

\* ws_server_send gives the snapshot to whoever is connected.
PubSends ==
    /\ pub = "send" /\ Len(toHmi) < MaxInFlight
    /\ toHmi' = IF open THEN Append(toHmi, published) ELSE toHmi
    /\ missed' = IF open THEN "no" ELSE "offline"
    /\ pub' = "idle"
    /\ UNCHANGED <<pins, ioVars, ema, current, published, open, toSensor, hmiVars, want, lost, inputs>>

\* ws_server_send fails before it reaches a client (no memory, encryption): its result is ignored.
PubSendFails ==
    /\ pub = "send"
    /\ missed' = "failed"
    /\ pub' = "idle"
    /\ UNCHANGED <<pins, ioVars, ema, current, published, linkVars, hmiVars, want, lost, inputs>>

(***************************************************************************)
(* ws_rx, in the httpd task.                                               *)
(***************************************************************************)

\* Fault: a full queue is overwritten.
ReceivesOverwriting ==
    /\ toSensor # <<>>
    /\ queue' = (IF Len(queue) < QueueDepth THEN queue ELSE Tail(queue)) \o <<Head(toSensor)>>
    /\ toSensor' = Tail(toSensor)
    /\ UNCHANGED <<pins, outputs, set, io, ema, modelVars, open, toHmi, hmiVars, want, lost, missed,
                   inputs>>

\* Fault: the queue has no bound.
ReceivesUnbounded ==
    /\ toSensor # <<>>
    /\ queue' = Append(queue, Head(toSensor))
    /\ toSensor' = Tail(toSensor)
    /\ UNCHANGED <<pins, outputs, set, io, ema, modelVars, open, toHmi, hmiVars, want, lost, missed,
                   inputs>>

Receives ==
    /\ toSensor # <<>> /\ Len(queue) < QueueDepth
    /\ queue' = Append(queue, Head(toSensor))
    /\ toSensor' = Tail(toSensor)
    /\ UNCHANGED <<pins, outputs, set, io, ema, modelVars, open, toHmi, hmiVars, want, lost, missed,
                   inputs>>

\* xQueueSend gives up after 20 ms; nobody is told.
Drops ==
    /\ toSensor # <<>> /\ Len(queue) = QueueDepth
    /\ toSensor' = Tail(toSensor)
    /\ lost' = lost \cup {Head(toSensor).target}
    /\ UNCHANGED <<pins, ioVars, ema, modelVars, open, toHmi, hmiVars, want, missed, inputs>>

(***************************************************************************)
(* The HMI.                                                                *)
(***************************************************************************)

\* hmi_ws_client_send_command: nothing is sent without a connection, a send may fail, and no callback
\* of the UI looks at the result.
Sends(target, value) ==
    /\ open /\ Len(toSensor) < MaxInFlight
    /\ toSensor' = Append(toSensor, [target |-> target, value |-> value])

\* gpio_switch_event_cb, pwm_slider_event_cb, pwm_freq_event_cb, LV_EVENT_VALUE_CHANGED: the user
\* gives a control another value.
UserSets(t, value) ==
    /\ inputs < MaxInputs /\ value # screen.controls[t]
    /\ screen' = [screen EXCEPT !.controls[t] = value]
    /\ held' = IF t \in Pwm THEN held \cup {t} ELSE held
    /\ moved' = moved \cup {t}
    /\ want' = [want EXCEPT ![t] = value]
    /\ \/ Sends(t, value) /\ lost' = lost \ {t}
       \/ lost' = lost \cup {t} /\ UNCHANGED toSensor
    /\ inputs' = inputs + 1
    /\ UNCHANGED <<pins, ioVars, ema, modelVars, open, toHmi, hmi, missed>>

\* LV_EVENT_RELEASED of a slider: its value is sent once more, which may by now be an update's.
UserReleases(t) ==
    /\ t \in held
    /\ held' = held \ {t}
    /\ \/ /\ Sends(t, screen.controls[t])
          /\ lost' = IF screen.controls[t] = want[t] THEN lost \ {t} ELSE lost \cup {t}
       \/ UNCHANGED <<toSensor, lost>>
    /\ UNCHANGED <<pins, ioVars, ema, modelVars, open, toHmi, hmi, screen, moved, want, missed, inputs>>

\* Fault: an update that was not drawn yet is not overwritten.
StoresUpdateOnce ==
    /\ toHmi # <<>> /\ Head(toHmi).ambient.temp # NaN
    /\ hmi' = IF hmi.has THEN hmi ELSE [last |-> Head(toHmi), has |-> TRUE]
    /\ toHmi' = Tail(toHmi)
    /\ UNCHANGED <<pins, ioVars, ema, modelVars, open, toSensor, screen, held, moved, want, lost,
                   missed, inputs>>

\* handle_sensor_update, hmi_data_model_set_update
StoresUpdate ==
    /\ toHmi # <<>> /\ Head(toHmi).ambient.temp # NaN
    /\ hmi' = [last |-> Head(toHmi), has |-> TRUE]
    /\ toHmi' = Tail(toHmi)
    /\ UNCHANGED <<pins, ioVars, ema, modelVars, open, toSensor, screen, held, moved, want, lost,
                   missed, inputs>>

\* The JSON of an update with a NaN in it cannot be parsed, and none of the update is used.
RejectsUpdate ==
    /\ toHmi # <<>> /\ Head(toHmi).ambient.temp = NaN
    /\ toHmi' = Tail(toHmi)
    /\ missed' = IF Len(toHmi) = 1 THEN "unreadable" ELSE missed
    /\ UNCHANGED <<pins, ioVars, ema, modelVars, open, toSensor, hmiVars, want, lost, inputs>>

\* ui_update_sensor_data, which moves every control without an event of it (s_updating_ui).
Draws(update) ==
    /\ screen' = [screen EXCEPT !.update = update, !.any = TRUE, !.controls = Controls(update)]
    /\ moved' = {}

\* hmi_data_model_get_update, ui_update_sensor_data
ShowsUpdate ==
    /\ hmi.has
    /\ Draws(hmi.last)
    /\ hmi' = [hmi EXCEPT !.has = FALSE]
    /\ UNCHANGED <<pins, ioVars, ema, modelVars, linkVars, held, want, lost, missed, inputs>>

\* refresh_localised_text: preferences were applied, and the last update is drawn again.
ShowsAgain ==
    /\ screen.any /\ moved # {}
    /\ Draws(screen.update)
    /\ UNCHANGED <<pins, ioVars, ema, modelVars, linkVars, hmi, held, want, lost, missed, inputs>>

(***************************************************************************)
(* The outside world.                                                      *)
(***************************************************************************)

Connects ==
    /\ ~open /\ open' = TRUE
    /\ UNCHANGED <<pins, ioVars, ema, modelVars, toSensor, toHmi, hmiVars, want, lost, missed, inputs>>

\* What is in flight is lost.
Disconnects ==
    /\ open /\ open' = FALSE
    /\ lost' = lost \cup {toSensor[i].target : i \in DOMAIN toSensor}
    /\ missed' = IF toHmi # <<>> THEN "offline" ELSE missed
    /\ toSensor' = <<>> /\ toHmi' = <<>>
    /\ UNCHANGED <<pins, ioVars, ema, modelVars, hmiVars, want, inputs>>

PinsChange(level) ==
    /\ inputs < MaxInputs /\ level # pins
    /\ pins' = level
    /\ inputs' = inputs + 1
    /\ UNCHANGED <<ioVars, ema, modelVars, linkVars, hmiVars, want, lost, missed>>

-----------------------------------------------------------------------------
IoTask == IoApplies \/ IoSamples \/ IoSampleFails \/ IoReports
Publisher == PubDecides \/ PubCounts \/ PubBuilds \/ PubSends \/ PubSendFails
HttpdTask == Receives \/ Drops

Next ==
    \/ IoTask \/ Publisher \/ HttpdTask \/ StoresUpdate \/ RejectsUpdate
    \/ ShowsUpdate \/ ShowsAgain
    \/ Connects \/ Disconnects
    \/ AmbientFails \/ \E temp \in 0 .. MaxTemp : AmbientReads(temp)
    \/ \E t \in Targets, value \in Values : UserSets(t, value)
    \/ \E t \in Pwm : UserReleases(t)
    \/ \E level \in Values : PinsChange(level)

\* The tasks run, and a read of the pins that is tried again and again succeeds.
Fairness ==
    /\ WF_vars(IoTask) /\ SF_vars(IoSamples) /\ WF_vars(Publisher)
    /\ WF_vars(HttpdTask) /\ WF_vars(StoresUpdate) /\ WF_vars(RejectsUpdate)
    /\ WF_vars(ShowsUpdate)

Spec == Init /\ [][Next]_vars /\ Fairness

-----------------------------------------------------------------------------
\* s_cmd_queue never holds more than its depth, the counter wraps, and every variable has its type.
TelemetryTypeOK ==
    /\ pins \in Values /\ outputs \in [Targets -> Values] /\ set \in [Pwm -> Values]
    /\ queue \in Seq(Commands) /\ Len(queue) <= QueueDepth
    /\ io \in {"drain", "report"} /\ pub \in {"idle", "count", "build", "send"}
    /\ ema \in (0 .. MaxTemp) \cup {NaN}
    /\ current \in Updates /\ published \in Updates
    /\ open \in BOOLEAN
    /\ toSensor \in Seq(Commands) /\ Len(toSensor) <= MaxInFlight
    /\ toHmi \in Seq(Updates) /\ Len(toHmi) <= MaxInFlight
    /\ hmi \in [last : Updates, has : BOOLEAN]
    /\ screen \in [update : Updates, any : BOOLEAN, controls : [Targets -> Values]]
    /\ held \subseteq Pwm /\ moved \subseteq Targets
    /\ want \in [Targets -> Values] /\ lost \subseteq Targets
    /\ missed \in {"no", "offline", "failed", "unreadable"}
    /\ inputs \in 0 .. MaxInputs

\* What a control says is so. It may stay wrong after the user moved it: a switch shows what was
\* asked of a pin that is an input, and a slider a value whose command was lost, until the next update.
ControlIsRight(t) ==
    \/ screen.controls[t] = IF t = "gpio" THEN pins ELSE set[t]
    \/ t \in moved /\ (t = "gpio" \/ t \in lost)

\* The controls tell the state of the sensor node, and the reading drawn is within the threshold of the
\* sensor's, or one of them was never read.
ScreenIsRight ==
    /\ \A t \in Targets : ControlIsRight(t)
    /\ ~ValueChanged(screen.update.ambient.temp, current.ambient.temp)

\* The commands on their way to t_io, in the order in which it will apply them.
Coming == queue \o toSensor

\* Nothing is on its way in either direction, and t_io has told the model what is.
Settled ==
    /\ Coming = <<>> /\ toHmi = <<>> /\ ~hmi.has
    /\ pub = "idle" /\ ~ShouldPublish
    /\ current.pwm = set /\ current.gpio = pins

\* Nothing is left undone (data_model.c of both nodes, t_io.c, ui_screens.c): with nothing on its way
\* any more, the screen is right if the last update reached the HMI, and every output is as the user
\* last asked, unless that command was lost. No update is overtaken by an older one, none is passed over
\* by the mailbox, and no change of the model slips between a snapshot and what it is compared with next.
SettledIsRight ==
    Settled => /\ missed = "no" => ScreenIsRight
               /\ \A t \in Targets \ lost : outputs[t] = want[t]

\* The snapshots on their way: the one the HMI's data model keeps for ui_task, those of the connection,
\* and the one that is being sent.
Snapshots ==
    (IF hmi.has THEN <<hmi.last>> ELSE <<>>) \o toHmi
    \o (IF pub = "send" THEN <<published>> ELSE <<>>)

Screen ==
    INSTANCE Feed WITH
        Models <- Updates, First <- AtBoot,
        source <- current, coming <- Snapshots, shown <- screen.update

\* What the user sees is a snapshot that data_model_build took whole, and never an older one after a
\* newer: the loop of app_main, the connection, hmi_data_model_set_update, which overwrites, and
\* hmi_data_model_get_update implement Feed.
SnapshotsInOrder == Screen!Spec

\* A session that lasts, and that the last update reached.
Delivered == open /\ missed = "no"

\* The screen catches up (app_main.c's loop, data_model.c of both nodes, ui_screens.c): in a session
\* that lasts and that the last update reached, the HMI ends up showing the PWM settings, the port and
\* the readings as they are, whatever changed between the decision to publish, the
\* count and the snapshot, however many updates were overwritten before they were drawn, and although
\* an update that is on its way when the user moves a control moves it back.
ScreenCatchesUp == <>[]Delivered => <>[]ScreenIsRight

\* A control takes effect (t_io.c's queue, the callbacks of ui_screens.c): unless the queue, the
\* connection or the I2C bus lost it since, or the release of the slider sent the value of an update
\* that was drawn meanwhile, what the user last asked of an output is what its register holds in the end.
CommandsTakeEffect ==
    \A t \in Targets : <>[](open /\ t \notin lost) => <>[](outputs[t] = want[t])

(***************************************************************************)
(* Why SettledIsRight holds.                                               *)
(***************************************************************************)

\* What was published last is drawn, or is the last of what will be, unless it was missed.
PublishedIsComing ==
    missed = "no" /\ pub # "send" =>
      published = IF toHmi # <<>> THEN toHmi[Len(toHmi)]
                  ELSE IF hmi.has THEN hmi.last ELSE screen.update

\* A control stands where the user moved it, or where the update that was drawn last put it.
ControlsFollow ==
    \A t \in Targets :
      screen.controls[t] = IF t \in moved THEN want[t] ELSE Controls(screen.update)[t]

\* The last command on its way to a target carries what the user last asked of it; if there is none, that
\* is what t_io has and what the register holds.
CommandIsComing ==
    \A t \in Targets \ lost :
      LET its == {i \in DOMAIN Coming : Coming[i].target = t}
      IN  \/ \E i \in its : Coming[i].value = want[t] /\ \A j \in its : j <= i
          \/ its = {} /\ outputs[t] = want[t] /\ (t \in Pwm => set[t] = want[t])

\* The inductive invariant.
TelemetryInv == TelemetryTypeOK /\ PublishedIsComing /\ ControlsFollow /\ CommandIsComing
=============================================================================
