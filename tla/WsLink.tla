------------------------------- MODULE WsLink -------------------------------
(***************************************************************************)
(* One HMI and the sensor node at the two ends of an encrypted WebSocket:  *)
(* the frame counters of ws_security.c, the session events, the sender and *)
(* the reconnect timer of the HMI's common/net/ws_client.c.                *)
(*                                                                         *)
(* On the HMI three tasks share the client's static variables, without a   *)
(* lock: the UI task sends (sender), the task of esp_websocket_client runs *)
(* websocket_event_handler (hmi.ev), the timer task runs                   *)
(* reconnect_timer_cb (retry).  The sensor's end is the part of WsServer a *)
(* single session sees.  A connection delivers frames in order and once;   *)
(* those in flight are lost with it.  A frame is its counter.              *)
(***************************************************************************)
EXTENDS Doubling, Sequences

CONSTANTS
    MinDelay, MaxDelay,   \* reconnect_min_delay_ms, reconnect_max_delay_ms
    MaxCounter,           \* bound on the frame counters, 2^64 - 1 in the code
    MaxInFlight,          \* frames a connection buffers before a send blocks
    MaxFails              \* bound on the counted failures since the last connection

ASSUME WsLinkAssumption ==
    /\ MinDelay \in Nat \ {0} /\ MaxDelay \in Nat /\ MinDelay <= MaxDelay
    /\ MaxCounter \in Nat \ {0} /\ MaxInFlight \in Nat \ {0}
    /\ MaxFails \in Nat \ {0}

VARIABLES
    hmi,        \* statics of ws_client.c: s_connected, s_reconnect_delay_ms, the counters
    sender,     \* the UI task in ws_client_send, with the counter it has in hand
    retry,      \* s_reconnect_timer: armed, and with which period; history: its callback failed
    lib,        \* external: the state of esp_websocket_client
    sensor,     \* tx_counter of the sensor's context, last_counter of the HMI's slot
    toSensor, toHmi,   \* external: frames in flight
    up,         \* external: the sensor can be reached
    fails,      \* history: DISCONNECTED events since the last CONNECTED
    overlap     \* history: a send overlapped the CONNECTED event of this session

vars == <<hmi, sender, retry, lib, sensor, toSensor, toHmi, up, fails, overlap>>

Counters == 0 .. MaxCounter
Smaller(a, b) == IF a < b THEN a ELSE b

-----------------------------------------------------------------------------
\* net_task has not started the client yet.
Init ==
    /\ hmi = [connected |-> FALSE, delay |-> MinDelay, tx |-> 0, rx |-> 0, ev |-> "idle"]
    /\ sender = [pc |-> "idle", ctr |-> 0]
    /\ retry = [armed |-> FALSE, period |-> MinDelay, failed |-> FALSE]
    /\ lib = "none"
    /\ sensor = [tx |-> 0, last |-> 0]
    /\ toSensor = <<>> /\ toHmi = <<>>
    /\ up = TRUE
    /\ fails = 0
    /\ overlap = FALSE

\* ws_client_start, which net_task repeats every 5 s until it succeeds; a failure leaves nothing.
Start ==
    /\ lib = "none"
    /\ lib' = "connecting"
    /\ hmi' = [connected |-> FALSE, delay |-> MinDelay, tx |-> 0, rx |-> 0, ev |-> "idle"]
    /\ retry' = [armed |-> FALSE, period |-> MinDelay, failed |-> FALSE]
    /\ UNCHANGED <<sender, sensor, toSensor, toHmi, up, fails, overlap>>

(***************************************************************************)
(* websocket_event_handler.                                                *)
(***************************************************************************)

\* Fault: a connection does not reset the reconnect delay.
ConnectedKeepsDelay ==
    /\ lib = "connecting" /\ up
    /\ lib' = "open"
    /\ sensor' = [sensor EXCEPT !.last = 0]
    /\ hmi' = [hmi EXCEPT !.connected = TRUE, !.ev = "reset"]
    /\ fails' = 0
    /\ overlap' = (sender.pc # "idle")
    /\ UNCHANGED <<sender, retry, toSensor, toHmi, up>>

\* The sensor registers the session with last_counter 0; WEBSOCKET_EVENT_CONNECTED sets
\* s_connected and the delay ...
Connected ==
    /\ lib = "connecting" /\ up
    /\ lib' = "open"
    /\ sensor' = [sensor EXCEPT !.last = 0]
    /\ hmi' = [hmi EXCEPT !.connected = TRUE, !.delay = MinDelay, !.ev = "reset"]
    /\ fails' = 0
    /\ overlap' = (sender.pc # "idle")
    /\ UNCHANGED <<sender, retry, toSensor, toHmi, up>>

\* Fault: only the transmit counter is reset.
ResetTxOnly ==
    /\ hmi.ev = "reset"
    /\ hmi' = [hmi EXCEPT !.tx = 0, !.ev = "idle"]
    /\ UNCHANGED <<sender, retry, lib, sensor, toSensor, toHmi, up, fails, overlap>>

\* ... and then resets both counters.
ResetCounters ==
    /\ hmi.ev = "reset"
    /\ hmi' = [hmi EXCEPT !.tx = 0, !.rx = 0, !.ev = "idle"]
    /\ UNCHANGED <<sender, retry, lib, sensor, toSensor, toHmi, up, fails, overlap>>

\* s_reconnect_delay_ms after a DISCONNECTED.
NextDelay(delay) == IF delay < MaxDelay THEN Smaller(2 * delay, MaxDelay) ELSE delay

\* Fault: the timer is not started again after a failed attempt.
DisconnectedArmsOnce ==
    /\ hmi.ev = "idle"
    /\ lib = "lost" \/ (lib = "connecting" /\ ~up)
    /\ retry' = [retry EXCEPT !.armed = (lib = "lost"), !.period = Smaller(hmi.delay, MaxDelay)]
    /\ hmi' = [hmi EXCEPT !.connected = FALSE, !.delay = NextDelay(@)]
    /\ lib' = "stopped"
    /\ fails' = Smaller(fails + 1, MaxFails)
    /\ UNCHANGED <<sender, sensor, toSensor, toHmi, up, overlap>>

\* WEBSOCKET_EVENT_DISCONNECTED, for a connection that was lost or could not be made.
Disconnected ==
    /\ hmi.ev = "idle"
    /\ lib = "lost" \/ (lib = "connecting" /\ ~up)
    /\ retry' = [retry EXCEPT !.armed = TRUE, !.period = Smaller(hmi.delay, MaxDelay)]
    /\ hmi' = [hmi EXCEPT !.connected = FALSE, !.delay = NextDelay(@)]
    /\ lib' = "stopped"
    /\ fails' = Smaller(fails + 1, MaxFails)
    /\ UNCHANGED <<sender, sensor, toSensor, toHmi, up, overlap>>

\* WEBSOCKET_EVENT_DATA: ws_security_decrypt with &s_rx_counter; a stale frame is skipped.
Data ==
    /\ lib = "open" /\ hmi.ev = "idle" /\ toHmi # <<>>
    /\ hmi' = [hmi EXCEPT !.rx = IF Head(toHmi) > @ THEN Head(toHmi) ELSE @]
    /\ toHmi' = Tail(toHmi)
    /\ UNCHANGED <<sender, retry, lib, sensor, toSensor, up, fails, overlap>>

(***************************************************************************)
(* reconnect_timer_cb, a one-shot timer.                                   *)
(***************************************************************************)

\* Headers rebuilt, client_start called.
RetryStarts ==
    /\ retry.armed
    /\ retry' = [retry EXCEPT !.armed = FALSE]
    /\ lib' = IF lib = "stopped" THEN "connecting" ELSE lib
    /\ UNCHANGED <<hmi, sender, sensor, toSensor, toHmi, up, fails, overlap>>

\* Headers not rebuilt: the callback returns. The result of client_start is not looked at.
RetryFails ==
    /\ retry.armed
    /\ retry' = [retry EXCEPT !.armed = FALSE, !.failed = TRUE]
    /\ UNCHANGED <<hmi, sender, lib, sensor, toSensor, toHmi, up, fails, overlap>>

Retry == RetryStarts \/ RetryFails

(***************************************************************************)
(* ws_client_send, in the UI task.                                         *)
(***************************************************************************)

SendChecks ==
    /\ sender.pc = "idle" /\ lib # "none" /\ hmi.connected
    /\ sender' = [pc |-> "read", ctr |-> 0]
    /\ overlap' = (overlap \/ hmi.ev = "reset")
    /\ UNCHANGED <<hmi, retry, lib, sensor, toSensor, toHmi, up, fails>>

\* Fault: the counter is used before it is incremented.
SendReadsStale ==
    /\ sender.pc = "read" /\ hmi.tx < MaxCounter
    /\ sender' = [pc |-> "write", ctr |-> hmi.tx]
    /\ UNCHANGED <<hmi, retry, lib, sensor, toSensor, toHmi, up, fails, overlap>>

\* ++tx_counter is a read and a write: the event handler may reset the counter in between.
SendReads ==
    /\ sender.pc = "read" /\ hmi.tx < MaxCounter
    /\ sender' = [pc |-> "write", ctr |-> hmi.tx + 1]
    /\ UNCHANGED <<hmi, retry, lib, sensor, toSensor, toHmi, up, fails, overlap>>

SendWrites ==
    /\ sender.pc = "write"
    /\ hmi' = [hmi EXCEPT !.tx = sender.ctr]
    /\ sender' = [sender EXCEPT !.pc = "send"]
    /\ UNCHANGED <<retry, lib, sensor, toSensor, toHmi, up, fails, overlap>>

\* client_send_bin puts the frame into the connection, once there is room.
SendBin ==
    /\ sender.pc = "send" /\ lib = "open" /\ Len(toSensor) < MaxInFlight
    /\ toSensor' = Append(toSensor, sender.ctr)
    /\ sender' = [pc |-> "idle", ctr |-> 0]
    /\ UNCHANGED <<hmi, retry, lib, sensor, toHmi, up, fails, overlap>>

\* The buffer is not allocated, or the encryption fails after the increment, or the send fails.
SendFails ==
    /\ sender.pc \in {"read", "send"}
    /\ sender' = [pc |-> "idle", ctr |-> 0]
    /\ UNCHANGED <<hmi, retry, lib, sensor, toSensor, toHmi, up, fails, overlap>>

(***************************************************************************)
(* The sensor node and the network.                                        *)
(***************************************************************************)

\* The session ends: what was in flight is lost, the HMI has yet to notice.
SessionEnds ==
    /\ lib' = IF lib = "open" THEN "lost" ELSE lib
    /\ toSensor' = <<>> /\ toHmi' = <<>>

\* ws_server_send: the frame is encrypted whether or not somebody is connected.
Publish ==
    /\ up /\ sensor.tx < MaxCounter /\ Len(toHmi) < MaxInFlight
    /\ sensor' = [sensor EXCEPT !.tx = @ + 1]
    /\ toHmi' = IF lib = "open" THEN Append(toHmi, sensor.tx + 1) ELSE toHmi
    /\ UNCHANGED <<hmi, sender, retry, lib, toSensor, up, fails, overlap>>

\* Fault: a counter that was seen already is accepted.
ReceiveAgain ==
    /\ toSensor # <<>> /\ Head(toSensor) >= sensor.last
    /\ sensor' = [sensor EXCEPT !.last = Head(toSensor)]
    /\ toSensor' = Tail(toSensor)
    /\ UNCHANGED <<hmi, sender, retry, lib, toHmi, up, fails, overlap>>

\* ws_handler accepts the frame ...
Receive ==
    /\ toSensor # <<>> /\ Head(toSensor) > sensor.last
    /\ sensor' = [sensor EXCEPT !.last = Head(toSensor)]
    /\ toSensor' = Tail(toSensor)
    /\ UNCHANGED <<hmi, sender, retry, lib, toHmi, up, fails, overlap>>

\* ... or logs "Replay detected" and closes the session.
Reject ==
    /\ toSensor # <<>> /\ Head(toSensor) <= sensor.last
    /\ SessionEnds
    /\ UNCHANGED <<hmi, sender, retry, sensor, up, fails, overlap>>

\* The network fails, or the sensor node restarts with its counter at 0.
Outage(reboot) ==
    /\ up /\ up' = FALSE
    /\ sensor' = IF reboot THEN [tx |-> 0, last |-> 0] ELSE sensor
    /\ SessionEnds
    /\ UNCHANGED <<hmi, sender, retry, fails, overlap>>

Recover ==
    /\ ~up /\ up' = TRUE
    /\ UNCHANGED <<hmi, sender, retry, lib, sensor, toSensor, toHmi, fails, overlap>>

-----------------------------------------------------------------------------
EventHandler == Connected \/ ResetCounters \/ Disconnected \/ Data
Sender == SendChecks \/ SendReads \/ SendWrites \/ SendBin \/ SendFails
Sensor == Publish \/ Receive \/ Reject

Next ==
    \/ Start \/ EventHandler \/ Retry \/ Sender \/ Sensor \/ Recover
    \/ \E reboot \in BOOLEAN : Outage(reboot)

\* Each task of the HMI runs when it can. Nobody has to send or to publish, no outage has to end.
Fairness ==
    /\ WF_vars(Start)
    /\ WF_vars(Connected \/ ResetCounters \/ Disconnected)
    /\ WF_vars(Retry)

Spec == Init /\ [][Next]_vars /\ Fairness

-----------------------------------------------------------------------------
\* The statics of the client and the state of the library keep their types; the reconnect delay
\* stays between its bounds.
LinkTypeOK ==
    /\ hmi \in [connected : BOOLEAN, delay : MinDelay .. MaxDelay, tx : Counters, rx : Counters,
                ev : {"idle", "reset"}]
    /\ sender \in [pc : {"idle", "read", "write", "send"}, ctr : Counters]
    /\ retry \in [armed : BOOLEAN, period : MinDelay .. MaxDelay, failed : BOOLEAN]
    /\ lib \in {"none", "connecting", "open", "lost", "stopped"}
    /\ sensor \in [tx : Counters, last : Counters]
    /\ toSensor \in Seq(Counters) /\ Len(toSensor) <= MaxInFlight
    /\ toHmi \in Seq(Counters) /\ Len(toHmi) <= MaxInFlight
    /\ up \in BOOLEAN /\ fails \in 0 .. MaxFails /\ overlap \in BOOLEAN

\* The HMI skips no update of the sensor as a replay: the frames in flight to an HMI that has handled
\* its CONNECTED event are newer than everything it has decrypted, although the sensor never resets
\* its counter for a session and restarts it at 0 when it reboots.
SensorFramesAccepted ==
    lib = "open" /\ hmi.ev = "idle" =>
        \A i \in 1 .. Len(toHmi) : toHmi[i] > (IF i = 1 THEN hmi.rx ELSE toHmi[i - 1])

\* The sensor takes a frame of the HMI for a replay, and closes the session, only if in this session
\* a send overlapped the CONNECTED event: otherwise the counters of both ends started at 0 together.
RejectOnlyAfterOverlap ==
    toSensor # <<>> /\ Head(toSensor) <= sensor.last => overlap

\* The period the timer is armed with is the minimum delay doubled for every DISCONNECTED since the
\* last CONNECTED but the first, up to the maximum ("reconnect delay backs off and saturates").
BackoffDoubles ==
    retry.armed /\ fails < MaxFails =>
        fails > 0 /\ retry.period = Smaller(MinDelay * Pow2[fails - 1], MaxDelay)

\* The link is a session as Session describes it (ws_security_decrypt at both ends): while the HMI has
\* yet to reset its counters it has taken no frame of the session, whatever s_rx_counter says.
Link ==
    INSTANCE Session WITH
        Numbers <- Counters,
        open <- lib = "open",
        spoiled <- lib = "open" /\ overlap,
        sensorHeard <- IF lib = "open" THEN sensor.last ELSE 0,
        hmiHeard <- IF lib = "open" /\ hmi.ev = "idle" THEN hmi.rx ELSE 0

\* Every frame is taken once, in order and within its session, no frame of a session is taken for a
\* replay unless a send overlapped its CONNECTED event, and nothing else but an outage ends it.
SessionKept == Link!Spec

(***************************************************************************)
(* Why these hold: the counters and the delay at both ends, step by step.  *)
(***************************************************************************)

\* The counters of s ascend, above low and up to high.
Ascending(s, low, high) ==
    /\ \A i \in DOMAIN s : low < s[i] /\ s[i] <= high
    /\ \A i, j \in DOMAIN s : i < j => s[i] < s[j]

\* Frames are in flight only on an open connection.
NothingInFlight == lib # "open" => toSensor = <<>> /\ toHmi = <<>>

\* The frames to the sensor are newer than what it accepted and not newer than the HMI's counter; the
\* one in the sender's hand is newer than those in flight. Before the counters are reset there is none.
ToSensorInOrder ==
    lib = "open" /\ ~overlap =>
      \/ hmi.ev = "reset" /\ sender.pc = "idle" /\ toSensor = <<>> /\ sensor.last = 0
      \/ /\ hmi.ev = "idle" /\ sensor.last <= hmi.tx /\ Ascending(toSensor, sensor.last, hmi.tx)
         /\ sender.pc = "write" => sender.ctr = hmi.tx + 1
         /\ sender.pc = "send" => /\ sender.ctr = hmi.tx /\ sensor.last < hmi.tx
                                  /\ Ascending(toSensor, sensor.last, hmi.tx - 1)

\* The frames to the HMI are not newer than the sensor's counter; they are newer than what the HMI
\* decrypted once it has reset its counters.
ToHmiInOrder ==
    lib = "open" =>
      /\ Ascending(toHmi, 0, sensor.tx)
      /\ hmi.ev = "idle" => hmi.rx <= sensor.tx /\ Ascending(toHmi, hmi.rx, sensor.tx)

\* The delay for the next DISCONNECTED is the minimum doubled for every one before it, up to the
\* maximum; the timer is armed only while the client is stopped.
DelayFollowsFails ==
    /\ retry.armed => lib = "stopped"
    /\ lib = "none" => fails = 0
    /\ fails < MaxFails => hmi.delay = Smaller(MinDelay * Pow2[fails], MaxDelay)
    /\ BackoffDoubles

\* The inductive invariant.
LinkInv ==
    LinkTypeOK /\ NothingInFlight /\ ToSensorInOrder /\ ToHmiInOrder /\ DelayFollowsFails

\* The HMI comes back (the DISCONNECTED event arms the timer, its callback starts the client) as long as
\* no callback failed to: once the sensor can be reached for good, it is never disconnected for good,
\* whatever outages, reboots and rejected frames came before.
ReconnectsUnlessRestartFails == <>[](up /\ ~retry.failed) => []<>hmi.connected
=============================================================================
