-------------------------------- MODULE Wifi ---------------------------------
(***************************************************************************)
(* wifi_manager.c and its callers: how a node gets on the network and      *)
(* stays there.                                                            *)
(*                                                                         *)
(* wifi_manager_start runs in a task of the node (app_main of the sensor   *)
(* node, net_task of the HMI) and waits on the bits of an event group;     *)
(* wifi_event_handler and provisioning_event_handler run in the event task *)
(* and set them; reconnect_timer_cb runs in the timer task.  The station,  *)
(* the provisioning manager, the user's phone and the network are          *)
(* external.  A handler is one step.                                       *)
(*                                                                         *)
(* The HMI calls wifi_manager_start again when it fails; on the sensor     *)
(* node the call is in ESP_ERROR_CHECK, and a failure restarts the node.   *)
(***************************************************************************)
EXTENDS Doubling, Sequences

CONSTANTS
    InitialBackoff,  \* s_backoff_ms at boot, 1000
    BackoffCap,      \* s_backoff_ms doubles below this, 32000
    MaxAttempts,     \* max_connect_attempts
    MaxChanges       \* bound on changes of the network, on restarts and on lost credentials

ASSUME WifiAssumption ==
    /\ InitialBackoff \in Nat \ {0} /\ BackoffCap \in Nat
    /\ \E k \in 0 .. BackoffCap : BackoffCap = InitialBackoff * Pow2[k]  \* 32000 = 1000 * 2^5
    /\ MaxAttempts \in Nat \ {0} /\ MaxChanges \in Nat

VARIABLES
    node,         \* "hmi" or "sensor"
    pc,           \* where the caller of wifi_manager_start is
    attempts,     \* attempts of the wait loop
    bits,         \* s_wifi_event_group
    s_connected,
    timer,        \* s_reconnect_timer is running
    backoff,      \* s_backoff_ms
    inited,       \* external: esp_wifi_init was called since boot
    started,      \* external: the driver was started since boot
    sta,          \* external: "down", "connecting", "joined" (no address yet) or "up"
    events,       \* external: events posted and not handled
    provisioned,  \* external: credentials are stored in flash
    net,          \* external: "off", "noip" (it answers, but gives no address) or "on"
    changes       \* changes of the outside world so far

task == <<node, pc, attempts>>
manager == <<bits, s_connected, timer, backoff>>
driver == <<inited, started, sta, events>>
world == <<provisioned, net, changes>>
vars == <<task, manager, driver, world>>

Bits == {"CONNECTED", "FAIL", "PROV_DONE"}
Events == {"STA_START", "STA_DISCONNECTED", "GOT_IP", "CRED_SUCCESS"}

\* What a restart leaves in memory.
Booted ==
    /\ pc' = "idle" /\ attempts' = 0
    /\ bits' = {} /\ s_connected' = FALSE /\ timer' = FALSE /\ backoff' = InitialBackoff
    /\ inited' = FALSE /\ started' = FALSE /\ sta' = "down" /\ events' = <<>>
    /\ node' = node

Init ==
    /\ node \in {"hmi", "sensor"} /\ pc = "idle" /\ attempts = 0
    /\ bits = {} /\ s_connected = FALSE /\ timer = FALSE /\ backoff = InitialBackoff
    /\ inited = FALSE /\ started = FALSE /\ sta = "down" /\ events = <<>>
    /\ provisioned \in BOOLEAN /\ net \in {"off", "noip", "on"} /\ changes = 0

-----------------------------------------------------------------------------
(***************************************************************************)
(* The driver, external.                                                   *)
(***************************************************************************)

\* esp_wifi_connect does nothing without credentials, and nothing while the station is busy.
AfterConnect(state) == IF state = "down" /\ provisioned THEN "connecting" ELSE state

\* esp_wifi_disconnect posts an event when there was something to end.
AfterDisconnect == IF sta = "down" THEN events ELSE Append(events, "STA_DISCONNECTED")

StaJoins ==
    /\ sta = "connecting" /\ net # "off"
    /\ sta' = "joined"
    /\ UNCHANGED <<task, manager, inited, started, events, world>>

\* The provisioning manager, while it runs, reports the address as its success.
StaGetsAddress ==
    /\ sta = "joined" /\ net = "on"
    /\ sta' = "up"
    /\ events' = events \o (IF pc = "provision" THEN <<"GOT_IP", "CRED_SUCCESS">> ELSE <<"GOT_IP">>)
    /\ UNCHANGED <<task, manager, inited, started, world>>

StaFails ==
    /\ sta # "down" /\ net = "off"
    /\ sta' = "down"
    /\ events' = Append(events, "STA_DISCONNECTED")
    /\ UNCHANGED <<task, manager, inited, started, world>>

(***************************************************************************)
(* The event task and the timer task.                                      *)
(***************************************************************************)

\* Fault: a lost connection starts no timer.
DisconnectedNoTimer ==
    /\ s_connected' = FALSE
    /\ bits' = (bits \ {"CONNECTED"}) \cup {"FAIL"}
    /\ UNCHANGED <<timer, backoff, sta>>

\* Fault: the status is left as it was.
DisconnectedKeepsStatus ==
    /\ bits' = (bits \ {"CONNECTED"}) \cup {"FAIL"}
    /\ timer' = TRUE
    /\ backoff' = IF backoff < BackoffCap THEN 2 * backoff ELSE backoff
    /\ UNCHANGED <<s_connected, sta>>

\* Fault: the back-off doubles at its cap as well.
DisconnectedDoublesAlways ==
    /\ s_connected' = FALSE
    /\ bits' = (bits \ {"CONNECTED"}) \cup {"FAIL"}
    /\ timer' = TRUE
    /\ backoff' = IF backoff <= BackoffCap THEN 2 * backoff ELSE backoff
    /\ UNCHANGED sta

\* wifi_event_handler, WIFI_EVENT_STA_DISCONNECTED: the timer runs anew with the present back-off.
Disconnected ==
    /\ s_connected' = FALSE
    /\ bits' = (bits \ {"CONNECTED"}) \cup {"FAIL"}
    /\ timer' = TRUE
    /\ backoff' = IF backoff < BackoffCap THEN 2 * backoff ELSE backoff
    /\ UNCHANGED sta

\* wifi_event_handler, WIFI_EVENT_STA_START
StaStart ==
    /\ sta' = AfterConnect(sta)
    /\ UNCHANGED manager

\* wifi_event_handler, IP_EVENT_STA_GOT_IP
GotIp ==
    /\ s_connected' = TRUE
    /\ backoff' = InitialBackoff
    /\ bits' = bits \cup {"CONNECTED"}
    /\ UNCHANGED <<timer, sta>>

\* provisioning_event_handler, WIFI_PROV_CRED_SUCCESS; its other events only log, or stop the manager.
CredSuccess ==
    /\ bits' = bits \cup {"PROV_DONE"}
    /\ UNCHANGED <<s_connected, timer, backoff, sta>>

HandlesEvent ==
    /\ events # <<>>
    /\ events' = Tail(events)
    /\ \/ Head(events) = "STA_START" /\ StaStart
       \/ Head(events) = "STA_DISCONNECTED" /\ Disconnected
       \/ Head(events) = "GOT_IP" /\ GotIp
       \/ Head(events) = "CRED_SUCCESS" /\ CredSuccess
    /\ UNCHANGED <<task, inited, started, world>>

\* Fault: no reconnection once the back-off has reached its cap.
ReconnectGivesUp ==
    /\ timer
    /\ timer' = FALSE
    /\ sta' = IF backoff < BackoffCap THEN AfterConnect(sta) ELSE sta
    /\ UNCHANGED <<task, bits, s_connected, backoff, inited, started, events, world>>

\* reconnect_timer_cb
ReconnectTimer ==
    /\ timer
    /\ timer' = FALSE
    /\ sta' = AfterConnect(sta)
    /\ UNCHANGED <<task, bits, s_connected, backoff, inited, started, events, world>>

(***************************************************************************)
(* wifi_manager_start.                                                     *)
(***************************************************************************)

\* The call fails with these bits left and this done to the station: ESP_ERROR_CHECK restarts the
\* sensor node, net_task of the HMI tries again.
Fails(left, Station) ==
    \/ node = "sensor" /\ Booted
    \/ /\ node = "hmi" /\ pc' = "idle"
       /\ bits' = left /\ Station
       /\ UNCHANGED <<node, attempts, s_connected, timer, backoff, inited, started>>

\* init_nvs_secure: the partition may be full or of another version, and is erased.
InitNvs ==
    \/ UNCHANGED <<provisioned, changes>>
    \/ /\ provisioned /\ changes < MaxChanges
       /\ provisioned' = FALSE /\ changes' = changes + 1

\* The first call since boot, with what the flash says: the stored credentials are used, or the
\* provisioning manager is started, which starts the driver.
StartManager ==
    /\ pc = "idle" /\ ~inited
    /\ InitNvs
    /\ inited' = TRUE
    /\ IF provisioned'
       THEN /\ bits' = bits \cup {"PROV_DONE"}
            /\ pc' = "start"
            /\ UNCHANGED <<started, events>>
       ELSE /\ bits' = {}
            /\ pc' = "provision"
            /\ started' = TRUE
            /\ events' = Append(events, "STA_START")
    /\ UNCHANGED <<node, attempts, s_connected, timer, backoff, sta, net>>

\* A later call of the HMI: ESP_ERR_INVALID_STATE, which ensure_wifi_ready takes for success.
StartAgain ==
    /\ pc = "idle" /\ inited
    /\ pc' = "ready"
    /\ UNCHANGED <<node, attempts, manager, driver, world>>

\* xEventGroupWaitBits takes PROV_DONE away.
ProvisioningDone ==
    /\ pc = "provision" /\ "PROV_DONE" \in bits
    /\ bits' = bits \ {"PROV_DONE"}
    /\ pc' = "start"
    /\ UNCHANGED <<node, attempts, s_connected, timer, backoff, driver, world>>

ProvisioningTimesOut ==
    /\ pc = "provision" /\ "PROV_DONE" \notin bits
    /\ Fails(bits, UNCHANGED <<sta, events>>)
    /\ UNCHANGED world

\* esp_wifi_start posts STA_START unless provisioning has started the driver.
StartDriver ==
    /\ pc = "start"
    /\ started' = TRUE
    /\ events' = IF started THEN events ELSE Append(events, "STA_START")
    /\ pc' = "clear"
    /\ UNCHANGED <<node, attempts, manager, inited, sta, world>>

\* The bits are cleared after the driver was started: what was reported meanwhile is forgotten.
ClearsBits ==
    /\ pc = "clear"
    /\ bits' = bits \ {"CONNECTED", "FAIL"}
    /\ attempts' = 0
    /\ pc' = "wait"
    /\ UNCHANGED <<node, s_connected, timer, backoff, driver, world>>

\* The wait takes both bits away.
WaitConnected ==
    /\ pc = "wait" /\ "CONNECTED" \in bits
    /\ bits' = bits \ {"CONNECTED", "FAIL"}
    /\ pc' = "ready"
    /\ UNCHANGED <<node, attempts, s_connected, timer, backoff, driver, world>>

WaitFailed ==
    /\ pc = "wait" /\ "CONNECTED" \notin bits /\ "FAIL" \in bits
    /\ IF attempts + 1 >= MaxAttempts
       THEN Fails(bits \ {"FAIL"}, UNCHANGED <<sta, events>>)
       ELSE /\ attempts' = attempts + 1
            /\ bits' = bits \ {"FAIL"}
            /\ UNCHANGED <<node, pc, s_connected, timer, backoff, driver>>
    /\ UNCHANGED world

\* What a wait that timed out does to the station: esp_wifi_disconnect, esp_wifi_connect.
TimedOut ==
    /\ events' = AfterDisconnect
    /\ sta' = AfterConnect("down")

\* The wait ends without CONNECTED and without FAIL. xEventGroupWaitBits then returns all bits of the
\* group: with PROV_DONE among them, which only the use of stored credentials leaves set, bits == 0
\* is false, nothing is counted and the loop waits again. The time-out is longer than the steps of a
\* station that makes progress.
WaitTimesOut ==
    /\ pc = "wait" /\ bits = {}
    /\ events = <<>> /\ ~(sta = "connecting" /\ net # "off") /\ ~(sta = "joined" /\ net = "on")
    /\ IF attempts + 1 >= MaxAttempts
       THEN Fails(bits, TimedOut)
       ELSE /\ attempts' = attempts + 1
            /\ TimedOut
            /\ UNCHANGED <<node, pc, manager, inited, started>>
    /\ UNCHANGED world

(***************************************************************************)
(* The outside world.                                                      *)
(***************************************************************************)

\* The user gives the credentials to the provisioning manager, which stores them and connects.
UserProvisions ==
    /\ pc = "provision" /\ ~provisioned /\ sta = "down"
    /\ provisioned' = TRUE
    /\ sta' = "connecting"
    /\ UNCHANGED <<task, manager, inited, started, events, net, changes>>

NetChanges(state) ==
    /\ changes < MaxChanges /\ state # net
    /\ net' = state
    /\ changes' = changes + 1
    /\ UNCHANGED <<task, manager, driver, provisioned>>

\* A reset, or a failed ESP_ERROR_CHECK on the way (prepare_provisioning, the NVS, the driver).
Restart ==
    /\ changes < MaxChanges
    /\ Booted
    /\ changes' = changes + 1
    /\ UNCHANGED <<provisioned, net>>

-----------------------------------------------------------------------------
Radio == StaJoins \/ StaGetsAddress \/ StaFails
Start ==
    \/ StartManager \/ StartAgain \/ ProvisioningDone \/ ProvisioningTimesOut \/ StartDriver
    \/ ClearsBits \/ WaitConnected \/ WaitFailed \/ WaitTimesOut

Next ==
    \/ Radio \/ HandlesEvent \/ ReconnectTimer \/ Start
    \/ UserProvisions \/ Restart
    \/ \E state \in {"off", "noip", "on"} : NetChanges(state)

\* The tasks run, the timer fires, the station makes progress and a wait ends in its time.
Fairness ==
    /\ WF_vars(HandlesEvent) /\ WF_vars(ReconnectTimer) /\ WF_vars(Start)
    /\ WF_vars(StaJoins) /\ WF_vars(StaGetsAddress) /\ WF_vars(StaFails)

Spec == Init /\ [][Next]_vars /\ Fairness

-----------------------------------------------------------------------------
\* The doublings of the first back-off up to the cap.
Backoffs == {b \in 0 .. BackoffCap : \E k \in 0 .. BackoffCap : b = InitialBackoff * Pow2[k]}

\* s_backoff_ms (wifi_manager.c, wifi_event_handler) stays a doubling of its first value that is not
\* past its cap, attempts stays below its limit, and every variable has its type.
WifiTypeOK ==
    /\ node \in {"hmi", "sensor"} /\ attempts \in 0 .. (MaxAttempts - 1)
    /\ pc \in {"idle", "provision", "start", "clear", "wait", "ready"}
    /\ bits \subseteq Bits /\ s_connected \in BOOLEAN /\ timer \in BOOLEAN
    /\ inited \in BOOLEAN /\ started \in BOOLEAN /\ provisioned \in BOOLEAN
    /\ backoff \in Backoffs
    /\ sta \in {"down", "connecting", "joined", "up"} /\ events \in Seq(Events)
    /\ net \in {"off", "noip", "on"} /\ changes \in 0 .. MaxChanges

\* The link is looked after (wifi_event_handler, reconnect_timer_cb): wherever wifi_manager_start is,
\* and whatever it returned, a station that is down with credentials to use has the reconnection
\* timer running once the events are handled: no order of events, time-outs and timer leaves the node
\* off the network for good.
LinkLookedAfter ==
    started /\ provisioned /\ sta = "down" /\ events = <<>> => timer

\* What wifi_manager_is_connected says is so as soon as the events are handled, over a provisioning,
\* the disconnect of a time-out and an outage.
StatusFollowsLink == events = <<>> => (s_connected <=> sta = "up")

(***************************************************************************)
(* Why the last two hold: what they say of an empty queue, said of any.    *)
(***************************************************************************)

\* The last of the pending events that report the link, or else the status, says what the link is.
Reports == {"GOT_IP", "STA_DISCONNECTED"}
Tells(evs, status, link) ==
    /\ (\A i \in DOMAIN evs : evs[i] \notin Reports) => (status <=> link = "up")
    /\ \A i \in DOMAIN evs :
         evs[i] \in Reports /\ (\A j \in DOMAIN evs : j > i => evs[j] \notin Reports)
           => (evs[i] = "GOT_IP" <=> link = "up")

\* A station that is down with credentials to use has the timer running, or an event pending that
\* connects it or starts the timer.
WillBeLookedAfter ==
    started /\ provisioned /\ sta = "down"
      => timer \/ \E i \in DOMAIN events : events[i] \in {"STA_START", "STA_DISCONNECTED"}

\* The inductive invariant.
WifiInv == WifiTypeOK /\ Tells(events, s_connected, sta) /\ WillBeLookedAfter

\* A node with credentials gets on a network that stays, and stays on it, whatever happened before:
\* outages, a network without addresses, restarts, an expired provisioning, lost wake-ups.
OnlineOnceProvisioned == <>[](net = "on" /\ provisioned) => <>[]s_connected

\* wifi_manager_start returns: the header comment of the function says "ESP_OK when the station is
\* connected, otherwise an error code", and the configuration limits the attempts and their duration.
StartReturns == pc = "wait" ~> pc # "wait"
=============================================================================
