--------------------------------- MODULE Ota ---------------------------------
(***************************************************************************)
(* ota_update.c on a node with two application slots: the task that marks  *)
(* the running image valid, downloads the image the server offers, records *)
(* its version and restarts into it, with its retries and back-off.        *)
(*                                                                         *)
(* External, modelled from how ota_task uses them: esp_https_ota (an error *)
(* may come from each of its calls), the slots and the bootloader with     *)
(* rollback enabled (a new image that is restarted before it was marked    *)
(* valid is given up for the other slot), the server, the NVS and the      *)
(* validate callback, which the documentation asks for and the two nodes   *)
(* do not set.  Power may be lost at every step.                           *)
(***************************************************************************)
EXTENDS Doubling, FiniteSetsExt

CONSTANTS
    Images,          \* what the server may offer: [version, kind], a kind is "good", one that
                     \* "crashes" soon after boot or one that is "deaf", never on the network
    First,           \* the image the node was flashed with
    None,            \* no image, or no version
    MaxRetries,      \* max_retries, 5
    InitialBackoff,  \* initial_backoff_ms, 5000
    MaxBackoff,      \* max_backoff_ms, 60000
    MaxFaults        \* bound on losses of power, NVS and flash errors and changes of the server

ASSUME OtaAssumption ==
    /\ \A i \in Images \cup {First} : i.version \in Nat /\ i.kind \in {"good", "crashes", "deaf"}
    /\ First.kind = "good" /\ None \notin Nat /\ None \notin Images
    /\ MaxRetries \in Nat \ {0} /\ InitialBackoff \in Nat \ {0} /\ MaxBackoff \in Nat
    /\ InitialBackoff <= MaxBackoff /\ MaxFaults \in Nat

VARIABLES
    cfg,       \* which node, and the callback and auto_reboot of its ota_update_config_t
    pc,        \* where app_main, and then ota_task, is
    attempt, backoff,
    loaded,    \* stored_version of ota_task
    image,     \* new_desc of ota_perform_update
    slots,     \* external: the two application slots
    run, boot, \* external: the slot that runs, and the one to be booted
    stored,    \* external: last_version in the NVS
    served,    \* external: the image of the server
    installs,  \* history: how often each version was installed, up to MaxFaults + 2
    forgot,    \* history: how often the record of a version was lost or not read
    faults     \* faults so far

task == <<pc, attempt, backoff, loaded, image>>
flash == <<slots, run, boot, stored>>
history == <<installs, forgot>>
vars == <<cfg, task, flash, served, history, faults>>

Versions == {i.version : i \in Images \cup {First}}
Slot == {"a", "b"}
Other(s) == CHOOSE o \in Slot : o # s
Running == slots[run].img
Fault == faults < MaxFaults /\ faults' = faults + 1

Init ==
    /\ cfg \in [node : {"hmi", "sensor"}, validate : BOOLEAN, auto_reboot : BOOLEAN]
    /\ pc = "app" /\ attempt = 0 /\ backoff = InitialBackoff /\ loaded = None /\ image = None
    /\ slots = [a |-> [img |-> First, state |-> "valid"], b |-> [img |-> None, state |-> "empty"]]
    /\ run = "a" /\ boot = "a" /\ stored = None
    /\ served \in Images
    /\ installs = [v \in Versions |-> 0] /\ forgot = 0 /\ faults = 0

-----------------------------------------------------------------------------
\* The bootloader: a new image gets one boot to be marked valid in.
Restarts ==
    LET failed == slots[boot].state = "pending"
        next == IF failed THEN Other(boot) ELSE boot
    IN
    /\ run' = next /\ boot' = next
    /\ slots' = [s \in Slot |->
                   IF failed /\ s = boot THEN [slots[s] EXCEPT !.state = "aborted"]
                   ELSE IF s = next /\ slots[s].state = "new" THEN [slots[s] EXCEPT !.state = "pending"]
                   ELSE slots[s]]
    /\ pc' = "app" /\ attempt' = 0 /\ backoff' = InitialBackoff /\ loaded' = None /\ image' = None
    /\ UNCHANGED <<cfg, stored, served>>

\* Fault: the update is scheduled before the services are started.
SchedulesFirst ==
    /\ pc = "app"
    /\ pc' = "delay"
    /\ UNCHANGED <<cfg, attempt, backoff, loaded, image, flash, served, history, faults>>

\* app_main and ota_update_schedule. The sensor node gets here with the network up: until then its
\* app_main is in wifi_manager_start, the HMI's is not.
Schedules ==
    /\ pc = "app" /\ ~(cfg.node = "sensor" /\ Running.kind = "deaf")
    /\ pc' = "delay"
    /\ UNCHANGED <<cfg, attempt, backoff, loaded, image, flash, served, history, faults>>

\* wifi_manager_start fails on the sensor node, in ESP_ERROR_CHECK.
StartFails ==
    /\ pc = "app" /\ cfg.node = "sensor" /\ Running.kind = "deaf"
    /\ Restarts
    /\ UNCHANGED <<history, faults>>

\* The image crashes before or in the delay of ota_task.
ImageCrashes ==
    /\ pc \in {"app", "delay"} /\ Running.kind = "crashes"
    /\ Restarts
    /\ UNCHANGED <<history, faults>>

(***************************************************************************)
(* ota_task.                                                               *)
(***************************************************************************)

\* esp_ota_mark_app_valid_cancel_rollback, after check_delay_ms and before the wait for the network.
MarksValid ==
    /\ pc = "delay" /\ Running.kind # "crashes"
    /\ slots' = [slots EXCEPT ![run].state = "valid"]
    /\ pc' = "connect"
    /\ UNCHANGED <<cfg, attempt, backoff, loaded, image, run, boot, stored, served, history, faults>>

\* It fails: a warning.
MarkFails ==
    /\ pc = "delay" /\ Running.kind # "crashes" /\ Fault
    /\ pc' = "connect"
    /\ UNCHANGED <<cfg, attempt, backoff, loaded, image, flash, served, history>>

\* wait_for_connectivity returns true, ota_load_last_version.
LoadsVersion ==
    /\ pc = "connect" /\ Running.kind # "deaf"
    /\ loaded' = stored
    /\ pc' = "check" /\ attempt' = 1
    /\ UNCHANGED <<cfg, backoff, image, flash, served, history, faults>>

\* The NVS cannot be read: the task goes on as if nothing was stored.
LoadFails ==
    /\ pc = "connect" /\ Running.kind # "deaf" /\ stored # None /\ Fault
    /\ loaded' = None /\ forgot' = forgot + 1
    /\ pc' = "check" /\ attempt' = 1
    /\ UNCHANGED <<cfg, backoff, image, flash, served, installs>>

\* Fault: the back-off is doubled and not limited.
NextBackoffUnlimited == 2 * backoff

\* The next delay, computed in 64 bits.
NextBackoff == IF 2 * backoff > MaxBackoff THEN MaxBackoff ELSE 2 * backoff

\* Fault: one attempt too many.
RetriesOnceMore ==
    IF attempt <= MaxRetries
    THEN pc' = "check" /\ attempt' = attempt + 1 /\ backoff' = NextBackoff
    ELSE pc' = "done" /\ UNCHANGED <<attempt, backoff>>

\* An attempt failed with should_retry.
Retries ==
    IF attempt < MaxRetries
    THEN pc' = "check" /\ attempt' = attempt + 1 /\ backoff' = NextBackoff
    ELSE pc' = "done" /\ UNCHANGED <<attempt, backoff>>

\* The callback the documentation asks for: no downgrade, and not the version applied last.
Accepts(new) ==
    cfg.validate => /\ new.version > Running.version
                    /\ loaded # None => new.version > loaded

\* esp_https_ota_begin, esp_https_ota_get_img_desc and the callback.
Checks ==
    /\ pc = "check" /\ Accepts(served)
    /\ image' = served
    /\ pc' = "transfer"
    /\ UNCHANGED <<cfg, attempt, backoff, loaded, flash, served, history, faults>>

\* The callback rejects the image: no retry.
Rejects ==
    /\ pc = "check" /\ ~Accepts(served)
    /\ pc' = "done"
    /\ UNCHANGED <<cfg, attempt, backoff, loaded, image, flash, served, history, faults>>

\* The server does not answer, or the descriptor cannot be read.
CheckFails ==
    /\ pc = "check"
    /\ Retries
    /\ UNCHANGED <<cfg, loaded, image, flash, served, history, faults>>

\* esp_https_ota_perform up to its end: it erases the slot that does not run, which it refuses to do
\* while the running image is not valid.
Transfers ==
    /\ pc = "transfer" /\ slots[run].state = "valid"
    /\ slots' = [slots EXCEPT ![Other(run)] = [img |-> None, state |-> "empty"]]
    /\ pc' = "finish"
    /\ UNCHANGED <<cfg, attempt, backoff, loaded, image, run, boot, stored, served, history, faults>>

TransferFails ==
    /\ pc \in {"transfer", "finish"}
    /\ Retries
    /\ UNCHANGED <<cfg, loaded, image, flash, served, history, faults>>

\* esp_https_ota_finish: the image is checked, and is the one to boot.
Finishes ==
    /\ pc = "finish"
    /\ slots' = [slots EXCEPT ![Other(run)] = [img |-> image, state |-> "new"]]
    /\ boot' = Other(run)
    /\ installs' = [installs EXCEPT ![image.version] = Min({@ + 1, MaxFaults + 2})]
    /\ pc' = "store"
    /\ UNCHANGED <<cfg, attempt, backoff, loaded, image, run, stored, served, forgot, faults>>

\* ESP_ERR_OTA_VALIDATE_FAILED: no retry.
FinishFails ==
    /\ pc = "finish"
    /\ pc' = "done"
    /\ UNCHANGED <<cfg, attempt, backoff, loaded, image, flash, served, history, faults>>

\* Fault: the version recorded is the one that runs.
StoresRunningVersion ==
    /\ pc = "store"
    /\ stored' = Running.version
    /\ pc' = IF cfg.auto_reboot THEN "restart" ELSE "done"
    /\ UNCHANGED <<cfg, attempt, backoff, loaded, image, slots, run, boot, served, history, faults>>

\* ota_store_last_version
StoresVersion ==
    /\ pc = "store"
    /\ stored' = image.version
    /\ pc' = IF cfg.auto_reboot THEN "restart" ELSE "done"
    /\ UNCHANGED <<cfg, attempt, backoff, loaded, image, slots, run, boot, served, history, faults>>

\* It fails: a warning.
StoreFails ==
    /\ pc = "store" /\ Fault
    /\ forgot' = forgot + 1
    /\ pc' = IF cfg.auto_reboot THEN "restart" ELSE "done"
    /\ UNCHANGED <<cfg, attempt, backoff, loaded, image, flash, served, installs>>

\* esp_restart
RestartsIntoNew ==
    /\ pc = "restart"
    /\ Restarts
    /\ UNCHANGED <<history, faults>>

(***************************************************************************)
(* The outside world.                                                      *)
(***************************************************************************)

LosesPower ==
    /\ Fault
    /\ Restarts
    /\ forgot' = IF pc = "store" THEN forgot + 1 ELSE forgot
    /\ UNCHANGED installs

ServerChanges(new) ==
    /\ served # new /\ Fault
    /\ served' = new
    /\ UNCHANGED <<cfg, task, flash, history>>

-----------------------------------------------------------------------------
Attempt ==
    \/ Checks \/ Rejects \/ CheckFails \/ Transfers \/ TransferFails \/ Finishes \/ FinishFails
    \/ StoresVersion \/ StoreFails \/ RestartsIntoNew

Step ==
    \/ Schedules \/ StartFails \/ ImageCrashes \/ MarksValid \/ MarkFails \/ LoadsVersion \/ LoadFails
    \/ Attempt

Next == Step \/ LosesPower \/ \E new \in Images : ServerChanges(new)

\* The task runs.
Fairness == WF_vars(Step)

Spec == Init /\ [][Next]_vars /\ Fairness

-----------------------------------------------------------------------------
\* Every variable of the task and of the flash has its type.
OtaTypeOK ==
    /\ cfg \in [node : {"hmi", "sensor"}, validate : BOOLEAN, auto_reboot : BOOLEAN]
    /\ pc \in {"app", "delay", "connect", "check", "transfer", "finish", "store", "restart", "done"}
    /\ attempt \in 0 .. MaxRetries /\ backoff \in Nat
    /\ loaded \in Versions \cup {None} /\ stored \in Versions \cup {None}
    /\ image \in Images \cup {None}
    /\ slots \in [Slot -> [img : Images \cup {First, None},
                           state : {"empty", "new", "pending", "valid", "aborted"}]]
    /\ run \in Slot /\ boot \in Slot /\ served \in Images /\ faults \in 0 .. MaxFaults
    /\ installs \in [Versions -> Nat] /\ forgot \in 0 .. MaxFaults

\* The delays are the documented ones (ota_task: 5 s, 10 s, 20 s ... up to 60 s): before attempt n the
\* back-off was doubled n - 1 times up to its limit, which it never passes.
BackoffAsDocumented ==
    /\ attempt <= MaxRetries
    /\ backoff = IF attempt = 0 THEN InitialBackoff
                 ELSE Min({InitialBackoff * Pow2[attempt - 1], MaxBackoff})

\* A node that can be updated can be saved (ota_task, app_main): whenever the image to be booted may
\* still be given up, the other slot holds one that was marked valid; and an image that was marked
\* valid has outlived the delay and, on the sensor node, has been on the network.
SafeToBoot ==
    /\ slots[boot].state \in {"new", "pending", "valid"}
    /\ slots[boot].state # "valid" => slots[Other(boot)].state = "valid"
    /\ \A s \in Slot : slots[s].state = "valid" =>
         /\ slots[s].img.kind # "crashes"
         /\ cfg.node = "sensor" => slots[s].img.kind # "deaf"

\* With the callback a version is installed once, and once more for each time its record in the NVS
\* was lost (ota_store_last_version fails or power is lost just before it, ota_load_last_version
\* fails): an image that was rolled back is not downloaded again at every boot.
InstalledOnce == cfg.validate => \A v \in Versions : installs[v] <= 1 + forgot

(***************************************************************************)
(* Why these hold.                                                         *)
(***************************************************************************)

\* Before its first attempt the task has counted none, and afterwards at least one.
AttemptsCounted == attempt = 0 <=> pc \in {"app", "delay", "connect"}

\* Until an image is finished the slot that runs is the one to be booted; while one is finished it is
\* valid. A slot that is not empty has an image, and the sensor node that is past app_main is not deaf.
SlotsInOrder ==
    /\ pc \notin {"store", "restart", "done"} => boot = run
    /\ pc = "finish" => slots[run].state = "valid"
    /\ \A s \in Slot : slots[s].state # "empty" => slots[s].img \in Images \cup {First}
    /\ pc # "app" /\ cfg.node = "sensor" => Running.kind # "deaf"
    /\ pc \in {"transfer", "finish", "store"} => image \in Images

\* With the callback, a version that was installed more often than records were lost is not newer
\* than the record: the one in the NVS, the one the task has read, or the one about to be written.
Recorded(v) ==
    /\ pc # "store" => stored # None /\ v <= stored
    /\ pc \in {"check", "transfer", "finish"} => loaded # None /\ v <= loaded
    /\ pc = "store" => v <= image.version

RecordsKept ==
    /\ forgot <= faults
    /\ cfg.validate => \A v \in Versions : installs[v] > forgot => Recorded(v)
    /\ cfg.validate /\ pc \in {"transfer", "finish", "store"} /\ loaded # None => image.version > loaded

\* The inductive invariant.
OtaInv ==
    /\ OtaTypeOK /\ BackoffAsDocumented /\ SafeToBoot /\ InstalledOnce
    /\ AttemptsCounted /\ SlotsInOrder /\ RecordsKept

\* With the callback the node comes to rest on an image that works (or, on the HMI, on one that waits
\* for a network): it does not go on downloading and restarting. Without it, as the nodes are
\* configured, the same image is installed again after every boot.
ComesToRest == cfg.validate => <>[](pc = "done" \/ (pc = "connect" /\ Running.kind = "deaf"))
=============================================================================
