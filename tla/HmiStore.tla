------------------------------ MODULE HmiStore -------------------------------
(***************************************************************************)
(* The preferences and the discovery of the HMI side by side: two tasks of *)
(* one node, over one NVS partition.  A restart is a restart of both, and  *)
(* a partition that has no free page, or is of another version, is erased  *)
(* for both when it is opened (ensure_secure_nvs).                         *)
(***************************************************************************)
EXTENDS Prefs, Discovery

hmiStoreVars == <<prefsVars, discoveryVars>>

HmiStoreInit == PrefsInit /\ DiscoveryInit

UiTask == PrefsNext /\ UNCHANGED discoveryVars
NetTask == DiscoveryNext /\ UNCHANGED prefsVars

\* Power is lost, or a task aborts.
Reboot == PrefsReboot /\ DiscoveryReboot

\* hmi_prefs_store_init at boot erases the partition.
RebootErases == PrefsWiped /\ DiscoveryWiped

HmiStoreNext == UiTask \/ NetTask \/ Reboot \/ RebootErases

HmiStoreSpec == HmiStoreInit /\ [][HmiStoreNext]_hmiStoreVars

-----------------------------------------------------------------------------
\* Every variable of the two components has its type; the clock has not wrapped.
HmiStoreTypeOK == PrefsTypeOK /\ DiscoveryTypeOK

\* The inductive invariant.
HmiStoreInv == PrefsInv /\ DiscoveryInv
=============================================================================
