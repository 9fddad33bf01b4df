------------------------------ MODULE HmiProofs ------------------------------
(***************************************************************************)
(* What the HMI keeps and what it shows.                                   *)
(*                                                                         *)
(* Its preferences and its discovery, for every set of languages and       *)
(* scales, every set of announcements, every time to live and any number   *)
(* of failures and restarts: among it that the preferences implement       *)
(* Settings.                                                               *)
(*                                                                         *)
(* The loop from its controls to the sensor node and back to its screen,   *)
(* for every set of channels and values, every threshold, every depth of   *)
(* the queue and of the connection and every width of the counter: among   *)
(* it that the screen implements Feed.                                     *)
(***************************************************************************)
EXTENDS HmiStore, Telemetry, SequenceTheorems, TLAPS


-----------------------------------------------------------------------------
(***************************************************************************)
(* sanitize_preferences and the load.                                      *)
(***************************************************************************)

\* The defaults are settings that a user could choose.
LEMMA DefaultsChosen == Defaults \in UserChoices
  BY PrefsAssumption DEF Defaults, UserChoices

\* What the form gives is left as it is.
LEMMA SanitizeKeeps ==
    ASSUME NEW p \in UserChoices
    PROVE  Sanitize(p) = p
  BY DEF Sanitize, UserChoices

\* Whatever is stored, a load gives what the form could have given.
LEMMA LoadedChosen ==
    ASSUME NEW b \in Blobs
    PROVE  Loaded(b) \in UserChoices
<1>1. CASE b \in {NoBlob, OddBlob}
  BY <1>1, DefaultsChosen DEF Loaded
<1>2. CASE b \notin {NoBlob, OddBlob}
  <2>1. b \in [scale : Scales \cup {Garbage}, lang : Languages \cup {Garbage}]
    BY <1>2 DEF Blobs
  <2>2. Sanitize(b) \in UserChoices
    BY <2>1, PrefsAssumption DEF Sanitize, UserChoices
  <2> QED
    BY <1>2, <2>2 DEF Loaded
<1> QED
  BY <1>1, <1>2

\* What is saved can be stored, and comes back as it was.
LEMMA SavedLoads ==
    ASSUME NEW p \in UserChoices
    PROVE  p \in Blobs /\ Loaded(p) = p
<1>1. p \in [scale : Scales \cup {Garbage}, lang : Languages \cup {Garbage}]
  BY DEF UserChoices
<1>2. p \notin {NoBlob, OddBlob}
  BY <1>1, PrefsAssumption
<1> QED
  BY <1>1, <1>2, SanitizeKeeps DEF Blobs, Loaded

-----------------------------------------------------------------------------
(***************************************************************************)
(* The preferences.                                                        *)
(***************************************************************************)

\* After the first load every copy is what was loaded.
LEMMA InitPrefsInv == PrefsInit => PrefsInv
  BY DefaultsChosen, LoadedChosen
     DEF PrefsInit, PrefsInv, PrefsTypeOK, CopiesFollowModel, FormFollowsModel

\* What ui_apply_preferences shows of the model's preferences.
LEMMA ShowsModel ==
    ASSUME NEW p \in UserChoices, Shows(p)
    PROVE  /\ active' = p /\ form' \in UserChoices /\ touched' = {}
           /\ \A f \in Fields : form'[f] = p[f] \/ (f = "lang" /\ form'[f] = 0)
  BY PrefsAssumption DEF Shows, UserChoices, Fields

\* A restart, of either kind, starts again with what is stored.
LEMMA RebootPrefsInv ==
    ASSUME blob' \in Blobs, model' \in UserChoices, ui' = "boot", touched' = {},
           s_prefs' = Defaults, active' = Defaults, form' = Defaults
    PROVE  PrefsInv'
  BY DefaultsChosen DEF PrefsInv, PrefsTypeOK, CopiesFollowModel, FormFollowsModel

\* No step of the UI task or of the store lets the copies and the form drift apart.
LEMMA NextPrefsInv ==
    ASSUME PrefsInv, PrefsNext
    PROVE  PrefsInv'
<1> USE DEF PrefsInv, PrefsTypeOK, CopiesFollowModel, FormFollowsModel
<1>1. CASE UiStarts
  BY <1>1, ShowsModel DEF UiStarts
<1>2. CASE AppliesToModel
  BY <1>2, SanitizeKeeps DEF AppliesToModel, FromForm
<1>3. CASE Saves
  BY <1>3, SanitizeKeeps, SavedLoads DEF Saves
<1>4. CASE SaveFails
  BY <1>4 DEF SaveFails
<1>5. CASE ShowsApplied
  BY <1>5, ShowsModel DEF ShowsApplied
<1>6. CASE Resets
  BY <1>6, ShowsModel, DefaultsChosen DEF Resets
<1>7. CASE Erases
  BY <1>7 DEF Erases, Blobs
<1>8. CASE EraseFails
  BY <1>8 DEF EraseFails
<1>9. ASSUME NEW f \in Fields, NEW p \in UserChoices, UserEdits(f, p)
      PROVE  PrefsInv'
  <2>1. form' \in UserChoices /\ \A g \in Fields \ {f} : form'[g] = form[g]
    BY <1>9 DEF UserEdits, UserChoices, Fields
  <2> QED
    BY <1>9, <2>1 DEF UserEdits
<1> QED
  BY <1>1, <1>2, <1>3, <1>4, <1>5, <1>6, <1>7, <1>8, <1>9 DEF PrefsNext

-----------------------------------------------------------------------------
(***************************************************************************)
(* The preferences implement Settings.                                     *)
(***************************************************************************)

\* What was loaded first is what the abstract settings start with.
LEMMA InitPromise == PrefsInit => Promise!Init
  BY LoadedChosen DEF PrefsInit, Promise!Init

\* Every step of ui_task is one of Settings, or none.
LEMMA NextPromise ==
    ASSUME PrefsInv, PrefsNext
    PROVE  [Promise!Next]_<<model, Loaded(blob)>>
<1> USE DEF PrefsInv, PrefsTypeOK, CopiesFollowModel
<1>1. CASE UiStarts
  BY <1>1 DEF UiStarts
<1>2. CASE AppliesToModel
  <2>1. model' \in UserChoices /\ blob' = blob
    BY <1>2, SanitizeKeeps DEF AppliesToModel, FromForm
  <2>2. Promise!Chooses(model')
    BY <2>1 DEF Promise!Chooses
  <2> QED
    BY <2>1, <2>2 DEF Promise!Next
<1>3. CASE Saves
  <2>1. blob' = model /\ model' = model
    BY <1>3, SanitizeKeeps DEF Saves
  <2>2. Promise!Keeps
    BY <2>1, SavedLoads DEF Promise!Keeps
  <2> QED
    BY <2>2 DEF Promise!Next
<1>4. CASE SaveFails
  BY <1>4 DEF SaveFails
<1>5. CASE ShowsApplied
  BY <1>5 DEF ShowsApplied
<1>6. CASE Resets
  <2>1. model' = Defaults /\ blob' = blob
    BY <1>6 DEF Resets
  <2>2. Promise!Chooses(Defaults)
    BY <2>1 DEF Promise!Chooses
  <2> QED
    BY <2>2, DefaultsChosen DEF Promise!Next
<1>7. CASE Erases
  <2>1. blob' = NoBlob /\ model' = model /\ model = Defaults
    BY <1>7 DEF Erases
  <2>2. Promise!Keeps
    BY <2>1 DEF Promise!Keeps, Loaded
  <2> QED
    BY <2>2 DEF Promise!Next
<1>8. CASE EraseFails
  BY <1>8 DEF EraseFails
<1>9. ASSUME NEW f \in Fields, NEW p \in UserChoices, UserEdits(f, p)
      PROVE  UNCHANGED <<model, Loaded(blob)>>
  BY <1>9 DEF UserEdits
<1> QED
  BY <1>1, <1>2, <1>3, <1>4, <1>5, <1>6, <1>7, <1>8, <1>9 DEF PrefsNext

\* A restart brings back what is kept or the defaults; an erased partition keeps the defaults.
LEMMA RebootPromise ==
    /\ PrefsReboot => Promise!Next
    /\ PrefsWiped => Promise!Next
<1>1. ASSUME PrefsReboot PROVE Promise!Restarts
  BY <1>1 DEF PrefsReboot, Promise!Restarts
<1>2. ASSUME PrefsWiped PROVE Promise!Loses
  BY <1>2 DEF PrefsWiped, Promise!Loses, Loaded
<1> QED
  BY <1>1, <1>2 DEF Promise!Next

\* Applying the form leaves alone what was not touched.
LEMMA AppliesUntouched ==
    ASSUME PrefsInv, AppliesToModel
    PROVE  \A f \in Fields \ touched : model'[f] = model[f] \/ (f = "lang" /\ model'[f] = 0)
<1>1. model' = form
  BY SanitizeKeeps DEF PrefsInv, PrefsTypeOK, AppliesToModel, FromForm
<1> QED
  BY <1>1 DEF PrefsInv, FormFollowsModel, AppliesToModel

-----------------------------------------------------------------------------
(***************************************************************************)
(* The discovery.                                                          *)
(***************************************************************************)

\* An announcement that can be used is an answer.
LEMMA AnswerOf ==
    ASSUME NEW s \in Services, Usable(s)
    PROVE  <<Uri(s), Sni(s)>> \in Pairs /\ Uri(s) \in Uris
<1>1. <<Uri(s), Sni(s)>> \in Pairs
  BY DEF Pairs
<1> QED
  BY <1>1 DEF Uris

\* The keys of the cache after the first n writes: old or of the answer, and all of the answer after
\* the last.
LEMMA StoredKeys ==
    ASSUME NEW s, NEW n \in 0 .. 3
    PROVE  /\ Stored(s, n).uri \in {Uri(s), cache.uri}
           /\ Stored(s, n).sni \in {Sni(s), cache.sni}
           /\ Stored(s, n).ts \in {now, cache.ts}
           /\ n = 3 => Stored(s, n).uri = Uri(s) /\ Stored(s, n).sni = Sni(s)
<1> DEFINE entry == [uri |-> Uri(s), sni |-> Sni(s), ts |-> now]
           Written(k) == \E i \in 1 .. n : StoreOrder[i] = k
<1>1. Stored(s, n) = [k \in Keys |-> IF Written(k) THEN entry[k] ELSE cache[k]]
  BY DEF Stored
<1>2. n = 3 => Written("uri") /\ Written("sni")
  <2>1. StoreOrder[1] = "uri" /\ StoreOrder[2] = "sni"
    BY DEF StoreOrder
  <2> QED
    BY <2>1
<1>3. entry["uri"] = Uri(s) /\ entry["sni"] = Sni(s) /\ entry["ts"] = now
  OBVIOUS
<1> HIDE DEF Written, entry
<1>4. /\ Stored(s, n)["uri"] = IF Written("uri") THEN entry["uri"] ELSE cache["uri"]
      /\ Stored(s, n)["sni"] = IF Written("sni") THEN entry["sni"] ELSE cache["sni"]
      /\ Stored(s, n)["ts"] = IF Written("ts") THEN entry["ts"] ELSE cache["ts"]
  BY <1>1 DEF Keys
<1> QED
  BY <1>2, <1>3, <1>4

\* A cache that was erased has no key.
LEMMA EmptyKeys == Empty.uri = None /\ Empty.sni = None /\ Empty.ts = None
  BY DEF Empty, Keys

\* A purge keeps what is known of the cache, whatever it leaves and whatever fails afterwards.
LEMMA PurgesCache ==
    ASSUME DiscoveryTypeOK, Purges
    PROVE  /\ cache'.uri # None => cache'.uri \in Uris
           /\ cache'.sni # None => \E p \in Pairs : cache'.sni = p[2]
           /\ cache'.ts \in (0 .. MaxUptime) \cup {None}
           /\ torn' \in BOOLEAN /\ changes' \in 0 .. MaxChanges
           /\ torn' \/ cache'.uri = None
<1> USE DEF DiscoveryTypeOK
<1>1. CASE cache' = Empty /\ torn' = FALSE /\ UNCHANGED changes
  BY <1>1, EmptyKeys
<1>2. ASSUME Change, torn' = TRUE, NEW left \in SUBSET Keys,
             cache' = [k \in Keys |-> IF k \in left THEN cache[k] ELSE None]
      PROVE  /\ cache'.uri # None => cache'.uri \in Uris
             /\ cache'.sni # None => \E p \in Pairs : cache'.sni = p[2]
             /\ cache'.ts \in (0 .. MaxUptime) \cup {None}
             /\ torn' \in BOOLEAN /\ changes' \in 0 .. MaxChanges
             /\ torn' \/ cache'.uri = None
  <2>1. /\ cache'.uri \in {cache.uri, None} /\ cache'.sni \in {cache.sni, None}
        /\ cache'.ts \in {cache.ts, None}
    BY <1>2 DEF Keys
  <2>2. changes' \in 0 .. MaxChanges
    BY <1>2, DiscoveryAssumption DEF Change
  <2> QED
    BY <1>2, <2>1, <2>2
<1> QED
  BY <1>1, <1>2 DEF Purges

\* Nothing is known before the first answer.
LEMMA InitDiscoveryInv == DiscoveryInit => DiscoveryInv
<1> SUFFICES ASSUME DiscoveryInit PROVE DiscoveryInv
  OBVIOUS
<1>1. now \in 0 .. MaxUptime /\ changes \in 0 .. MaxChanges
  BY DiscoveryAssumption DEF DiscoveryInit
<1>2. target.uri = None /\ target.from = "none"
  BY DEF DiscoveryInit, NoTarget
<1>3. DiscoveryTypeOK
  BY <1>1, <1>2, EmptyKeys DEF DiscoveryInit, DiscoveryTypeOK
<1> QED
  BY <1>2, <1>3, EmptyKeys
     DEF DiscoveryInit, DiscoveryInv, CacheWhole, TargetKnown, PairFromOneAnswer, FailedNotReused

\* A restart of either kind.
LEMMA RebootDiscoveryInv ==
    ASSUME DiscoveryInv, DiscoveryReboot \/ DiscoveryWiped
    PROVE  DiscoveryInv'
<1> USE DEF DiscoveryInv
<1>1. net' = "idle" /\ target'.uri = None /\ target'.from = "none" /\ now' \in 0 .. MaxUptime
  BY DiscoveryAssumption DEF DiscoveryReboot, DiscoveryWiped, NoTarget
<1>2. /\ UNCHANGED <<sensor, failed, changes>>
      /\ UNCHANGED <<cache, torn>> \/ (cache' = Empty /\ torn' = FALSE)
  BY DEF DiscoveryReboot, DiscoveryWiped, history
<1>3. DiscoveryTypeOK'
  BY <1>1, <1>2, EmptyKeys DEF DiscoveryTypeOK
<1>4. CacheWhole'
  BY <1>2, EmptyKeys DEF CacheWhole
<1>5. TargetKnown' /\ PairFromOneAnswer' /\ FailedNotReused'
  BY <1>1 DEF TargetKnown, PairFromOneAnswer, FailedNotReused
<1> QED
  BY <1>3, <1>4, <1>5

\* No step of the discovery leaves a torn cache that is not known to be torn, or a target of two
\* origins.
LEMMA NextDiscoveryInv ==
    ASSUME DiscoveryInv, DiscoveryNext
    PROVE  DiscoveryInv'
<1> USE DEF DiscoveryInv
<1>1. CASE StartsDiscovery
  <2>1. target'.uri = None /\ target'.from = "none"
    BY <1>1 DEF StartsDiscovery, NoTarget
  <2> QED
    BY <1>1, <2>1
       DEF StartsDiscovery, world, history, DiscoveryTypeOK, CacheWhole, TargetKnown,
           PairFromOneAnswer, FailedNotReused
<1>2. CASE Discovers
  <2>1. PICK n \in 0 .. 3 :
          /\ n = 3 \/ changes < MaxChanges
          /\ changes' = IF n = 3 THEN changes ELSE changes + 1
          /\ cache' = Stored(sensor, n)
          /\ torn' = (n # 3)
    BY <1>2 DEF Discovers, StoresService
  <2>2. <<Uri(sensor), Sni(sensor)>> \in Pairs /\ Uri(sensor) \in Uris
    BY AnswerOf DEF DiscoveryTypeOK
  <2>3. /\ target'.uri = Uri(sensor) /\ target'.from = "mdns" /\ net' = "start"
        /\ failed' = failed \ {Uri(sensor)} /\ UNCHANGED <<now, sensor>>
    BY <1>2 DEF Discovers, world
  <2>4. changes' \in 0 .. MaxChanges
    BY <2>1, DiscoveryAssumption DEF DiscoveryTypeOK
  <2>5. DiscoveryTypeOK'
    <3>1. cache'.uri # None => cache'.uri \in Uris
      BY <2>1, <2>2, StoredKeys DEF DiscoveryTypeOK
    <3>2. cache'.sni # None => \E p \in Pairs : cache'.sni = p[2]
      <4>1. cache'.sni = cache.sni \/ cache'.sni = <<Uri(sensor), Sni(sensor)>>[2]
        BY <2>1, StoredKeys
      <4> QED
        BY <2>2, <4>1 DEF DiscoveryTypeOK
    <3>3. cache'.ts \in (0 .. MaxUptime) \cup {None}
      BY <2>1, StoredKeys DEF DiscoveryTypeOK
    <3> QED
      BY <2>1, <2>3, <2>4, <3>1, <3>2, <3>3 DEF DiscoveryTypeOK
  <2>6. CacheWhole'
    BY <2>1, <2>2, <2>3, StoredKeys DEF CacheWhole
  <2>7. TargetKnown' /\ PairFromOneAnswer' /\ FailedNotReused'
    BY <2>2, <2>3 DEF TargetKnown, PairFromOneAnswer, FailedNotReused
  <2> QED
    BY <2>5, <2>6, <2>7
<1>3. CASE UsesCache
  <2>1. /\ target'.uri = cache.uri /\ target'.sni = cache.sni /\ target'.from = "cache"
        /\ net' = "start" /\ cache.uri # None
        /\ UNCHANGED <<cache, now, sensor, failed, torn, changes>>
    BY <1>3 DEF UsesCache, CacheLoads, world, history
  <2>2. DiscoveryTypeOK' /\ CacheWhole'
    BY <2>1 DEF DiscoveryTypeOK, CacheWhole
  <2>3. TargetKnown' /\ PairFromOneAnswer' /\ FailedNotReused'
    BY <2>1 DEF DiscoveryTypeOK, CacheWhole, TargetKnown, PairFromOneAnswer, FailedNotReused
  <2> QED
    BY <2>2, <2>3
<1>4. CASE UsesHostname
  <2>1. /\ target'.uri.addr = Configured /\ target'.from = "config"
        /\ net' = "start" /\ UNCHANGED <<now, sensor, failed>>
        /\ Purges \/ UNCHANGED <<cache, torn, changes>>
    BY <1>4 DEF UsesHostname, world
  <2>2. DiscoveryTypeOK' /\ CacheWhole'
    BY <2>1, PurgesCache DEF DiscoveryTypeOK, CacheWhole
  <2>3. TargetKnown' /\ PairFromOneAnswer' /\ FailedNotReused'
    BY <2>1 DEF TargetKnown, PairFromOneAnswer, FailedNotReused
  <2> QED
    BY <2>2, <2>3
<1>5. CASE ClientStarts
  BY <1>5
     DEF ClientStarts, world, history, DiscoveryTypeOK, CacheWhole, TargetKnown,
         PairFromOneAnswer, FailedNotReused
<1>6. CASE ClientStartFails
  <2>1. net' = "idle" /\ Purges /\ UNCHANGED <<target, now, sensor, failed>>
    BY <1>6 DEF ClientStartFails, world
  <2>2. DiscoveryTypeOK' /\ CacheWhole'
    BY <2>1, PurgesCache DEF DiscoveryTypeOK, CacheWhole
  <2>3. TargetKnown' /\ PairFromOneAnswer' /\ FailedNotReused'
    BY <2>1 DEF TargetKnown, PairFromOneAnswer, FailedNotReused
  <2> QED
    BY <2>2, <2>3
<1>7. CASE TransportError
  <2>1. /\ net = "running" /\ Purges /\ failed' = failed \cup {target.uri}
        /\ UNCHANGED <<net, target, now, sensor>>
    BY <1>7 DEF TransportError, world
  <2>2. target.uri \in Uris
    BY <1>7 DEF TransportError, Reachable, TargetKnown, DiscoveryTypeOK
  <2>3. DiscoveryTypeOK' /\ CacheWhole'
    BY <2>1, <2>2, PurgesCache DEF DiscoveryTypeOK, CacheWhole
  <2>4. TargetKnown' /\ PairFromOneAnswer' /\ FailedNotReused'
    BY <2>1 DEF TargetKnown, PairFromOneAnswer, FailedNotReused
  <2> QED
    BY <2>3, <2>4
<1>8. CASE Tick
  <2>1. now' \in 0 .. MaxUptime /\ UNCHANGED <<cache, net, target, sensor, failed, torn, changes>>
    BY <1>8, DiscoveryAssumption DEF Tick, history, DiscoveryTypeOK
  <2> QED
    BY <2>1 DEF DiscoveryTypeOK, CacheWhole, TargetKnown, PairFromOneAnswer, FailedNotReused
<1>9. ASSUME NEW s \in Services, SensorMoves(s)
      PROVE  DiscoveryInv'
  <2>1. /\ changes' \in 0 .. MaxChanges /\ sensor' = s /\ Usable(s)
        /\ UNCHANGED <<cache, net, target, now, failed, torn>>
    BY <1>9, DiscoveryAssumption DEF SensorMoves, Change, history, DiscoveryTypeOK
  <2> QED
    BY <2>1 DEF DiscoveryTypeOK, CacheWhole, TargetKnown, PairFromOneAnswer, FailedNotReused
<1> QED
  BY <1>1, <1>2, <1>3, <1>4, <1>5, <1>6, <1>7, <1>8, <1>9 DEF DiscoveryNext

-----------------------------------------------------------------------------
(***************************************************************************)
(* The two tasks over one partition.                                       *)
(***************************************************************************)

\* The two tasks and the restarts they share preserve the invariant.
LEMMA NextHmiStoreInv == HmiStoreInv /\ [HmiStoreNext]_hmiStoreVars => HmiStoreInv'
<1> SUFFICES ASSUME HmiStoreInv, [HmiStoreNext]_hmiStoreVars PROVE HmiStoreInv'
  OBVIOUS
<1> USE DEF HmiStoreInv
<1>1. ASSUME UNCHANGED prefsVars PROVE PrefsInv'
  BY <1>1 DEF prefsVars, PrefsInv, PrefsTypeOK, CopiesFollowModel, FormFollowsModel
<1>2. ASSUME UNCHANGED discoveryVars PROVE DiscoveryInv'
  BY <1>2
     DEF discoveryVars, DiscoveryInv, DiscoveryTypeOK, CacheWhole, TargetKnown, PairFromOneAnswer,
         FailedNotReused
<1>3. CASE UiTask
  BY <1>2, <1>3, NextPrefsInv DEF UiTask
<1>4. CASE NetTask
  BY <1>1, <1>4, NextDiscoveryInv DEF NetTask
<1>5. CASE Reboot
  <2>1. PrefsInv'
    <3>1. blob' \in Blobs /\ model' \in UserChoices
      BY <1>5, LoadedChosen, DefaultsChosen DEF Reboot, PrefsReboot, PrefsInv, PrefsTypeOK
    <3> QED
      BY <1>5, <3>1, RebootPrefsInv DEF Reboot, PrefsReboot
  <2> QED
    BY <1>5, <2>1, RebootDiscoveryInv DEF Reboot
<1>6. CASE RebootErases
  <2>1. PrefsInv'
    <3>1. blob' \in Blobs /\ model' \in UserChoices
      BY <1>6, DefaultsChosen DEF RebootErases, PrefsWiped, Blobs
    <3> QED
      BY <1>6, <3>1, RebootPrefsInv DEF RebootErases, PrefsWiped
  <2> QED
    BY <1>6, <2>1, RebootDiscoveryInv DEF RebootErases
<1>7. CASE UNCHANGED hmiStoreVars
  BY <1>1, <1>2, <1>7 DEF hmiStoreVars
<1> QED
  BY <1>3, <1>4, <1>5, <1>6, <1>7 DEF HmiStoreNext

\* HmiStoreInv is an invariant of ui_task and net_task over their common partition.
THEOREM HmiStoreInvariant == HmiStoreSpec => []HmiStoreInv
<1>1. HmiStoreInit => HmiStoreInv
  BY InitPrefsInv, InitDiscoveryInv DEF HmiStoreInit, HmiStoreInv
<1>2. HmiStoreInv /\ [HmiStoreNext]_hmiStoreVars => HmiStoreInv'
  BY NextHmiStoreInv
<1> QED
  BY <1>1, <1>2, PTL DEF HmiStoreSpec

\* The preferences, the cache and the endpoint of the client keep their types, whatever a blob of an
\* older firmware holds (sanitize_preferences) and however a write of the cache ends.
THEOREM HmiStoreTyped == HmiStoreSpec => []HmiStoreTypeOK
<1>1. HmiStoreInv => HmiStoreTypeOK
  BY DEF HmiStoreInv, HmiStoreTypeOK, PrefsInv, DiscoveryInv
<1> QED
  BY <1>1, HmiStoreInvariant, PTL

\* The screen, the callbacks and the data model agree whenever ui_task is in its loop
\* (ui_cb_apply_prefs, ui_cb_reset_prefs, ui_apply_preferences).
THEOREM PrefsAgree == HmiStoreSpec => []SettingsAgree
<1>1. HmiStoreInv => SettingsAgree
  BY DEF HmiStoreInv, PrefsInv, PrefsTypeOK, CopiesFollowModel, SettingsAgree
<1> QED
  BY <1>1, HmiStoreInvariant, PTL

\* prefs_store.c, the data model and the screen implement Settings: every step of them is a choice, a
\* save of the choice in force, a restart with what was saved or with the defaults, a loss of the
\* partition, or no step of Settings at all.
THEOREM PrefsImplementSettings == HmiStoreSpec => PrefsKept
<1>1. HmiStoreInit => Promise!Init
  BY InitPromise DEF HmiStoreInit
<1>2. HmiStoreInv /\ [HmiStoreNext]_hmiStoreVars => [Promise!Next]_<<model, Loaded(blob)>>
  <2> SUFFICES ASSUME HmiStoreInv, [HmiStoreNext]_hmiStoreVars
               PROVE  [Promise!Next]_<<model, Loaded(blob)>>
    OBVIOUS
  <2>1. CASE UiTask
    BY <2>1, NextPromise DEF UiTask, HmiStoreInv
  <2>2. CASE NetTask \/ UNCHANGED hmiStoreVars
    BY <2>2 DEF NetTask, hmiStoreVars, prefsVars
  <2>3. CASE Reboot \/ RebootErases
    BY <2>3, RebootPromise DEF Reboot, RebootErases
  <2> QED
    BY <2>1, <2>2, <2>3 DEF HmiStoreNext
<1> QED
  BY <1>1, <1>2, HmiStoreInvariant, PTL DEF HmiStoreSpec, PrefsKept, Promise!Spec

\* prefs_apply_event_cb changes no setting the user did not touch, but for the language, which falls
\* back to the first of the list.
THEOREM PrefsUntouched == HmiStoreSpec => UntouchedKept
<1>1. HmiStoreInv /\ [HmiStoreNext]_hmiStoreVars =>
        [AppliesToModel =>
           \A f \in Fields \ touched : model'[f] = model[f] \/ (f = "lang" /\ model'[f] = 0)]_prefsVars
  BY AppliesUntouched DEF HmiStoreInv
<1> QED
  BY <1>1, HmiStoreInvariant, PTL DEF HmiStoreSpec, UntouchedKept

\* A client started from the cache gets the uri and the TLS name of one answer, unless a write
\* (store_cached_service) or a purge (invalidate_cached_service) was not completed.
THEOREM DiscoveryPair == HmiStoreSpec => []PairFromOneAnswer
<1>1. HmiStoreInv => PairFromOneAnswer
  BY DEF HmiStoreInv, DiscoveryInv
<1> QED
  BY <1>1, HmiStoreInvariant, PTL

\* An endpoint that failed (ws_error_cb) is not used again from the cache before it is announced
\* again, unless its purge was not completed.
THEOREM DiscoveryFailed == HmiStoreSpec => []FailedNotReused
<1>1. HmiStoreInv => FailedNotReused
  BY DEF HmiStoreInv, DiscoveryInv
<1> QED
  BY <1>1, HmiStoreInvariant, PTL


-----------------------------------------------------------------------------
(***************************************************************************)
(* The telemetry loop: its types.                                          *)
(***************************************************************************)

\* The zeroed models are updates, and the controls can be set to any update.
LEMMA UpdatesOf ==
    /\ AtBoot \in Updates
    /\ \A u \in Updates : Controls(u) \in [Targets -> Values]
<1>1. Default \in Values /\ 0 \in 0 .. (SeqWrap - 1) /\ 0 \in 0 .. MaxTemp
  BY TelemetryAssumption
<1>2. AtBoot \in Updates
  BY <1>1 DEF AtBoot, Updates, Readings
<1>3. ASSUME NEW u \in Updates PROVE Controls(u) \in [Targets -> Values]
  BY <1>3 DEF Updates, Controls, Targets
<1> QED
  BY <1>2, <1>3

\* The parts of an update that a step of the model changes.
LEMMA UpdateParts ==
    ASSUME NEW u \in Updates
    PROVE  /\ \A g \in Values : [u EXCEPT !.gpio = g] \in Updates
           /\ \A p \in [Pwm -> Values] : [u EXCEPT !.pwm = p] \in Updates
           /\ \A a \in Readings : [u EXCEPT !.ambient = a] \in Updates
           /\ [u EXCEPT !.seq = (@ + 1) % SeqWrap] \in Updates
<1>1. u.seq \in 0 .. (SeqWrap - 1) /\ SeqWrap \in Nat /\ SeqWrap > 1
  BY TelemetryAssumption DEF Updates
<1>2. (u.seq + 1) % SeqWrap \in 0 .. (SeqWrap - 1)
  BY <1>1
<1>3. \A s \in 0 .. (SeqWrap - 1) : [u EXCEPT !.seq = s] \in Updates
  BY DEF Updates
<1> QED
  BY <1>2, <1>3 DEF Updates

\* The head of a sequence that is not empty is in it, and so is the rest.
LEMMA HeadTail ==
    ASSUME NEW S, NEW s \in Seq(S), s # <<>>
    PROVE  /\ Head(s) \in S /\ Head(s) = s[1] /\ Tail(s) \in Seq(S)
           /\ Len(s) \in Nat \ {0} /\ Len(Tail(s)) = Len(s) - 1
           /\ \A i \in 1 .. Len(Tail(s)) : Tail(s)[i] = s[i + 1]
  BY HeadTailProperties, EmptySeq, LenProperties

\* What is sent is a command, and there is room for it.
LEMMA SendsTyped ==
    ASSUME TelemetryTypeOK, NEW t \in Targets, NEW value \in Values,
           Sends(t, value) \/ UNCHANGED toSensor
    PROVE  toSensor' \in Seq(Commands) /\ Len(toSensor') <= MaxInFlight
<1> DEFINE cmd == [target |-> t, value |-> value]
<1>1. cmd \in Commands
  BY DEF Commands
<1>2. toSensor \in Seq(Commands) /\ Len(toSensor) \in Nat /\ Len(toSensor) <= MaxInFlight
      /\ MaxInFlight \in Nat
  BY TelemetryAssumption, LenProperties DEF TelemetryTypeOK
<1>3. CASE Sends(t, value)
  <2>1. toSensor' = Append(toSensor, cmd) /\ Len(toSensor) < MaxInFlight
    BY <1>3 DEF Sends
  <2> HIDE DEF cmd
  <2> QED
    BY <1>1, <1>2, <2>1, AppendProperties
<1> QED
  BY <1>2, <1>3

\* Every step keeps the types.
LEMMA NextTelemetryTyped ==
    ASSUME TelemetryTypeOK, [Next]_vars
    PROVE  TelemetryTypeOK'
<1> USE DEF TelemetryTypeOK, ioVars, modelVars, linkVars, hmiVars
<1>1. CASE IoApplies
  <2> DEFINE cmd == Head(queue)
  <2>1. cmd \in Commands /\ Tail(queue) \in Seq(Commands) /\ Len(Tail(queue)) <= QueueDepth
    BY <1>1, HeadTail, TelemetryAssumption DEF IoApplies
  <2>2. set' \in [Pwm -> Values]
    BY <1>1, <2>1 DEF IoApplies, Commands
  <2>3. outputs' \in [Targets -> Values]
    <3>1. \A t \in Targets : (IF t = "gpio" THEN cmd.value ELSE set'[t]) \in Values
      BY <2>1, <2>2 DEF Commands, Targets
    <3>2. PICK done \in SUBSET Writes(cmd) :
            outputs' = [t \in Targets |-> IF t \in done THEN (IF t = "gpio" THEN cmd.value ELSE set'[t])
                                                        ELSE outputs[t]]
      BY <1>1 DEF IoApplies
    <3> HIDE DEF cmd
    <3> QED
      BY <3>1, <3>2
  <2>4. lost' \subseteq Targets
    BY <1>1, <2>1 DEF IoApplies, Writes, Targets, Commands
  <2> QED
    BY <1>1, <2>1, <2>2, <2>3, <2>4 DEF IoApplies
<1>2. CASE IoSamples \/ IoSampleFails \/ IoReports
  <2>1. current' \in Updates
    <3>1. CASE IoSamples
      BY <3>1, UpdateParts DEF IoSamples
    <3>2. CASE IoReports
      BY <3>2, UpdateParts DEF IoReports
    <3> QED
      BY <1>2, <3>1, <3>2 DEF IoSampleFails
  <2> QED
    BY <1>2, <2>1 DEF IoSamples, IoSampleFails, IoReports
<1>3. ASSUME AmbientFails \/ \E temp \in 0 .. MaxTemp : AmbientReads(temp) PROVE TelemetryTypeOK'
  <2>1. inputs' \in 0 .. MaxInputs
    BY <1>3, TelemetryAssumption DEF AmbientFails, AmbientReads
  <2>2. ema' \in (0 .. MaxTemp) \cup {NaN}
    BY <1>3 DEF AmbientFails, AmbientReads
  <2>3. current' \in Updates
    <3>1. PICK a \in Readings : current' = [current EXCEPT !.ambient = a]
      BY <1>3 DEF AmbientFails, AmbientReads, Readings
    <3> QED
      BY <3>1, UpdateParts
  <2> QED
    BY <1>3, <2>1, <2>2, <2>3 DEF AmbientFails, AmbientReads
<1>4. CASE PubDecides \/ PubCounts \/ PubBuilds
  BY <1>4, UpdateParts DEF PubDecides, PubCounts, PubBuilds
<1>5. CASE PubSends \/ PubSendFails
  <2>1. CASE PubSends
    <3>1. toHmi' \in Seq(Updates) /\ Len(toHmi') <= MaxInFlight
      BY <2>1, AppendProperties, TelemetryAssumption DEF PubSends
    <3> QED
      BY <2>1, <3>1 DEF PubSends
  <2> QED
    BY <1>5, <2>1 DEF PubSendFails
<1>6. CASE HttpdTask
  <2>1. toSensor # <<>> /\ Head(toSensor) \in Commands /\ toSensor' = Tail(toSensor)
    BY <1>6, HeadTail DEF HttpdTask, Receives, Drops
  <2>2. toSensor' \in Seq(Commands) /\ Len(toSensor') <= MaxInFlight
    BY <2>1, HeadTail, TelemetryAssumption
  <2>3. CASE Receives
    <3>1. queue' \in Seq(Commands) /\ Len(queue') <= QueueDepth
      BY <2>1, <2>3, AppendProperties, TelemetryAssumption DEF Receives
    <3> QED
      BY <2>2, <2>3, <3>1 DEF Receives
  <2>4. CASE Drops
    BY <2>1, <2>2, <2>4 DEF Drops, Commands
  <2> QED
    BY <1>6, <2>3, <2>4 DEF HttpdTask
<1>7. ASSUME NEW t \in Targets, NEW value \in Values, UserSets(t, value)
      PROVE  TelemetryTypeOK'
  <2>1. toSensor' \in Seq(Commands) /\ Len(toSensor') <= MaxInFlight
    BY <1>7, SendsTyped DEF UserSets
  <2>2. inputs' \in 0 .. MaxInputs
    BY <1>7, TelemetryAssumption DEF UserSets
  <2> QED
    BY <1>7, <2>1, <2>2 DEF UserSets, Sends
<1>8. ASSUME NEW t \in Pwm, UserReleases(t)
      PROVE  TelemetryTypeOK'
  <2>2. t \in Targets /\ screen.controls[t] \in Values
    BY DEF Targets
  <2>1. toSensor' \in Seq(Commands) /\ Len(toSensor') <= MaxInFlight
    BY <1>8, <2>2, SendsTyped DEF UserReleases
  <2> QED
    BY <1>8, <2>1, <2>2 DEF UserReleases, Sends
<1>9. CASE StoresUpdate \/ RejectsUpdate
  <2>1. toHmi # <<>> /\ toHmi' = Tail(toHmi)
    BY <1>9 DEF StoresUpdate, RejectsUpdate
  <2>2. Head(toHmi) \in Updates /\ toHmi' \in Seq(Updates) /\ Len(toHmi') <= MaxInFlight
    BY <2>1, HeadTail, TelemetryAssumption
  <2>3. CASE StoresUpdate
    BY <2>2, <2>3 DEF StoresUpdate
  <2>4. CASE RejectsUpdate
    BY <2>2, <2>4 DEF RejectsUpdate
  <2> QED
    BY <1>9, <2>3, <2>4
<1>10. CASE ShowsUpdate \/ ShowsAgain
  <2>1. CASE ShowsUpdate
    <3>1. hmi.last \in Updates /\ Controls(hmi.last) \in [Targets -> Values]
      BY UpdatesOf
    <3>2. screen' \in [update : Updates, any : BOOLEAN, controls : [Targets -> Values]]
      BY <2>1, <3>1 DEF ShowsUpdate, Draws
    <3> QED
      BY <2>1, <3>2 DEF ShowsUpdate, Draws
  <2>2. CASE ShowsAgain
    <3>1. screen.update \in Updates /\ Controls(screen.update) \in [Targets -> Values]
      BY UpdatesOf
    <3>2. screen' \in [update : Updates, any : BOOLEAN, controls : [Targets -> Values]]
      BY <2>2, <3>1 DEF ShowsAgain, Draws
    <3> QED
      BY <2>2, <3>2 DEF ShowsAgain, Draws
  <2> QED
    BY <1>10, <2>1, <2>2
<1>11. CASE Connects
  BY <1>11 DEF Connects
<1>12. CASE Disconnects
  <2>1. lost' \subseteq Targets
    <3>1. \A i \in DOMAIN toSensor : toSensor[i].target \in Targets
      <4>1. \A i \in DOMAIN toSensor : toSensor[i] \in Commands
        BY LenProperties, ElementOfSeq
      <4> QED
        BY <4>1 DEF Commands
    <3> QED
      BY <1>12, <3>1 DEF Disconnects
  <2>2. /\ toSensor' \in Seq(Commands) /\ Len(toSensor') <= MaxInFlight
        /\ toHmi' \in Seq(Updates) /\ Len(toHmi') <= MaxInFlight
    <3>1. toSensor' = <<>> /\ toHmi' = <<>>
      BY <1>12 DEF Disconnects
    <3>2. <<>> \in Seq(Commands) /\ <<>> \in Seq(Updates) /\ Len(<<>>) = 0
      OBVIOUS
    <3>3. MaxInFlight \in Nat
      BY TelemetryAssumption
    <3> HIDE DEF TelemetryTypeOK
    <3> QED
      BY <3>1, <3>2, <3>3
  <2> QED
    BY <1>12, <2>1, <2>2 DEF Disconnects
<1>13. ASSUME NEW level \in Values, PinsChange(level)
       PROVE  TelemetryTypeOK'
  <2>1. inputs' \in 0 .. MaxInputs
    BY <1>13, TelemetryAssumption DEF PinsChange
  <2> QED
    BY <1>13, <2>1 DEF PinsChange
<1>14. CASE UNCHANGED vars
  BY <1>14 DEF vars
<1> QED
  BY <1>1, <1>2, <1>3, <1>4, <1>5, <1>6, <1>7, <1>8, <1>9, <1>10, <1>11, <1>12, <1>13, <1>14
     DEF Next, IoTask, Publisher

-----------------------------------------------------------------------------
(***************************************************************************)
(* The controls and the updates.                                           *)
(***************************************************************************)

\* Only the user and a drawing move the controls; the one is remembered, the other forgets it.
LEMMA NextControlsFollow ==
    ASSUME TelemetryTypeOK, ControlsFollow, [Next]_vars
    PROVE  ControlsFollow'
<1> USE DEF ControlsFollow, TelemetryTypeOK
<1>1. ASSUME NEW t \in Targets, NEW value \in Values, UserSets(t, value)
      PROVE  ControlsFollow'
  <2>1. /\ screen' = [screen EXCEPT !.controls = [@ EXCEPT ![t] = value]]
        /\ moved' = moved \cup {t} /\ want' = [want EXCEPT ![t] = value]
    BY <1>1 DEF UserSets
  <2>2. screen'.update = screen.update /\ screen'.controls = [screen.controls EXCEPT ![t] = value]
    BY <2>1
  <2> QED
    BY <2>1, <2>2
<1>2. CASE ShowsUpdate \/ ShowsAgain
  <2>1. PICK u \in Updates : Draws(u)
    BY <1>2 DEF ShowsUpdate, ShowsAgain
  <2>2. screen'.update = u /\ screen'.controls = Controls(u) /\ moved' = {}
    BY <2>1 DEF Draws
  <2> QED
    BY <2>2
<1>3. CASE UNCHANGED <<screen, moved, want>>
  BY <1>3
<1>4. [Next]_vars =>
        \/ UNCHANGED <<screen, moved, want>> \/ ShowsUpdate \/ ShowsAgain
        \/ \E t \in Targets, value \in Values : UserSets(t, value)
  BY DEF Next, vars, ioVars, modelVars, linkVars, hmiVars, IoTask, Publisher, HttpdTask, IoApplies,
         IoSamples, IoSampleFails, IoReports, PubDecides, PubCounts, PubBuilds, PubSends,
         PubSendFails, Receives, Drops, StoresUpdate, RejectsUpdate, Connects, Disconnects,
         AmbientFails, AmbientReads, UserReleases, PinsChange
<1> QED
  BY <1>1, <1>2, <1>3, <1>4

\* An update that was sent stays the last on its way until it is drawn or counts as missed.
LEMMA NextPublishedIsComing ==
    ASSUME TelemetryTypeOK, PublishedIsComing, [Next]_vars
    PROVE  PublishedIsComing'
<1> USE DEF PublishedIsComing
<1> DEFINE unchanged == UNCHANGED <<missed, pub, published, toHmi, hmi, screen>>
<1>1. CASE PubDecides \/ PubCounts
  BY <1>1 DEF PubDecides, PubCounts, linkVars, hmiVars
<1>2. CASE PubBuilds \/ PubSendFails
  BY <1>2 DEF PubBuilds, PubSendFails
<1>3. CASE PubSends
  <2>1. CASE open
    <3>1. toHmi' = Append(toHmi, published) /\ published' = published
      BY <1>3, <2>1 DEF PubSends
    <3>2. toHmi \in Seq(Updates) /\ published \in Updates
      BY DEF TelemetryTypeOK
    <3>3. toHmi' # <<>> /\ toHmi'[Len(toHmi')] = published
      BY <3>1, <3>2, AppendProperties
    <3> QED
      BY <3>1, <3>3
  <2> QED
    BY <1>3, <2>1 DEF PubSends
<1>4. CASE StoresUpdate \/ RejectsUpdate
  <2>1. /\ toHmi # <<>> /\ toHmi' = Tail(toHmi) /\ UNCHANGED <<pub, published, screen>>
        /\ \/ hmi' = [last |-> Head(toHmi), has |-> TRUE] /\ missed' = missed
           \/ hmi' = hmi /\ missed' = IF Len(toHmi) = 1 THEN "unreadable" ELSE missed
    BY <1>4 DEF StoresUpdate, RejectsUpdate, modelVars, hmiVars
  <2>2. /\ Head(toHmi) = toHmi[1] /\ Len(toHmi) \in Nat \ {0}
        /\ toHmi' \in Seq(Updates) /\ Len(toHmi') = Len(toHmi) - 1
        /\ \A i \in 1 .. Len(toHmi') : toHmi'[i] = toHmi[i + 1]
    BY <2>1, HeadTail DEF TelemetryTypeOK
  <2>3. CASE Len(toHmi) = 1
    <3>1. toHmi' = <<>>
      BY <2>2, <2>3, EmptySeq
    <3> QED
      BY <2>1, <2>2, <2>3, <3>1
  <2>4. CASE Len(toHmi) # 1
    <3>1. toHmi' # <<>> /\ toHmi'[Len(toHmi')] = toHmi[Len(toHmi)]
      BY <2>2, <2>4, EmptySeq
    <3> QED
      BY <2>1, <2>4, <3>1
  <2> QED
    BY <2>3, <2>4
<1>5. CASE ShowsUpdate
  BY <1>5 DEF ShowsUpdate, Draws, modelVars, linkVars, TelemetryTypeOK
<1>6. CASE ShowsAgain
  BY <1>6 DEF ShowsAgain, Draws, modelVars, linkVars, TelemetryTypeOK
<1>7. CASE Disconnects
  BY <1>7 DEF Disconnects, modelVars, hmiVars
<1>8. ASSUME NEW t \in Targets, NEW value \in Values, UserSets(t, value)
      PROVE  PublishedIsComing'
  <2>1. screen'.update = screen.update /\ UNCHANGED <<missed, pub, published, toHmi, hmi>>
    BY <1>8 DEF UserSets, modelVars, TelemetryTypeOK
  <2> QED
    BY <2>1
<1>9. CASE unchanged
  BY <1>9
<1>10. [Next]_vars =>
         \/ unchanged \/ Publisher \/ StoresUpdate \/ RejectsUpdate \/ ShowsUpdate \/ ShowsAgain
         \/ Disconnects \/ \E t \in Targets, value \in Values : UserSets(t, value)
  BY DEF Next, vars, ioVars, modelVars, linkVars, hmiVars, IoTask, HttpdTask, IoApplies,
         IoSamples, IoSampleFails, IoReports, Receives, Drops, Connects,
         AmbientFails, AmbientReads, UserReleases, PinsChange
<1> QED
  BY <1>1, <1>2, <1>3, <1>4, <1>5, <1>6, <1>7, <1>8, <1>9, <1>10 DEF Publisher

-----------------------------------------------------------------------------
(***************************************************************************)
(* The commands.                                                           *)
(***************************************************************************)

\* The last of the commands cmds for target t asks for v; none of them is for t.
Asks(cmds, t, v) ==
    \E i \in DOMAIN cmds : /\ cmds[i].target = t /\ cmds[i].value = v
                           /\ \A j \in DOMAIN cmds : cmds[j].target = t => j <= i

NoneFor(cmds, t) == \A i \in DOMAIN cmds : cmds[i].target # t

\* What CommandIsComing says of a target.
IsComing(t) ==
    \/ Asks(Coming, t, want[t])
    \/ NoneFor(Coming, t) /\ outputs[t] = want[t] /\ (t \in Pwm => set[t] = want[t])

\* CommandIsComing, in these words, before and after a step.
LEMMA ComingAsks ==
    /\ CommandIsComing <=> \A t \in Targets \ lost : IsComing(t)
    /\ CommandIsComing' <=> \A t \in Targets \ lost' : IsComing(t)'
<1>1. CommandIsComing <=> \A t \in Targets \ lost : IsComing(t)
  BY DEF CommandIsComing, Asks, NoneFor, IsComing
<1>2. CommandIsComing' <=> \A t \in Targets \ lost' : IsComing(t)'
  BY DEF CommandIsComing, Asks, NoneFor, IsComing
<1> QED
  BY <1>1, <1>2

\* The items of a concatenation.
LEMMA ItemsOf ==
    ASSUME NEW q \in Seq(Commands), NEW s \in Seq(Commands)
    PROVE  /\ q \o s \in Seq(Commands) /\ DOMAIN (q \o s) = 1 .. (Len(q) + Len(s))
           /\ Len(q) \in Nat /\ Len(s) \in Nat /\ DOMAIN q = 1 .. Len(q) /\ DOMAIN s = 1 .. Len(s)
           /\ \A i \in 1 .. Len(q) : (q \o s)[i] = q[i]
           /\ \A i \in 1 .. Len(s) : (q \o s)[Len(q) + i] = s[i]
<1>1. /\ q \o s \in Seq(Commands) /\ Len(q \o s) = Len(q) + Len(s)
      /\ \A i \in 1 .. (Len(q) + Len(s)) : (q \o s)[i] = IF i <= Len(q) THEN q[i] ELSE s[i - Len(q)]
  BY ConcatProperties
<1>2. Len(q) \in Nat /\ Len(s) \in Nat /\ DOMAIN q = 1 .. Len(q) /\ DOMAIN s = 1 .. Len(s)
  BY LenProperties
<1>3. DOMAIN (q \o s) = 1 .. Len(q \o s)
  BY <1>1, LenProperties
<1> QED
  BY <1>1, <1>2, <1>3

\* A command taken from the front is no longer on its way: it was the last for its target, or the last
\* is still to come.
LEMMA TakenFromFront ==
    ASSUME NEW c \in Seq(Commands), c # <<>>, NEW t, NEW v
    PROVE  /\ NoneFor(c, t) => NoneFor(Tail(c), t)
           /\ Asks(c, t, v) => \/ Asks(Tail(c), t, v)
                               \/ NoneFor(Tail(c), t) /\ Head(c).target = t /\ Head(c).value = v
<1>1. /\ Head(c) = c[1] /\ Len(c) \in Nat \ {0} /\ DOMAIN c = 1 .. Len(c)
      /\ DOMAIN Tail(c) = 1 .. (Len(c) - 1)
      /\ \A i \in 1 .. (Len(c) - 1) : Tail(c)[i] = c[i + 1]
  BY HeadTail, LenProperties
<1>2. NoneFor(c, t) => NoneFor(Tail(c), t)
  BY <1>1 DEF NoneFor
<1>3. ASSUME NEW i \in DOMAIN c, c[i].target = t, c[i].value = v,
             \A j \in DOMAIN c : c[j].target = t => j <= i
      PROVE  \/ Asks(Tail(c), t, v)
             \/ NoneFor(Tail(c), t) /\ Head(c).target = t /\ Head(c).value = v
  <2>1. CASE i = 1
    <3>1. NoneFor(Tail(c), t)
      BY <1>1, <1>3, <2>1 DEF NoneFor
    <3> QED
      BY <1>1, <1>3, <2>1, <3>1
  <2>2. CASE i # 1
    <3>1. i - 1 \in DOMAIN Tail(c) /\ Tail(c)[i - 1] = c[i]
      BY <1>1, <2>2
    <3>2. \A j \in DOMAIN Tail(c) : Tail(c)[j].target = t => j <= i - 1
      BY <1>1, <1>3
    <3> QED
      BY <1>3, <3>1, <3>2 DEF Asks
  <2> QED
    BY <2>1, <2>2
<1> QED
  BY <1>2, <1>3 DEF Asks

\* A command put at the end is the last for its target, and changes nothing for another.
LEMMA PutAtEnd ==
    ASSUME NEW c \in Seq(Commands), NEW cmd \in Commands, NEW t, NEW v
    PROVE  /\ Asks(Append(c, cmd), cmd.target, cmd.value)
           /\ t # cmd.target /\ Asks(c, t, v) => Asks(Append(c, cmd), t, v)
           /\ t # cmd.target /\ NoneFor(c, t) => NoneFor(Append(c, cmd), t)
<1> DEFINE d == Append(c, cmd)
<1>1. /\ Len(c) \in Nat /\ DOMAIN c = 1 .. Len(c) /\ DOMAIN d = 1 .. (Len(c) + 1)
      /\ d[Len(c) + 1] = cmd /\ \A i \in 1 .. Len(c) : d[i] = c[i]
  BY AppendProperties, LenProperties
<1> HIDE DEF d
<1>2. Asks(d, cmd.target, cmd.value)
  BY <1>1 DEF Asks
<1>3. t # cmd.target /\ Asks(c, t, v) => Asks(d, t, v)
  <2>1. SUFFICES ASSUME t # cmd.target, NEW i \in DOMAIN c, c[i].target = t, c[i].value = v,
                        \A j \in DOMAIN c : c[j].target = t => j <= i
                 PROVE  Asks(d, t, v)
    BY DEF Asks
  <2>2. i \in DOMAIN d /\ d[i].target = t /\ d[i].value = v
    BY <1>1, <2>1
  <2>3. \A j \in DOMAIN d : d[j].target = t => j <= i
    BY <1>1, <2>1
  <2> QED
    BY <2>2, <2>3 DEF Asks
<1>4. t # cmd.target /\ NoneFor(c, t) => NoneFor(d, t)
  BY <1>1 DEF NoneFor
<1> QED
  BY <1>2, <1>3, <1>4 DEF d

\* What q and then s ask for: the last command of s for a target counts; if there is none, that of q.
LEMMA AsksConcat ==
    ASSUME NEW q \in Seq(Commands), NEW s \in Seq(Commands), NEW t, NEW v
    PROVE  /\ Asks(q \o s, t, v) <=> Asks(s, t, v) \/ (NoneFor(s, t) /\ Asks(q, t, v))
           /\ NoneFor(q \o s, t) <=> NoneFor(q, t) /\ NoneFor(s, t)
<1> DEFINE c == q \o s
<1>1. /\ DOMAIN c = 1 .. (Len(q) + Len(s))
      /\ Len(q) \in Nat /\ Len(s) \in Nat /\ DOMAIN q = 1 .. Len(q) /\ DOMAIN s = 1 .. Len(s)
      /\ \A i \in 1 .. Len(q) : c[i] = q[i]
      /\ \A i \in 1 .. Len(s) : c[Len(q) + i] = s[i]
  BY ItemsOf
<1> HIDE DEF c
<1>2. \A j \in DOMAIN c : j \in DOMAIN q \/ \E k \in DOMAIN s : j = Len(q) + k
  <2>1. SUFFICES ASSUME NEW j \in DOMAIN c, j > Len(q) PROVE \E k \in DOMAIN s : j = Len(q) + k
    BY <1>1
  <2>2. j - Len(q) \in DOMAIN s /\ j = Len(q) + (j - Len(q))
    BY <1>1, <2>1
  <2> QED
    BY <2>2
<1>3. ASSUME NEW i \in DOMAIN c, c[i].target = t, c[i].value = v,
             \A j \in DOMAIN c : c[j].target = t => j <= i
      PROVE  Asks(s, t, v) \/ (NoneFor(s, t) /\ Asks(q, t, v))
  <2>1. \A k \in DOMAIN s : s[k].target = t => Len(q) + k <= i
    BY <1>1, <1>3
  <2>2. CASE i \in DOMAIN q
    <3>1. NoneFor(s, t)
      BY <1>1, <2>1, <2>2 DEF NoneFor
    <3>2. \A j \in DOMAIN q : q[j].target = t => j <= i
      BY <1>1, <1>3
    <3>3. q[i].target = t /\ q[i].value = v
      BY <1>1, <1>3, <2>2
    <3> QED
      BY <2>2, <3>1, <3>2, <3>3 DEF Asks
  <2>3. ASSUME NEW n \in DOMAIN s, i = Len(q) + n PROVE Asks(s, t, v)
    <3>1. s[n].target = t /\ s[n].value = v
      BY <1>1, <1>3, <2>3
    <3>2. \A k \in DOMAIN s : s[k].target = t => k <= n
      BY <1>1, <2>1, <2>3
    <3> QED
      BY <3>1, <3>2 DEF Asks
  <2> QED
    BY <1>2, <2>2, <2>3
<1>4. ASSUME NEW i \in DOMAIN s, s[i].target = t, s[i].value = v,
             \A j \in DOMAIN s : s[j].target = t => j <= i
      PROVE  Asks(c, t, v)
  <2>1. Len(q) + i \in DOMAIN c /\ c[Len(q) + i] = s[i]
    BY <1>1, <1>4
  <2>2. ASSUME NEW j \in DOMAIN c, c[j].target = t PROVE j <= Len(q) + i
    <3>1. CASE j \in DOMAIN q
      BY <1>1, <3>1
    <3>2. ASSUME NEW k \in DOMAIN s, j = Len(q) + k PROVE j <= Len(q) + i
      <4>1. s[k].target = t
        BY <1>1, <2>2, <3>2
      <4> QED
        BY <1>1, <1>4, <3>2, <4>1
    <3> QED
      BY <1>2, <3>1, <3>2
  <2> QED
    BY <1>4, <2>1, <2>2 DEF Asks
<1>5. ASSUME NoneFor(s, t), NEW i \in DOMAIN q, q[i].target = t, q[i].value = v,
             \A j \in DOMAIN q : q[j].target = t => j <= i
      PROVE  Asks(c, t, v)
  <2>1. i \in DOMAIN c /\ c[i] = q[i]
    BY <1>1, <1>5
  <2>2. \A j \in DOMAIN c : c[j].target = t => j \in DOMAIN q /\ q[j].target = t
    BY <1>1, <1>2, <1>5 DEF NoneFor
  <2> QED
    BY <1>5, <2>1, <2>2 DEF Asks
<1>6. NoneFor(c, t) <=> NoneFor(q, t) /\ NoneFor(s, t)
  <2>1. NoneFor(c, t) => NoneFor(q, t) /\ NoneFor(s, t)
    BY <1>1 DEF NoneFor
  <2>2. NoneFor(q, t) /\ NoneFor(s, t) => NoneFor(c, t)
    BY <1>1, <1>2 DEF NoneFor
  <2> QED
    BY <2>1, <2>2
<1>7. Asks(c, t, v) => Asks(s, t, v) \/ (NoneFor(s, t) /\ Asks(q, t, v))
  BY <1>3 DEF Asks
<1>8. Asks(s, t, v) \/ (NoneFor(s, t) /\ Asks(q, t, v)) => Asks(c, t, v)
  BY <1>4, <1>5 DEF Asks
<1> QED
  BY <1>6, <1>7, <1>8 DEF c

\* A sequence is its head and its tail; the head may as well stand at the end of what is before it, and
\* an item at the end of the second of two is at the end of both.
LEMMA HeadMoves ==
    ASSUME NEW S, NEW q \in Seq(S), NEW s \in Seq(S)
    PROVE  /\ s # <<>> => s = <<Head(s)>> \o Tail(s) /\ q \o s = Append(q, Head(s)) \o Tail(s)
           /\ \A e \in S : q \o Append(s, e) = Append(q \o s, e)
<1>1. ASSUME s # <<>>
      PROVE  s = <<Head(s)>> \o Tail(s) /\ q \o s = Append(q, Head(s)) \o Tail(s)
  <2>1. Head(s) \in S /\ Head(s) = s[1] /\ Tail(s) \in Seq(S) /\ Len(s) \in Nat \ {0}
    BY <1>1, HeadTail
  <2>2. s = <<s[1]>> \o SubSeq(s, 2, Len(s))
    <3>1. SubSeq(s, 1, Len(s)) = <<s[1]>> \o SubSeq(s, 1 + 1, Len(s))
      BY <2>1, SubSeqRecursiveFirst
    <3> QED
      BY <3>1, SubSeqFull
  <2>3. s = <<Head(s)>> \o Tail(s)
    BY <1>1, <2>1, <2>2, TailIsSubSeq
  <2>4. <<Head(s)>> \in Seq(S)
    BY <2>1
  <2>5. q \o (<<Head(s)>> \o Tail(s)) = (q \o <<Head(s)>>) \o Tail(s)
    BY <2>1, <2>4, ConcatAssociative
  <2>6. Append(q, Head(s)) = q \o <<Head(s)>>
    BY <2>1, AppendIsConcat
  <2> QED
    BY <2>3, <2>5, <2>6
<1>2. ASSUME NEW e \in S PROVE q \o Append(s, e) = Append(q \o s, e)
  <2>1. Append(s, e) = s \o <<e>> /\ <<e>> \in Seq(S) /\ q \o s \in Seq(S)
    BY AppendIsConcat, ConcatProperties
  <2>2. Append(q \o s, e) = (q \o s) \o <<e>>
    BY <2>1, AppendIsConcat
  <2>3. (q \o s) \o <<e>> = q \o (s \o <<e>>)
    BY <2>1, ConcatAssociative
  <2> QED
    BY <2>1, <2>2, <2>3
<1> QED
  BY <1>1, <1>2

\* io_task takes the command it applies from what is on its way, and the register follows or is lost.
LEMMA IoAppliesComing ==
    ASSUME TelemetryTypeOK, CommandIsComing, IoApplies
    PROVE  CommandIsComing'
<1> DEFINE cmd == Head(queue)
           New(t) == IF t = "gpio" THEN cmd.value ELSE set'[t]
<1>1. /\ queue \in Seq(Commands) /\ queue # <<>> /\ toSensor \in Seq(Commands)
      /\ queue' = Tail(queue) /\ toSensor' = toSensor /\ want' = want
      /\ set' = IF cmd.target \in Pwm THEN [set EXCEPT ![cmd.target] = cmd.value] ELSE set
      /\ lost' = lost \cup {t \in Writes(cmd) : outputs'[t] # New(t)}
  BY DEF TelemetryTypeOK, IoApplies, linkVars
<1>2. PICK done \in SUBSET Writes(cmd) :
        outputs' = [t \in Targets |-> IF t \in done THEN New(t) ELSE outputs[t]]
  BY DEF IoApplies
<1>3. cmd \in Commands /\ Tail(queue) \in Seq(Commands) /\ set \in [Pwm -> Values]
  BY <1>1, HeadTail DEF TelemetryTypeOK
<1>4. SUFFICES ASSUME NEW t \in Targets \ lost' PROVE IsComing(t)'
  BY ComingAsks
<1>5. IsComing(t) /\ t \in Targets /\ Coming = queue \o toSensor /\ Coming' = Tail(queue) \o toSensor
  BY <1>1, ComingAsks DEF Coming
<1>6. CASE Asks(toSensor, t, want[t])
  <2>1. Asks(Coming', t, want'[t])
    BY <1>1, <1>3, <1>5, <1>6, AsksConcat
  <2> QED
    BY <2>1 DEF IsComing
<1>7. CASE NoneFor(toSensor, t) /\ Asks(queue, t, want[t])
  <2>1. CASE Asks(Tail(queue), t, want[t])
    <3>1. Asks(Coming', t, want'[t])
      BY <1>1, <1>3, <1>5, <1>7, <2>1, AsksConcat
    <3> QED
      BY <3>1 DEF IsComing
  <2>2. CASE NoneFor(Tail(queue), t) /\ cmd.target = t /\ cmd.value = want[t]
    <3>1. NoneFor(Coming', t)
      BY <1>1, <1>3, <1>5, <1>7, <2>2, AsksConcat
    <3>2. outputs'[t] = New(t)
      BY <1>1, <2>2 DEF Writes, Pwm
    <3>3. t \in Pwm => set'[t] = want'[t]
      BY <1>1, <1>3, <2>2
    <3>4. outputs'[t] = want'[t]
      BY <1>1, <2>2, <3>2, <3>3 DEF Targets
    <3> QED
      BY <3>1, <3>3, <3>4 DEF IsComing
  <2> QED
    BY <1>1, <1>7, <2>1, <2>2, TakenFromFront
<1>8. CASE NoneFor(Coming, t) /\ outputs[t] = want[t] /\ (t \in Pwm => set[t] = want[t])
  <2>1. NoneFor(queue, t) /\ NoneFor(toSensor, t)
    BY <1>1, <1>5, <1>8, AsksConcat
  <2>2. NoneFor(Coming', t)
    BY <1>1, <1>3, <1>5, <2>1, AsksConcat, TakenFromFront
  <2>3. cmd.target # t
    BY <1>1, <2>1, HeadTail, LenProperties DEF NoneFor
  <2>4. t \in Pwm => set'[t] = want'[t]
    BY <1>1, <1>3, <1>8, <2>3
  <2>5. outputs'[t] = want'[t]
    <3>1. t \in done => t \in Pwm /\ t # "gpio"
      BY <1>2, <2>3, TelemetryAssumption DEF Writes, Pwm
    <3> QED
      BY <1>1, <1>2, <1>5, <1>8, <2>4, <3>1
  <2> QED
    BY <2>2, <2>4, <2>5 DEF IsComing
<1> QED
  BY <1>1, <1>5, <1>6, <1>7, <1>8, AsksConcat DEF IsComing

\* A command that is sent is the last for its target.
LEMMA SentIsComing ==
    ASSUME TelemetryTypeOK, CommandIsComing, NEW u \in Targets, NEW v \in Values,
           toSensor' = Append(toSensor, [target |-> u, value |-> v]),
           UNCHANGED <<queue, outputs, set>>, want'[u] = v \/ u \in lost',
           \A t \in Targets \ {u} : want'[t] = want[t] /\ (t \in lost => t \in lost')
    PROVE  CommandIsComing'
<1> DEFINE cmd == [target |-> u, value |-> v]
<1>1. queue \in Seq(Commands) /\ toSensor \in Seq(Commands)
  BY DEF TelemetryTypeOK
<1>2. cmd \in Commands /\ cmd.target = u /\ cmd.value = v
  BY DEF Commands
<1>3. toSensor' = Append(toSensor, cmd) /\ queue' = queue /\ outputs' = outputs /\ set' = set
  OBVIOUS
<1> HIDE DEF cmd
<1>4. Coming \in Seq(Commands) /\ Coming' = Append(Coming, cmd)
  BY <1>1, <1>2, <1>3, HeadMoves, ConcatProperties DEF Coming
<1>5. ASSUME NEW t \in Targets \ lost' PROVE IsComing(t)'
  <2>1. CASE t = u
    <3>1. Asks(Coming', t, want'[t])
      BY <1>2, <1>4, <2>1, PutAtEnd
    <3> QED
      BY <3>1 DEF IsComing
  <2>2. CASE t # u
    <3>1. IsComing(t) /\ want'[t] = want[t]
      BY <2>2, ComingAsks
    <3>2. Asks(Coming, t, want[t]) => Asks(Coming', t, want'[t])
      BY <1>2, <1>4, <2>2, <3>1, PutAtEnd
    <3>3. NoneFor(Coming, t) => NoneFor(Coming', t)
      BY <1>2, <1>4, <2>2, PutAtEnd
    <3> QED
      BY <1>3, <3>1, <3>2, <3>3 DEF IsComing
  <2> QED
    BY <2>1, <2>2
<1> QED
  BY <1>5, ComingAsks

\* A command is on its way, or was carried out, or counts as lost.
LEMMA NextCommandIsComing ==
    ASSUME TelemetryTypeOK, CommandIsComing, [Next]_vars
    PROVE  CommandIsComing'
<1> DEFINE unchanged == UNCHANGED <<queue, toSensor, outputs, set, want, lost>>
<1>1. queue \in Seq(Commands) /\ toSensor \in Seq(Commands)
  BY DEF TelemetryTypeOK
<1>2. ASSUME UNCHANGED <<outputs, set, want>>, lost \subseteq lost',
             \A t \in Targets \ lost' : /\ Asks(Coming, t, want[t]) => Asks(Coming', t, want[t])
                                        /\ NoneFor(Coming, t) => NoneFor(Coming', t)
      PROVE  CommandIsComing'
  <2>1. ASSUME NEW t \in Targets \ lost' PROVE IsComing(t)'
    <3>1. IsComing(t) /\ want'[t] = want[t]
      BY <1>2, <2>1, ComingAsks
    <3>2. /\ Asks(Coming, t, want[t]) => Asks(Coming', t, want'[t])
          /\ NoneFor(Coming, t) => NoneFor(Coming', t)
      BY <1>2, <2>1, <3>1
    <3> QED
      BY <1>2, <3>1, <3>2 DEF IsComing
  <2> QED
    BY <2>1, ComingAsks
<1>3. CASE Receives
  <2>1. /\ toSensor # <<>> /\ queue' = Append(queue, Head(toSensor)) /\ toSensor' = Tail(toSensor)
        /\ UNCHANGED <<outputs, set, want, lost>>
    BY <1>3 DEF Receives
  <2>2. Coming' = Coming
    BY <1>1, <2>1, HeadMoves DEF Coming
  <2> QED
    BY <1>2, <2>1, <2>2
<1>4. CASE Drops
  <2>1. /\ toSensor # <<>> /\ queue' = queue /\ toSensor' = Tail(toSensor)
        /\ UNCHANGED <<outputs, set, want>> /\ lost' = lost \cup {Head(toSensor).target}
    BY <1>4 DEF Drops, ioVars
  <2>2. Tail(toSensor) \in Seq(Commands)
    BY <1>1, <2>1, HeadTail
  <2>3. ASSUME NEW t \in Targets \ lost', NEW v
        PROVE  /\ Asks(Coming, t, v) => Asks(Coming', t, v)
               /\ NoneFor(Coming, t) => NoneFor(Coming', t)
    <3>1. /\ Asks(toSensor, t, v) => Asks(Tail(toSensor), t, v)
          /\ NoneFor(toSensor, t) => NoneFor(Tail(toSensor), t)
      BY <1>1, <2>1, TakenFromFront
    <3>2. Coming = queue \o toSensor /\ Coming' = queue \o Tail(toSensor)
      BY <2>1 DEF Coming
    <3> QED
      BY <1>1, <2>2, <3>1, <3>2, AsksConcat
  <2> QED
    BY <1>2, <2>1, <2>3
<1>5. CASE Disconnects
  <2>1. /\ queue' = queue /\ toSensor' = <<>> /\ UNCHANGED <<outputs, set, want>>
        /\ lost' = lost \cup {toSensor[i].target : i \in DOMAIN toSensor}
    BY <1>5 DEF Disconnects, ioVars
  <2>2. Coming' = queue
    BY <1>1, <2>1, ConcatEmptySeq DEF Coming
  <2>3. ASSUME NEW t \in Targets \ lost', NEW v
        PROVE  /\ Asks(Coming, t, v) => Asks(Coming', t, v)
               /\ NoneFor(Coming, t) => NoneFor(Coming', t)
    <3>1. NoneFor(toSensor, t)
      BY <2>1 DEF NoneFor
    <3>2. ~ Asks(toSensor, t, v)
      BY <3>1 DEF NoneFor, Asks
    <3> QED
      BY <1>1, <2>2, <3>2, AsksConcat DEF Coming
  <2> QED
    BY <1>2, <2>1, <2>3
<1>6. ASSUME NEW u \in Targets, NEW v \in Values, UserSets(u, v)
      PROVE  CommandIsComing'
  <2>1. /\ want' = [want EXCEPT ![u] = v] /\ want \in [Targets -> Values]
        /\ UNCHANGED <<queue, outputs, set>>
    BY <1>6 DEF UserSets, ioVars, TelemetryTypeOK
  <2>2. want'[u] = v /\ \A t \in Targets \ {u} : want'[t] = want[t]
    BY <2>1
  <2>3. CASE Sends(u, v) /\ lost' = lost \ {u}
    BY <2>1, <2>2, <2>3, SentIsComing DEF Sends
  <2>4. CASE lost' = lost \cup {u} /\ UNCHANGED toSensor
    <3>1. Coming' = Coming
      BY <2>1, <2>4 DEF Coming
    <3>2. ASSUME NEW t \in Targets \ lost' PROVE IsComing(t)'
      <4>1. IsComing(t) /\ want'[t] = want[t]
        BY <2>2, <2>4, <3>2, ComingAsks
      <4> QED
        BY <2>1, <3>1, <4>1 DEF IsComing
    <3> QED
      BY <3>2, ComingAsks
  <2> QED
    BY <1>6, <2>3, <2>4 DEF UserSets
<1>7. ASSUME NEW u \in Pwm, UserReleases(u)
      PROVE  CommandIsComing'
  <2>1. u \in Targets /\ screen.controls[u] \in Values
    BY DEF TelemetryTypeOK, Targets
  <2>2. UNCHANGED <<queue, outputs, set, want>>
    BY <1>7 DEF UserReleases, ioVars
  <2>3. CASE /\ Sends(u, screen.controls[u])
             /\ lost' = IF screen.controls[u] = want[u] THEN lost \ {u} ELSE lost \cup {u}
    <3>1. want'[u] = screen.controls[u] \/ u \in lost'
      BY <2>2, <2>3
    <3> QED
      BY <2>1, <2>2, <2>3, <3>1, SentIsComing DEF Sends
  <2>4. CASE UNCHANGED <<toSensor, lost>>
    BY <1>2, <2>2, <2>4 DEF Coming
  <2> QED
    BY <1>7, <2>3, <2>4 DEF UserReleases
<1>8. CASE unchanged
  BY <1>2, <1>8 DEF Coming
<1>9. [Next]_vars =>
        \/ unchanged \/ IoApplies \/ Receives \/ Drops \/ Disconnects
        \/ \E t \in Targets, value \in Values : UserSets(t, value)
        \/ \E t \in Pwm : UserReleases(t)
  BY DEF Next, vars, ioVars, modelVars, linkVars, hmiVars, IoTask, HttpdTask, Publisher,
         IoSamples, IoSampleFails, IoReports, PubDecides, PubCounts, PubBuilds, PubSends,
         PubSendFails, StoresUpdate, RejectsUpdate, ShowsUpdate, ShowsAgain, Connects,
         AmbientFails, AmbientReads, PinsChange
<1> QED
  BY <1>3, <1>4, <1>5, <1>6, <1>7, <1>8, <1>9, IoAppliesComing

-----------------------------------------------------------------------------
(***************************************************************************)
(* The invariant, and what follows.                                        *)
(***************************************************************************)

LEMMA InitTelemetryInv == Init => TelemetryInv
<1> SUFFICES ASSUME Init PROVE TelemetryInv
  OBVIOUS
<1>1. TelemetryTypeOK
  <2>1. /\ Default \in Values /\ 0 \in 0 .. MaxInputs /\ 0 <= QueueDepth /\ 0 <= MaxInFlight
        /\ "gpio" \in Targets
    BY TelemetryAssumption DEF Targets
  <2>2. <<>> \in Seq(Commands) /\ <<>> \in Seq(Updates) /\ Len(<<>>) = 0
    OBVIOUS
  <2> QED
    BY <2>1, <2>2, UpdatesOf DEF Init, TelemetryTypeOK
<1>2. PublishedIsComing /\ ControlsFollow
  BY DEF Init, PublishedIsComing, ControlsFollow
<1>3. CommandIsComing
  <2>1. Coming = <<>>
    BY DEF Init, Coming
  <2>2. \A t \in Targets : NoneFor(Coming, t)
    BY <2>1 DEF NoneFor
  <2>3. \A t \in Targets : outputs[t] = want[t] /\ (t \in Pwm => set[t] = want[t])
    BY DEF Init, Targets
  <2> QED
    BY <2>2, <2>3, ComingAsks DEF IsComing
<1> QED
  BY <1>1, <1>2, <1>3 DEF TelemetryInv

\* TelemetryInv is inductive (t_io.c, app_main.c, the data models of both nodes, ui_screens.c).
THEOREM TelemetryInvariant == Spec => []TelemetryInv
<1>1. Init => TelemetryInv
  BY InitTelemetryInv
<1>2. TelemetryInv /\ [Next]_vars => TelemetryInv'
  BY NextTelemetryTyped, NextControlsFollow, NextPublishedIsComing, NextCommandIsComing
     DEF TelemetryInv
<1> QED
  BY <1>1, <1>2, PTL DEF Spec

\* TelemetryTypeOK for every depth of the queue, number of channels and threshold: the queue of t_io.c
\* keeps its depth and sequence_id its width.
THEOREM TelemetryTyped == Spec => []TelemetryTypeOK
<1>1. TelemetryInv => TelemetryTypeOK
  BY DEF TelemetryInv
<1> QED
  BY <1>1, TelemetryInvariant, PTL

\* SettledIsRight: an update and a command may be late, missed or lost, but with nothing on its way any
\* more and nothing known to be lost the screen and the outputs are right (data_model_should_publish,
\* data_model_build, hmi_data_model_set_update, io_task).
THEOREM SettledRight == Spec => []SettledIsRight
<1>1. TelemetryInv => SettledIsRight
  <2> SUFFICES ASSUME TelemetryInv, Settled PROVE /\ missed = "no" => ScreenIsRight
                                                  /\ \A t \in Targets \ lost : outputs[t] = want[t]
    BY DEF SettledIsRight
  <2>1. \A t \in Targets \ lost : outputs[t] = want[t] /\ (t \in Pwm => set[t] = want[t])
    <3>1. Coming = <<>>
      BY DEF Settled
    <3>2. \A t, v : ~ Asks(Coming, t, v)
      BY <3>1 DEF Asks
    <3> QED
      BY <3>2, ComingAsks DEF TelemetryInv, IsComing
  <2>2. ASSUME missed = "no" PROVE ScreenIsRight
    <3>1. screen.update = published
      BY <2>2 DEF TelemetryInv, PublishedIsComing, Settled
    <3>2. /\ published.pwm = set /\ published.gpio = pins
          /\ ~ValueChanged(current.ambient.temp, published.ambient.temp)
      BY DEF Settled, ShouldPublish
    <3>3. ASSUME NEW t \in Targets PROVE ControlIsRight(t)
      <4>1. CASE t \notin moved
        <5>1. screen.controls[t] = Controls(published)[t]
          BY <3>1, <3>3, <4>1 DEF TelemetryInv, ControlsFollow
        <5> QED
          BY <3>2, <3>3, <5>1 DEF ControlIsRight, Controls
      <4>2. CASE t \in moved
        <5>1. screen.controls[t] = want[t]
          BY <3>3, <4>2 DEF TelemetryInv, ControlsFollow
        <5>2. t = "gpio" \/ t \in Pwm
          BY <3>3 DEF Targets
        <5> QED
          BY <2>1, <3>3, <4>2, <5>1, <5>2 DEF ControlIsRight
      <4> QED
        BY <4>1, <4>2
    <3>4. ~ValueChanged(screen.update.ambient.temp, current.ambient.temp)
      BY <3>1, <3>2 DEF ValueChanged
    <3> QED
      BY <3>3, <3>4 DEF ScreenIsRight
  <2> QED
    BY <2>1, <2>2
<1> QED
  BY <1>1, TelemetryInvariant, PTL

-----------------------------------------------------------------------------
(***************************************************************************)
(* The screen implements Feed.                                             *)
(***************************************************************************)

\* What Loses makes of the snapshots s.
LosesSome(s, left) ==
    \E j \in 1 .. Len(s) : \E i \in 0 .. (j - 1) :
      left = SubSeq(s, 1, i) \o SubSeq(s, j + 1, Len(s))

\* Of three sequences the second can be lost.
LEMMA LostFromMiddle ==
    ASSUME NEW S, NEW x \in Seq(S), NEW y \in Seq(S), NEW z \in Seq(S), y # <<>>
    PROVE  LosesSome(x \o (y \o z), x \o z)
<1> DEFINE all == x \o (y \o z)
           i == Len(x)
           j == Len(x) + Len(y)
           left == SubSeq(all, 1, i)
           right == SubSeq(all, j + 1, Len(all))
<1>1. Len(x) \in Nat /\ Len(y) \in Nat \ {0} /\ Len(z) \in Nat
  BY LenProperties, EmptySeq
<1>2. /\ y \o z \in Seq(S) /\ Len(y \o z) = Len(y) + Len(z)
      /\ \A k \in 1 .. Len(y) + Len(z) : (y \o z)[k] = IF k <= Len(y) THEN y[k] ELSE z[k - Len(y)]
  BY ConcatProperties
<1>3. /\ all \in Seq(S) /\ Len(all) = Len(x) + Len(y) + Len(z)
      /\ \A k \in 1 .. Len(all) : all[k] = IF k <= Len(x) THEN x[k] ELSE (y \o z)[k - Len(x)]
  BY <1>1, <1>2, ConcatProperties
<1>4. \A k \in 1 .. Len(all) : all[k] \in S
  BY <1>3, ElementOfSeq
<1> HIDE DEF all
<1>5. left = x
  <2>1. /\ left \in Seq(S) /\ Len(left) = Len(x)
        /\ \A k \in 1 .. Len(x) : left[k] = all[k]
    BY <1>1, <1>3, <1>4, SubSeqProperties
  <2>2. \A k \in 1 .. Len(x) : left[k] = x[k]
    BY <1>1, <1>3, <2>1
  <2> QED
    BY <2>1, <2>2, SeqEqual
<1>6. right = z
  <2>1. /\ right \in Seq(S) /\ Len(right) = Len(z)
        /\ \A k \in 1 .. Len(z) : right[k] = all[j + k]
    <3>1. \A k \in (j + 1) .. Len(all) : all[k] \in S
      BY <1>1, <1>4
    <3>2. /\ right \in Seq(S)
          /\ Len(right) = IF j + 1 <= Len(all) THEN Len(all) - (j + 1) + 1 ELSE 0
          /\ \A k \in 1 .. Len(all) - (j + 1) + 1 : right[k] = all[(j + 1) + k - 1]
      BY <1>1, <1>3, <3>1, SubSeqProperties
    <3>3. Len(all) - (j + 1) + 1 = Len(z) /\ (j + 1 <= Len(all) \/ Len(z) = 0)
      BY <1>1, <1>3
    <3>4. \A k \in 1 .. Len(z) : (j + 1) + k - 1 = j + k
      BY <1>1
    <3> QED
      BY <1>1, <3>2, <3>3, <3>4
  <2>2. ASSUME NEW k \in 1 .. Len(z) PROVE right[k] = z[k]
    <3>1. j + k \in 1 .. Len(all) /\ ~ (j + k <= Len(x)) /\ (j + k) - Len(x) = Len(y) + k
      BY <1>1, <1>3
    <3>2. all[j + k] = (y \o z)[Len(y) + k]
      BY <1>3, <3>1
    <3>3. Len(y) + k \in 1 .. Len(y) + Len(z) /\ ~ (Len(y) + k <= Len(y)) /\ Len(y) + k - Len(y) = k
      BY <1>1
    <3>4. (y \o z)[Len(y) + k] = z[k]
      BY <1>2, <3>3
    <3> QED
      BY <2>1, <3>2, <3>4
  <2> QED
    BY <2>1, <2>2, SeqEqual
<1>7. j \in 1 .. Len(all) /\ i \in 0 .. (j - 1)
  BY <1>1, <1>3
<1>8. x \o z = left \o right
  BY <1>5, <1>6
<1> HIDE DEF i, j
<1>9. \E m \in 1 .. Len(all) : \E n \in 0 .. (m - 1) :
        x \o z = SubSeq(all, 1, n) \o SubSeq(all, m + 1, Len(all))
  BY <1>7, <1>8
<1> QED
  BY <1>9 DEF LosesSome, all

\* The three places a snapshot can be.
Kept == IF hmi.has THEN <<hmi.last>> ELSE <<>>
BeingSent == IF pub = "send" THEN <<published>> ELSE <<>>

\* They hold updates, and can be read from the left or from the right.
LEMMA SnapshotsOf ==
    ASSUME TelemetryTypeOK
    PROVE  /\ Kept \in Seq(Updates) /\ toHmi \in Seq(Updates) /\ BeingSent \in Seq(Updates)
           /\ toHmi \o BeingSent \in Seq(Updates) /\ Kept \o toHmi \in Seq(Updates)
           /\ Snapshots = (Kept \o toHmi) \o BeingSent
           /\ Snapshots = Kept \o (toHmi \o BeingSent)
<1>1. Kept \in Seq(Updates) /\ toHmi \in Seq(Updates) /\ BeingSent \in Seq(Updates)
  BY DEF TelemetryTypeOK, Kept, BeingSent
<1>2. Snapshots = (Kept \o toHmi) \o BeingSent
  BY DEF Snapshots, Kept, BeingSent
<1> HIDE DEF Kept, BeingSent
<1>3. toHmi \o BeingSent \in Seq(Updates) /\ Kept \o toHmi \in Seq(Updates)
  BY <1>1, ConcatProperties
<1>4. (Kept \o toHmi) \o BeingSent = Kept \o (toHmi \o BeingSent)
  BY <1>1, ConcatAssociative
<1> QED
  BY <1>1, <1>2, <1>3, <1>4

\* A step that gives up some of the snapshots in the middle.
LEMMA LosesFrom ==
    ASSUME NEW x \in Seq(Updates), NEW y \in Seq(Updates), NEW z \in Seq(Updates), y # <<>>,
           Snapshots = x \o (y \o z), Snapshots' = x \o z,
           UNCHANGED <<current, screen.update>>
    PROVE  Screen!Next
<1>1. LosesSome(Snapshots, Snapshots')
  BY LostFromMiddle
<1>2. \E j \in 1 .. Len(Snapshots) : \E i \in 0 .. (j - 1) : Screen!Loses(i, j)
  BY <1>1 DEF LosesSome, Screen!Loses
<1> QED
  BY <1>2 DEF Screen!Next

\* The steps on the side of the sensor node.
LEMMA PublisherFeeds ==
    ASSUME TelemetryTypeOK, TelemetryTypeOK', PubBuilds \/ PubSends \/ PubSendFails
    PROVE  Screen!Next \/ UNCHANGED <<current, Snapshots, screen.update>>
<1> DEFINE p == published
<1>1. /\ Kept \in Seq(Updates) /\ toHmi \in Seq(Updates)
      /\ Kept \o toHmi \in Seq(Updates) /\ p \in Updates /\ <<p>> \in Seq(Updates)
      /\ Snapshots = (Kept \o toHmi) \o BeingSent
      /\ Snapshots' = (Kept' \o toHmi') \o BeingSent'
  BY SnapshotsOf DEF TelemetryTypeOK, Snapshots, Kept, BeingSent
<1>2. Kept' = Kept /\ UNCHANGED <<current, screen.update>>
  BY DEF PubBuilds, PubSends, PubSendFails, linkVars, hmiVars, Kept
<1>3. CASE PubBuilds
  <2>1. toHmi' = toHmi /\ BeingSent = <<>> /\ BeingSent' = <<current>> /\ current \in Updates
    BY <1>3 DEF PubBuilds, linkVars, BeingSent, TelemetryTypeOK
  <2>2. Snapshots = Kept \o toHmi /\ Snapshots' = (Kept \o toHmi) \o <<current>>
    BY <1>1, <1>2, <2>1, ConcatEmptySeq
  <2>3. Snapshots' = Append(Snapshots, current)
    BY <1>1, <2>1, <2>2, AppendIsConcat
  <2> QED
    BY <1>2, <2>3 DEF Screen!Next, Screen!Takes
<1>4. CASE PubSends /\ open
  <2>1. toHmi' = Append(toHmi, p) /\ BeingSent = <<p>> /\ BeingSent' = <<>>
    BY <1>4 DEF PubSends, BeingSent
  <2>2. Kept \o Append(toHmi, p) = Append(Kept \o toHmi, p)
    BY <1>1, HeadMoves
  <2>3. Append(Kept \o toHmi, p) = (Kept \o toHmi) \o <<p>>
    BY <1>1, AppendIsConcat
  <2>4. Snapshots' = Snapshots
    <3>1. (Kept \o toHmi) \o <<p>> \in Seq(Updates)
      BY <1>1, ConcatProperties
    <3> QED
      BY <1>1, <1>2, <2>1, <2>2, <2>3, <3>1, ConcatEmptySeq
  <2> QED
    BY <1>2, <2>4
<1>5. CASE (PubSends /\ ~open) \/ PubSendFails
  <2>1. toHmi' = toHmi /\ BeingSent = <<p>> /\ BeingSent' = <<>>
    BY <1>5 DEF PubSends, PubSendFails, linkVars, BeingSent
  <2>2. /\ Snapshots = (Kept \o toHmi) \o (<<p>> \o <<>>)
        /\ Snapshots' = (Kept \o toHmi) \o <<>>
    BY <1>1, <1>2, <2>1, ConcatEmptySeq
  <2>3. <<>> \in Seq(Updates) /\ <<p>> # <<>>
    OBVIOUS
  <2> HIDE DEF p
  <2> QED
    BY <1>1, <1>2, <2>2, <2>3, LosesFrom
<1> QED
  BY <1>3, <1>4, <1>5

\* The steps on the side of the HMI, and the connection's end.
LEMMA HmiFeeds ==
    ASSUME TelemetryTypeOK, StoresUpdate \/ RejectsUpdate \/ Disconnects \/ ShowsUpdate
    PROVE  Screen!Next \/ UNCHANGED <<current, Snapshots, screen.update>>
<1>1. /\ Kept \in Seq(Updates) /\ toHmi \in Seq(Updates) /\ BeingSent \in Seq(Updates)
      /\ toHmi \o BeingSent \in Seq(Updates)
      /\ Snapshots = Kept \o (toHmi \o BeingSent)
      /\ Snapshots' = (Kept' \o toHmi') \o BeingSent'
      /\ BeingSent' = BeingSent /\ current' = current
  BY SnapshotsOf
     DEF Snapshots, Kept, BeingSent, StoresUpdate, RejectsUpdate, Disconnects, ShowsUpdate, modelVars
<1>2. toHmi # <<>> =>
        /\ Tail(toHmi) \in Seq(Updates) /\ <<Head(toHmi)>> \in Seq(Updates)
        /\ Tail(toHmi) \o BeingSent \in Seq(Updates)
        /\ toHmi = <<Head(toHmi)>> \o Tail(toHmi)
        /\ toHmi \o BeingSent = <<Head(toHmi)>> \o (Tail(toHmi) \o BeingSent)
  <2> SUFFICES ASSUME toHmi # <<>>
               PROVE  /\ Tail(toHmi) \in Seq(Updates) /\ <<Head(toHmi)>> \in Seq(Updates)
                      /\ Tail(toHmi) \o BeingSent \in Seq(Updates)
                      /\ toHmi = <<Head(toHmi)>> \o Tail(toHmi)
                      /\ toHmi \o BeingSent = <<Head(toHmi)>> \o (Tail(toHmi) \o BeingSent)
    OBVIOUS
  <2>1. Head(toHmi) \in Updates /\ Tail(toHmi) \in Seq(Updates)
    BY <1>1, HeadTail
  <2>2. <<Head(toHmi)>> \in Seq(Updates)
    BY <2>1
  <2>3. toHmi = <<Head(toHmi)>> \o Tail(toHmi)
    BY <1>1, HeadMoves
  <2>4. (<<Head(toHmi)>> \o Tail(toHmi)) \o BeingSent = <<Head(toHmi)>> \o (Tail(toHmi) \o BeingSent)
    BY <1>1, <2>1, <2>2, ConcatAssociative
  <2> QED
    BY <1>1, <2>1, <2>2, <2>3, <2>4, ConcatProperties
<1>3. CASE StoresUpdate
  <2>1. /\ toHmi # <<>> /\ toHmi' = Tail(toHmi) /\ Kept' = <<Head(toHmi)>>
        /\ UNCHANGED <<current, screen.update>>
    BY <1>3 DEF StoresUpdate, Kept, modelVars
  <2>2. Snapshots' = toHmi \o BeingSent
    BY <1>1, <1>2, <2>1
  <2>3. CASE Kept = <<>>
    BY <1>1, <2>1, <2>2, <2>3, ConcatEmptySeq
  <2>4. CASE Kept # <<>>
    <3>1. Snapshots = <<>> \o (Kept \o (toHmi \o BeingSent)) /\ Snapshots' = <<>> \o (toHmi \o BeingSent)
      BY <1>1, <2>2, ConcatEmptySeq, ConcatProperties
    <3>2. <<>> \in Seq(Updates)
      OBVIOUS
    <3> QED
      BY <1>1, <2>1, <2>4, <3>1, <3>2, LosesFrom
  <2> QED
    BY <2>3, <2>4
<1>4. CASE RejectsUpdate
  <2>1. /\ toHmi # <<>> /\ toHmi' = Tail(toHmi) /\ Kept' = Kept
        /\ UNCHANGED <<current, screen.update>>
    BY <1>4 DEF RejectsUpdate, Kept, modelVars, hmiVars
  <2>2. Snapshots = Kept \o (<<Head(toHmi)>> \o (Tail(toHmi) \o BeingSent))
    BY <1>1, <1>2, <2>1
  <2>3. (Kept \o Tail(toHmi)) \o BeingSent = Kept \o (Tail(toHmi) \o BeingSent)
    <3>1. Kept \in Seq(Updates) /\ Tail(toHmi) \in Seq(Updates) /\ BeingSent \in Seq(Updates)
      BY <1>1, <1>2, <2>1
    <3> QED
      BY <3>1, ConcatAssociative
  <2>4. Snapshots' = Kept \o (Tail(toHmi) \o BeingSent)
    BY <1>1, <2>1, <2>3
  <2> QED
    BY <1>1, <1>2, <2>1, <2>2, <2>4, LosesFrom
<1>5. CASE Disconnects
  <2>1. toHmi' = <<>> /\ Kept' = Kept /\ UNCHANGED <<current, screen.update>>
    BY <1>5 DEF Disconnects, Kept, modelVars, hmiVars
  <2>2. Snapshots' = Kept \o BeingSent
    BY <1>1, <2>1, ConcatEmptySeq
  <2>3. CASE toHmi = <<>>
    BY <1>1, <2>1, <2>2, <2>3, ConcatEmptySeq
  <2>4. CASE toHmi # <<>>
    BY <1>1, <2>1, <2>2, <2>4, LosesFrom
  <2> QED
    BY <2>3, <2>4
<1>6. CASE ShowsUpdate
  <2>1. /\ Kept = <<hmi.last>> /\ Kept' = <<>> /\ toHmi' = toHmi /\ hmi.last \in Updates
        /\ screen'.update = hmi.last
    BY <1>6 DEF ShowsUpdate, Draws, Kept, linkVars, TelemetryTypeOK
  <2>2. Snapshots' = toHmi \o BeingSent
    BY <1>1, <2>1, ConcatEmptySeq
  <2>3. Snapshots = <<hmi.last>> \o (toHmi \o BeingSent)
    BY <1>1, <2>1
  <2>4. Snapshots # <<>> /\ Head(Snapshots) = hmi.last /\ Tail(Snapshots) = toHmi \o BeingSent
    BY <1>1, <2>1, <2>3
  <2> QED
    BY <1>1, <2>1, <2>2, <2>4 DEF Screen!Next, Screen!Shows
<1> QED
  BY <1>3, <1>4, <1>5, <1>6

\* SnapshotsInOrder: the loop of app_main, the connection, the mailbox of the HMI's data model and ui_task
\* implement Feed, for updates of every kind and any number of them in flight.
THEOREM SnapshotsStayInOrder == Spec => SnapshotsInOrder
<1>1. Init => Screen!Init
  <2>1. Init => Snapshots = <<>>
    BY DEF Init, Snapshots
  <2> QED
    BY <2>1 DEF Init, Screen!Init
<1>2. ASSUME TelemetryTypeOK, TelemetryTypeOK', [Next]_vars
      PROVE  [Screen!Next]_<<current, Snapshots, screen.update>>
  <2>1. CASE IoSamples \/ IoReports \/ AmbientFails \/ PubCounts
             \/ \E temp \in 0 .. MaxTemp : AmbientReads(temp)
    <3>1. UNCHANGED <<hmi, toHmi, published, screen>> /\ (pub = "send" <=> pub' = "send")
      BY <2>1 DEF IoSamples, IoReports, AmbientFails, PubCounts, AmbientReads, linkVars, hmiVars
    <3>2. Snapshots' = Snapshots /\ current' \in Updates
      BY <1>2, <3>1 DEF Snapshots, TelemetryTypeOK
    <3> QED
      BY <3>1, <3>2 DEF Screen!Next, Screen!Changes
  <2>2. CASE PubBuilds \/ PubSends \/ PubSendFails
    BY <1>2, <2>2, PublisherFeeds
  <2>3. CASE StoresUpdate \/ RejectsUpdate \/ Disconnects \/ ShowsUpdate
    BY <1>2, <2>3, HmiFeeds
  <2>4. CASE PubDecides \/ ShowsAgain \/ \E t \in Targets, value \in Values : UserSets(t, value)
    <3>1. UNCHANGED <<hmi, toHmi, published, current>> /\ (pub = "send" <=> pub' = "send")
      BY <2>4 DEF PubDecides, ShowsAgain, UserSets, linkVars, hmiVars, modelVars
    <3>2. screen'.update = screen.update
      BY <1>2, <2>4 DEF PubDecides, ShowsAgain, UserSets, Draws, hmiVars, TelemetryTypeOK
    <3> QED
      BY <3>1, <3>2 DEF Snapshots
  <2>5. CASE UNCHANGED <<hmi, toHmi, published, pub, current, screen>>
    BY <2>5 DEF Snapshots
  <2>6. \/ IoSamples \/ IoReports \/ AmbientFails \/ \E temp \in 0 .. MaxTemp : AmbientReads(temp)
        \/ Publisher \/ StoresUpdate \/ RejectsUpdate \/ Disconnects \/ ShowsUpdate \/ ShowsAgain
        \/ \E t \in Targets, value \in Values : UserSets(t, value)
        \/ UNCHANGED <<hmi, toHmi, published, pub, current, screen>>
    BY <1>2 DEF Next, vars, ioVars, modelVars, linkVars, hmiVars, IoTask, HttpdTask, IoApplies,
                IoSampleFails, Receives, Drops, Connects, UserReleases, PinsChange
  <2> QED
    BY <2>1, <2>2, <2>3, <2>4, <2>5, <2>6 DEF Publisher
<1> QED
  BY <1>1, <1>2, TelemetryTyped, PTL DEF Spec, SnapshotsInOrder, Screen!Spec
=============================================================================
