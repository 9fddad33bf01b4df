------------------------------ MODULE OtaProofs ------------------------------
(***************************************************************************)
(* What Ota promises, for every set of images, every number of attempts,   *)
(* every back-off and any number of faults.                                *)
(*                                                                         *)
(* SafeToBoot needs to know which slot is written while which one runs,    *)
(* InstalledOnce which of the three records of a version (the one in the   *)
(* NVS, the one the task has read, the one about to be written) stops it   *)
(* from being installed again: OtaInv.                                     *)
(***************************************************************************)
EXTENDS Ota, DoublingProofs

-----------------------------------------------------------------------------
\* The two slots.
LEMMA OtherSlot ==
    ASSUME NEW s \in Slot
    PROVE  Other(s) \in Slot /\ Other(s) # s /\ \A t \in Slot : t # s => t = Other(s)
<1>1. \E o \in Slot : o # s
  BY DEF Slot
<1>2. Other(s) \in Slot /\ Other(s) # s
  BY <1>1 DEF Other
<1> QED
  BY <1>2 DEF Slot

\* The lesser of two numbers.
LEMMA MinOfTwo ==
    ASSUME NEW a \in Int, NEW b \in Int
    PROVE  Min({a, b}) = IF a <= b THEN a ELSE b
<1>1. \E x \in {a, b} : \A y \in {a, b} : x <= y
  OBVIOUS
<1>2. Min({a, b}) \in {a, b} /\ \A y \in {a, b} : Min({a, b}) <= y
  BY <1>1 DEF Min
<1> QED
  BY <1>2

\* How installs counts.
LEMMA CountedInstalls ==
    ASSUME NEW n \in Nat
    PROVE  Min({n + 1, MaxFaults + 2}) \in Nat /\ Min({n + 1, MaxFaults + 2}) <= n + 1
<1>1. MaxFaults + 2 \in Int /\ MaxFaults + 2 \in Nat
  BY OtaAssumption
<1>2. Min({n + 1, MaxFaults + 2}) = IF n + 1 <= MaxFaults + 2 THEN n + 1 ELSE MaxFaults + 2
  BY <1>1, MinOfTwo
<1> QED
  BY <1>1, <1>2

\* Versions are numbers.
LEMMA VersionsNat == Versions \subseteq Nat /\ \A i \in Images \cup {First} : i.version \in Versions
  BY OtaAssumption DEF Versions

-----------------------------------------------------------------------------
(***************************************************************************)
(* Types.                                                                  *)
(***************************************************************************)

\* The types of the factory state.
LEMMA InitTyped == Init => OtaTypeOK
<1> SUFFICES ASSUME Init PROVE OtaTypeOK
  OBVIOUS
<1>1. /\ attempt \in 0 .. MaxRetries /\ backoff \in Nat /\ faults \in 0 .. MaxFaults
      /\ forgot \in 0 .. MaxFaults
  BY OtaAssumption DEF Init
<1>2. installs \in [Versions -> Nat]
  BY DEF Init
<1>3. slots \in [Slot -> [img : Images \cup {First, None},
                          state : {"empty", "new", "pending", "valid", "aborted"}]]
  BY DEF Init, Slot
<1> QED
  BY <1>1, <1>2, <1>3 DEF Init, OtaTypeOK, Slot

\* What a restart leaves.
LEMMA RestartTyped ==
    ASSUME OtaTypeOK, Restarts
    PROVE  /\ cfg' = cfg /\ pc' = "app" /\ attempt' = 0 /\ backoff' = InitialBackoff
           /\ loaded' = None /\ image' = None /\ stored' = stored /\ served' = served
           /\ slots' \in [Slot -> [img : Images \cup {First, None},
                                   state : {"empty", "new", "pending", "valid", "aborted"}]]
           /\ run' \in Slot /\ boot' \in Slot
<1>1. Other(boot) \in Slot
  BY OtherSlot DEF OtaTypeOK
<1> QED
  BY <1>1 DEF Restarts, OtaTypeOK

\* Every step preserves the types.
LEMMA NextTyped == OtaTypeOK /\ SlotsInOrder /\ forgot <= faults /\ [Next]_vars => OtaTypeOK'
<1> SUFFICES ASSUME OtaTypeOK, SlotsInOrder, forgot <= faults, [Next]_vars PROVE OtaTypeOK'
  OBVIOUS
<1>0. 0 \in 0 .. MaxRetries /\ 1 \in 0 .. MaxRetries /\ InitialBackoff \in Nat
  BY OtaAssumption
<1> USE DEF OtaTypeOK
<1>1. CASE Schedules
  BY <1>1, <1>0 DEF Schedules, task, flash, history
<1>2. CASE StartFails
  BY <1>2, <1>0, RestartTyped DEF StartFails, history
<1>3. CASE ImageCrashes
  BY <1>3, <1>0, RestartTyped DEF ImageCrashes, history
<1>4. CASE MarksValid
  BY <1>4 DEF MarksValid, history
<1>5. CASE MarkFails
  <2>1. faults' \in 0 .. MaxFaults /\ forgot' \in 0 .. MaxFaults
    BY <1>5, OtaAssumption DEF MarkFails, Fault, history
  <2> QED
    BY <1>5, <1>0, <2>1 DEF MarkFails, flash, history
<1>6. CASE LoadsVersion
  BY <1>6, <1>0 DEF LoadsVersion, task, flash, history
<1>7. CASE LoadFails
  <2>1. faults' \in 0 .. MaxFaults /\ forgot' \in 0 .. MaxFaults
    BY <1>7, OtaAssumption DEF LoadFails, Fault, history
  <2> QED
    BY <1>7, <1>0, <2>1 DEF LoadFails, flash, history
<1>8. CASE Checks
  BY <1>8, <1>0 DEF Checks, task, flash, history
<1>9. CASE Rejects
  BY <1>9, <1>0 DEF Rejects, task, flash, history
<1>10. CASE CheckFails
  <2>1. /\ attempt' \in 0 .. MaxRetries /\ backoff' \in Nat
        /\ pc' \in {"check", "done"}
    BY <1>10, OtaAssumption DEF CheckFails, Retries, NextBackoff
  <2> QED
    BY <1>10, <2>1 DEF CheckFails, flash, history
<1>11. CASE Transfers
  <2>1. Other(run) \in Slot
    BY OtherSlot
  <2> QED
    BY <1>11, <2>1 DEF Transfers, history
<1>12. CASE TransferFails
  <2>1. /\ attempt' \in 0 .. MaxRetries /\ backoff' \in Nat
        /\ pc' \in {"check", "done"}
    BY <1>12, OtaAssumption DEF TransferFails, Retries, NextBackoff
  <2> QED
    BY <1>12, <2>1 DEF TransferFails, flash, history
<1>13. CASE Finishes
  <2>1. Other(run) \in Slot /\ image \in Images
    BY <1>13, OtherSlot DEF Finishes, SlotsInOrder
  <2>2. installs' \in [Versions -> Nat]
    <3>1. image.version \in Versions /\ installs[image.version] \in Nat
      BY <2>1, VersionsNat
    <3>2. Min({installs[image.version] + 1, MaxFaults + 2}) \in Nat
      BY <3>1, CountedInstalls
    <3> QED
      BY <1>13, <3>2 DEF Finishes
  <2> QED
    BY <1>13, <2>1, <2>2 DEF Finishes
<1>14. CASE FinishFails
  BY <1>14, <1>0 DEF FinishFails, task, flash, history
<1>15. CASE StoresVersion
  <2>1. image.version \in Versions
    BY <1>15, VersionsNat DEF StoresVersion, SlotsInOrder
  <2> QED
    BY <1>15, <2>1 DEF StoresVersion, history
<1>16. CASE StoreFails
  <2>1. faults' \in 0 .. MaxFaults /\ forgot' \in 0 .. MaxFaults
    BY <1>16, OtaAssumption DEF StoreFails, Fault, history
  <2> QED
    BY <1>16, <1>0, <2>1 DEF StoreFails, flash, history
<1>17. CASE RestartsIntoNew
  BY <1>17, <1>0, RestartTyped DEF RestartsIntoNew, history
<1>18. CASE LosesPower
  <2>1. faults' \in 0 .. MaxFaults /\ forgot' \in 0 .. MaxFaults
    BY <1>18, OtaAssumption DEF LosesPower, Fault
  <2> QED
    BY <1>18, <1>0, <2>1, RestartTyped DEF LosesPower
<1>19. ASSUME NEW new \in Images, ServerChanges(new)
      PROVE  OtaTypeOK'
  <2>1. faults' \in 0 .. MaxFaults /\ forgot' \in 0 .. MaxFaults
    BY <1>19, OtaAssumption DEF ServerChanges, Fault, history
  <2> QED
    BY <1>19, <2>1 DEF ServerChanges, task, flash, history
<1>20. CASE UNCHANGED vars
  BY <1>20 DEF vars, task, flash, history
<1> QED
  BY <1>1, <1>2, <1>3, <1>4, <1>5, <1>6, <1>7, <1>8, <1>9, <1>10,
     <1>11, <1>12, <1>13, <1>14, <1>15, <1>16, <1>17, <1>18, <1>19, <1>20
     DEF Next, Step, Attempt

-----------------------------------------------------------------------------
(***************************************************************************)
(* Attempts and back-off.                                                  *)
(***************************************************************************)

\* One more attempt doubles the delay once more, up to the limit.
LEMMA RetryDoubles ==
    ASSUME NEW n \in Nat \ {0}, backoff = Min({InitialBackoff * Pow2[n - 1], MaxBackoff})
    PROVE  NextBackoff = Min({InitialBackoff * Pow2[n], MaxBackoff})
<1> DEFINE b == InitialBackoff * Pow2[n - 1]
<1>1. n - 1 \in Nat /\ n = (n - 1) + 1
  OBVIOUS
<1>2. b \in Nat /\ InitialBackoff * Pow2[n] = 2 * b
  <2>1. Pow2[n - 1] \in Nat /\ Pow2[n] = 2 * Pow2[n - 1]
    BY <1>1, Pow2Def
  <2> QED
    BY <2>1, OtaAssumption
<1> HIDE DEF b
<1>3. MaxBackoff \in Nat
  BY OtaAssumption
<1>4. Min({b, MaxBackoff}) = IF b <= MaxBackoff THEN b ELSE MaxBackoff
  BY <1>2, <1>3, MinOfTwo
<1>5. Min({2 * b, MaxBackoff}) = IF 2 * b <= MaxBackoff THEN 2 * b ELSE MaxBackoff
  <2>1. 2 * b \in Int
    BY <1>2
  <2> QED
    BY <1>3, <2>1, MinOfTwo
<1>6. backoff = Min({b, MaxBackoff})
  BY DEF b
<1> QED
  BY <1>2, <1>3, <1>4, <1>5, <1>6 DEF NextBackoff

\* The delay of the first attempt.
LEMMA FirstDelay == Min({InitialBackoff * Pow2[0], MaxBackoff}) = InitialBackoff
<1>1. InitialBackoff * Pow2[0] = InitialBackoff /\ InitialBackoff \in Int /\ MaxBackoff \in Int
  BY OtaAssumption, Pow2Def
<1> QED
  BY <1>1, MinOfTwo, OtaAssumption

\* The first attempt waits for the initial delay.
LEMMA InitBackoff == Init => AttemptsCounted /\ BackoffAsDocumented
  BY OtaAssumption DEF Init, AttemptsCounted, BackoffAsDocumented

\* Only a failed attempt counts, and doubles the delay below its cap.
LEMMA NextBackoffAsDocumented ==
    OtaTypeOK /\ AttemptsCounted /\ BackoffAsDocumented /\ [Next]_vars
      => AttemptsCounted' /\ BackoffAsDocumented'
<1> SUFFICES ASSUME OtaTypeOK, AttemptsCounted, BackoffAsDocumented, [Next]_vars
             PROVE  AttemptsCounted' /\ BackoffAsDocumented'
  OBVIOUS
<1>0. MaxRetries \in Nat \ {0} /\ attempt \in Nat
  BY OtaAssumption DEF OtaTypeOK
<1> USE DEF AttemptsCounted, BackoffAsDocumented
<1>1. CASE Schedules
  BY <1>1 DEF Schedules, task
<1>2. CASE StartFails
  BY <1>2, <1>0 DEF StartFails, Restarts
<1>3. CASE ImageCrashes
  BY <1>3, <1>0 DEF ImageCrashes, Restarts
<1>4. CASE MarksValid
  BY <1>4 DEF MarksValid, task
<1>5. CASE MarkFails
  BY <1>5 DEF MarkFails, task
<1>6. CASE LoadsVersion
  <2>1. attempt = 0 /\ backoff' = InitialBackoff /\ attempt' = 1 /\ pc' = "check"
    BY <1>6 DEF LoadsVersion
  <2>2. Min({InitialBackoff * Pow2[attempt' - 1], MaxBackoff}) = InitialBackoff
    BY <2>1, FirstDelay
  <2> QED
    BY <1>0, <2>1, <2>2
<1>7. CASE LoadFails
  <2>1. attempt = 0 /\ backoff' = InitialBackoff /\ attempt' = 1 /\ pc' = "check"
    BY <1>7 DEF LoadFails
  <2>2. Min({InitialBackoff * Pow2[attempt' - 1], MaxBackoff}) = InitialBackoff
    BY <2>1, FirstDelay
  <2> QED
    BY <1>0, <2>1, <2>2
<1>8. CASE Checks
  BY <1>8 DEF Checks, task
<1>9. CASE Rejects
  BY <1>9 DEF Rejects, task
<1>10. CASE CheckFails
  <2>1. attempt \in Nat \ {0} /\ backoff = Min({InitialBackoff * Pow2[attempt - 1], MaxBackoff})
    BY <1>10, <1>0 DEF CheckFails
  <2>2. CASE attempt < MaxRetries
    <3>1. pc' = "check" /\ attempt' = attempt + 1 /\ backoff' = NextBackoff
      BY <1>10, <2>2 DEF CheckFails, Retries
    <3>2. attempt' # 0 /\ attempt' <= MaxRetries /\ attempt' - 1 = attempt
      BY <1>0, <2>2, <3>1
    <3>3. NextBackoff = Min({InitialBackoff * Pow2[attempt], MaxBackoff})
      BY <2>1, RetryDoubles
    <3> QED
      BY <3>1, <3>2, <3>3
  <2>3. CASE ~(attempt < MaxRetries)
    BY <1>10, <2>1, <2>3 DEF CheckFails, Retries
  <2> QED
    BY <2>2, <2>3
<1>11. CASE Transfers
  BY <1>11 DEF Transfers, task
<1>12. CASE TransferFails
  <2>1. attempt \in Nat \ {0} /\ backoff = Min({InitialBackoff * Pow2[attempt - 1], MaxBackoff})
    BY <1>12, <1>0 DEF TransferFails
  <2>2. CASE attempt < MaxRetries
    <3>1. pc' = "check" /\ attempt' = attempt + 1 /\ backoff' = NextBackoff
      BY <1>12, <2>2 DEF TransferFails, Retries
    <3>2. attempt' # 0 /\ attempt' <= MaxRetries /\ attempt' - 1 = attempt
      BY <1>0, <2>2, <3>1
    <3>3. NextBackoff = Min({InitialBackoff * Pow2[attempt], MaxBackoff})
      BY <2>1, RetryDoubles
    <3> QED
      BY <3>1, <3>2, <3>3
  <2>3. CASE ~(attempt < MaxRetries)
    BY <1>12, <2>1, <2>3 DEF TransferFails, Retries
  <2> QED
    BY <2>2, <2>3
<1>13. CASE Finishes
  BY <1>13 DEF Finishes, task
<1>14. CASE FinishFails
  BY <1>14 DEF FinishFails, task
<1>15. CASE StoresVersion
  BY <1>15 DEF StoresVersion, task
<1>16. CASE StoreFails
  BY <1>16 DEF StoreFails, task
<1>17. CASE RestartsIntoNew
  BY <1>17, <1>0 DEF RestartsIntoNew, Restarts
<1>18. CASE LosesPower
  BY <1>18, <1>0 DEF LosesPower, Restarts
<1>19. ASSUME NEW new \in Images, ServerChanges(new)
      PROVE  AttemptsCounted' /\ BackoffAsDocumented'
  BY <1>19 DEF ServerChanges, task
<1>20. CASE UNCHANGED vars
  BY <1>20 DEF vars, task
<1> QED
  BY <1>1, <1>2, <1>3, <1>4, <1>5, <1>6, <1>7, <1>8, <1>9, <1>10,
     <1>11, <1>12, <1>13, <1>14, <1>15, <1>16, <1>17, <1>18, <1>19, <1>20
     DEF Next, Step, Attempt

-----------------------------------------------------------------------------
(***************************************************************************)
(* The slots.                                                              *)
(***************************************************************************)

\* The factory image is valid, and boots.
LEMMA InitSlots == Init => SafeToBoot /\ SlotsInOrder
<1> SUFFICES ASSUME Init PROVE SafeToBoot /\ SlotsInOrder
  OBVIOUS
<1>1. /\ slots["a"] = [img |-> First, state |-> "valid"]
      /\ slots["b"] = [img |-> None, state |-> "empty"]
      /\ boot = "a" /\ run = "a" /\ pc = "app"
  BY DEF Init
<1>2. SafeToBoot
  BY <1>1, OtaAssumption DEF SafeToBoot, Slot
<1>3. SlotsInOrder
  BY <1>1 DEF SlotsInOrder, Slot
<1> QED
  BY <1>2, <1>3

\* A restart keeps what is known of the slots: an image that is given up leaves one that is valid.
LEMMA RestartSlots ==
    ASSUME OtaTypeOK, SafeToBoot, SlotsInOrder, Restarts
    PROVE  SafeToBoot' /\ SlotsInOrder'
<1> USE DEF OtaTypeOK, SafeToBoot, SlotsInOrder
<1>1. boot \in Slot /\ Other(boot) \in Slot /\ Other(boot) # boot
  BY OtherSlot
<1>2. pc' = "app" /\ run' = boot' /\ cfg' = cfg
  BY DEF Restarts
<1>3. \A s \in Slot : /\ slots'[s].img = slots[s].img
                      /\ slots'[s].state = "empty" <=> slots[s].state = "empty"
                      /\ slots'[s].state = "valid" <=> slots[s].state = "valid"
  BY <1>1 DEF Restarts
<1>4. CASE slots[boot].state = "pending"
  <2>1. boot' = Other(boot) /\ slots'[boot'].state = "valid"
    BY <1>1, <1>3, <1>4 DEF Restarts
  <2> QED
    BY <1>2, <1>3, <2>1
<1>5. CASE slots[boot].state # "pending"
  <2>1. boot' = boot /\ slots'[boot].state \in {"pending", "valid"}
    BY <1>1, <1>3, <1>5 DEF Restarts
  <2> QED
    BY <1>1, <1>2, <1>3, <2>1
<1> QED
  BY <1>4, <1>5

\* Every step keeps an image to boot and one to fall back on.
LEMMA NextSlots ==
    OtaTypeOK /\ SafeToBoot /\ SlotsInOrder /\ [Next]_vars => SafeToBoot' /\ SlotsInOrder'
<1> SUFFICES ASSUME OtaTypeOK, SafeToBoot, SlotsInOrder, [Next]_vars
             PROVE  SafeToBoot' /\ SlotsInOrder'
  OBVIOUS
<1>0. /\ run \in Slot /\ Other(run) \in Slot /\ Other(run) # run
      /\ \A t \in Slot : t # run => t = Other(run)
      /\ boot \in Slot /\ Other(boot) \in Slot /\ Other(boot) # boot
      /\ \A t \in Slot : t # boot => t = Other(boot)
  BY OtherSlot DEF OtaTypeOK
<1> USE DEF OtaTypeOK, SafeToBoot, SlotsInOrder, Running
<1>1. CASE Schedules
  BY <1>1 DEF Schedules, task, flash
<1>2. CASE StartFails
  BY <1>2, RestartSlots DEF StartFails
<1>3. CASE ImageCrashes
  BY <1>3, RestartSlots DEF ImageCrashes
<1>4. CASE MarksValid
  <2>1. /\ slots'[run] = [slots[run] EXCEPT !.state = "valid"]
        /\ slots'[Other(run)] = slots[Other(run)]
        /\ boot = run /\ pc = "delay" /\ pc' = "connect" /\ UNCHANGED <<cfg, image, run, boot>>
        /\ slots[run].img.kind # "crashes"
    BY <1>4, <1>0 DEF MarksValid
  <2>2. slots'[run].img = slots[run].img /\ slots'[run].state = "valid"
    BY <1>0, <2>1
  <2> QED
    BY <1>0, <2>1, <2>2
<1>5. CASE MarkFails
  BY <1>5 DEF MarkFails, task, flash
<1>6. CASE LoadsVersion
  BY <1>6 DEF LoadsVersion, task, flash
<1>7. CASE LoadFails
  BY <1>7 DEF LoadFails, task, flash
<1>8. CASE Checks
  BY <1>8 DEF Checks, task, flash
<1>9. CASE Rejects
  BY <1>9 DEF Rejects, task, flash
<1>10. CASE CheckFails
  BY <1>10 DEF CheckFails, Retries, flash
<1>11. CASE Transfers
  <2>1. /\ slots'[run] = slots[run] /\ slots[run].state = "valid"
        /\ slots'[Other(run)] = [img |-> None, state |-> "empty"]
        /\ boot = run /\ pc = "transfer" /\ pc' = "finish" /\ UNCHANGED <<cfg, image, run, boot>>
    BY <1>11, <1>0 DEF Transfers
  <2> QED
    BY <1>0, <2>1
<1>12. CASE TransferFails
  BY <1>12 DEF TransferFails, Retries, flash
<1>13. CASE Finishes
  <2>1. /\ slots'[run] = slots[run] /\ slots[run].state = "valid"
        /\ slots'[Other(run)] = [img |-> image, state |-> "new"] /\ image \in Images
        /\ boot' = Other(run) /\ pc = "finish" /\ pc' = "store" /\ UNCHANGED <<cfg, image, run>>
    BY <1>13, <1>0 DEF Finishes
  <2>2. Other(boot') = run
    BY <1>0, <2>1, OtherSlot
  <2> QED
    BY <1>0, <2>1, <2>2
<1>14. CASE FinishFails
  BY <1>14 DEF FinishFails, task, flash
<1>15. CASE StoresVersion
  BY <1>15 DEF StoresVersion, task, flash
<1>16. CASE StoreFails
  BY <1>16 DEF StoreFails, task, flash
<1>17. CASE RestartsIntoNew
  BY <1>17, RestartSlots DEF RestartsIntoNew
<1>18. CASE LosesPower
  BY <1>18, RestartSlots DEF LosesPower
<1>19. ASSUME NEW new \in Images, ServerChanges(new)
      PROVE  SafeToBoot' /\ SlotsInOrder'
  BY <1>19 DEF ServerChanges, task, flash
<1>20. CASE UNCHANGED vars
  BY <1>20 DEF vars, task, flash
<1> QED
  BY <1>1, <1>2, <1>3, <1>4, <1>5, <1>6, <1>7, <1>8, <1>9, <1>10,
     <1>11, <1>12, <1>13, <1>14, <1>15, <1>16, <1>17, <1>18, <1>19, <1>20
     DEF Next, Step, Attempt

-----------------------------------------------------------------------------
(***************************************************************************)
(* The records of a version.                                               *)
(***************************************************************************)

\* No version was installed, and none is recorded.
LEMMA InitRecords == Init => InstalledOnce /\ RecordsKept
  BY DEF Init, InstalledOnce, RecordsKept

\* A record that is lost raises what each version is allowed.
LEMMA ForgetsRecords ==
    ASSUME OtaTypeOK, InstalledOnce, forgot' = forgot + 1, UNCHANGED <<cfg, installs>>
    PROVE  InstalledOnce' /\ (cfg.validate => \A v \in Versions : ~(installs'[v] > forgot'))
<1>1. forgot \in Nat /\ \A v \in Versions : installs[v] \in Nat
  BY OtaAssumption DEF OtaTypeOK
<1> QED
  BY <1>1 DEF InstalledOnce

\* A version that is recorded is not installed again, as long as the record is kept.
LEMMA NextRecords ==
    OtaTypeOK /\ SlotsInOrder /\ InstalledOnce /\ RecordsKept /\ [Next]_vars
      => InstalledOnce' /\ RecordsKept'
<1> SUFFICES ASSUME OtaTypeOK, SlotsInOrder, InstalledOnce, RecordsKept, [Next]_vars
             PROVE  InstalledOnce' /\ RecordsKept'
  OBVIOUS
<1>0. /\ forgot \in Nat /\ faults \in Nat /\ None \notin Nat
      /\ stored # None => stored \in Nat
      /\ loaded # None => loaded \in Nat
      /\ \A v \in Versions : v \in Nat /\ installs[v] \in Nat
  BY OtaAssumption, VersionsNat DEF OtaTypeOK
<1>1. CASE Schedules
  <2>1. InstalledOnce'
    BY <1>1 DEF Schedules, history, InstalledOnce
  <2>2. RecordsKept'
    BY <1>1 DEF Schedules, history, task, flash, RecordsKept, Recorded
  <2> QED
    BY <2>1, <2>2
<1>2. CASE StartFails
  <2>1. InstalledOnce'
    BY <1>2 DEF StartFails, history, InstalledOnce, Restarts
  <2>2. RecordsKept'
    BY <1>2 DEF StartFails, history, task, flash, RecordsKept, Recorded, Restarts
  <2> QED
    BY <2>1, <2>2
<1>3. CASE ImageCrashes
  <2>1. InstalledOnce'
    BY <1>3 DEF ImageCrashes, history, InstalledOnce, Restarts
  <2>2. RecordsKept'
    BY <1>3 DEF ImageCrashes, history, task, flash, RecordsKept, Recorded, Restarts
  <2> QED
    BY <2>1, <2>2
<1>4. CASE MarksValid
  <2>1. InstalledOnce'
    BY <1>4 DEF MarksValid, history, InstalledOnce
  <2>2. RecordsKept'
    BY <1>4 DEF MarksValid, history, task, flash, RecordsKept, Recorded
  <2> QED
    BY <2>1, <2>2
<1>5. CASE MarkFails
  <2>0. faults' = faults + 1 /\ forgot' = forgot
    BY <1>5 DEF MarkFails, Fault, history
  <2>1. forgot' <= faults'
    BY <1>0, <2>0 DEF RecordsKept
  <2>2. InstalledOnce'
    BY <1>5 DEF MarkFails, history, InstalledOnce
  <2>3. RecordsKept'
    BY <1>5, <2>1 DEF MarkFails, history, flash, RecordsKept, Recorded
  <2> QED
    BY <2>2, <2>3
<1>6. CASE LoadsVersion
  <2>1. InstalledOnce'
    BY <1>6 DEF LoadsVersion, history, InstalledOnce
  <2>2. RecordsKept'
    BY <1>6 DEF LoadsVersion, history, flash, RecordsKept, Recorded
  <2> QED
    BY <2>1, <2>2
<1>7. CASE LoadFails
  <2>0. /\ faults' = faults + 1 /\ forgot' = forgot + 1 /\ pc' = "check" /\ UNCHANGED <<cfg, installs>>
    BY <1>7 DEF LoadFails, Fault
  <2>1. forgot' <= faults'
    BY <1>0, <2>0 DEF RecordsKept
  <2> QED
    BY <2>0, <2>1, ForgetsRecords DEF RecordsKept
<1>8. CASE Checks
  <2>1. InstalledOnce'
    BY <1>8 DEF Checks, history, InstalledOnce
  <2>2. cfg.validate /\ loaded # None => served.version > loaded
    BY <1>8 DEF Checks, Accepts
  <2>3. /\ image' = served /\ pc = "check" /\ pc' = "transfer"
        /\ UNCHANGED <<cfg, loaded, stored, installs, forgot, faults>>
    BY <1>8 DEF Checks, flash, history
  <2>4. RecordsKept'
    BY <2>2, <2>3 DEF RecordsKept, Recorded
  <2> QED
    BY <2>1, <2>4
<1>9. CASE Rejects
  <2>1. InstalledOnce'
    BY <1>9 DEF Rejects, history, InstalledOnce
  <2>2. RecordsKept'
    BY <1>9 DEF Rejects, history, task, flash, RecordsKept, Recorded
  <2> QED
    BY <2>1, <2>2
<1>10. CASE CheckFails
  <2>1. InstalledOnce'
    BY <1>10 DEF CheckFails, history, InstalledOnce, Retries
  <2>2. RecordsKept'
    BY <1>10 DEF CheckFails, history, task, flash, RecordsKept, Recorded, Retries
  <2> QED
    BY <2>1, <2>2
<1>11. CASE Transfers
  <2>1. InstalledOnce'
    BY <1>11 DEF Transfers, history, InstalledOnce
  <2>2. RecordsKept'
    BY <1>11 DEF Transfers, history, task, flash, RecordsKept, Recorded
  <2> QED
    BY <2>1, <2>2
<1>12. CASE TransferFails
  <2>1. InstalledOnce'
    BY <1>12 DEF TransferFails, history, InstalledOnce, Retries
  <2>2. RecordsKept'
    BY <1>12 DEF TransferFails, history, task, flash, RecordsKept, Recorded, Retries
  <2> QED
    BY <2>1, <2>2
<1>13. CASE Finishes
  <2> DEFINE new == image.version
  <2>0. /\ pc = "finish" /\ pc' = "store" /\ UNCHANGED <<cfg, image, loaded, stored, forgot, faults>>
        /\ image \in Images
    BY <1>13 DEF Finishes, SlotsInOrder
  <2>1. new \in Versions /\ new \in Nat /\ installs[new] \in Nat
    BY <1>0, <2>0, VersionsNat
  <2>2. /\ installs'[new] \in Nat /\ installs'[new] <= installs[new] + 1
        /\ \A v \in Versions \ {new} : installs'[v] = installs[v]
    <3>1. /\ installs'[new] = Min({installs[new] + 1, MaxFaults + 2})
          /\ \A v \in Versions \ {new} : installs'[v] = installs[v]
      BY <1>13, <2>1 DEF Finishes, OtaTypeOK
    <3> QED
      BY <2>1, <3>1, CountedInstalls
  <2> HIDE DEF new
  <2>3. ASSUME cfg.validate, NEW v \in Versions, installs[v] > forgot
        PROVE  v < new
    <3>1. loaded # None /\ v <= loaded /\ new > loaded
      BY <2>0, <2>3 DEF RecordsKept, Recorded, new
    <3> QED
      BY <1>0, <2>1, <3>1
  <2>4. ASSUME cfg.validate PROVE installs[new] <= forgot
    <3>1. CASE installs[new] > forgot
      <4>1. new < new
        BY <2>1, <2>3, <2>4, <3>1
      <4> QED
        BY <2>1, <4>1
    <3> QED
      BY <1>0, <2>1, <3>1
  <2>5. InstalledOnce'
    <3>1. ASSUME cfg.validate, NEW v \in Versions PROVE installs'[v] <= 1 + forgot
      <4>1. CASE v = new
        BY <1>0, <2>1, <2>2, <2>4, <3>1, <4>1
      <4>2. CASE v # new
        BY <2>2, <3>1, <4>2 DEF InstalledOnce
      <4> QED
        BY <4>1, <4>2
    <3> QED
      BY <2>0, <3>1 DEF InstalledOnce
  <2>6. ASSUME cfg.validate, NEW v \in Versions, installs'[v] > forgot PROVE v <= new
    <3>1. CASE v = new
      BY <2>1, <3>1
    <3>2. CASE v # new
      <4>1. v < new
        BY <2>2, <2>3, <2>6, <3>2
      <4> QED
        BY <1>0, <2>1, <4>1
    <3> QED
      BY <3>1, <3>2
  <2>7. RecordsKept'
    <3>1. \A v \in Versions : cfg'.validate /\ installs'[v] > forgot' => Recorded(v)'
      BY <2>0, <2>6 DEF Recorded, new
    <3>2. cfg.validate /\ loaded # None => image.version > loaded
      BY <2>0 DEF RecordsKept
    <3>3. forgot <= faults
      BY DEF RecordsKept
    <3> QED
      BY <2>0, <3>1, <3>2, <3>3 DEF RecordsKept
  <2> QED
    BY <2>5, <2>7
<1>14. CASE FinishFails
  <2>1. InstalledOnce'
    BY <1>14 DEF FinishFails, history, InstalledOnce
  <2>2. RecordsKept'
    BY <1>14 DEF FinishFails, history, task, flash, RecordsKept, Recorded
  <2> QED
    BY <2>1, <2>2
<1>15. CASE StoresVersion
  <2>0. /\ pc = "store" /\ pc' \in {"restart", "done"} /\ stored' = image.version
        /\ UNCHANGED <<cfg, installs, forgot, faults>>
    BY <1>15 DEF StoresVersion, history
  <2>1. image.version \in Nat
    BY <2>0, VersionsNat DEF SlotsInOrder
  <2>2. InstalledOnce'
    BY <2>0 DEF InstalledOnce
  <2>3. RecordsKept'
    BY <1>0, <2>0, <2>1 DEF RecordsKept, Recorded
  <2> QED
    BY <2>2, <2>3
<1>16. CASE StoreFails
  <2>0. /\ faults' = faults + 1 /\ forgot' = forgot + 1 /\ pc' \in {"restart", "done"}
        /\ UNCHANGED <<cfg, installs>>
    BY <1>16 DEF StoreFails, Fault
  <2>1. forgot' <= faults'
    BY <1>0, <2>0 DEF RecordsKept
  <2> QED
    BY <2>0, <2>1, ForgetsRecords DEF RecordsKept
<1>17. CASE RestartsIntoNew
  <2>1. InstalledOnce'
    BY <1>17 DEF RestartsIntoNew, history, InstalledOnce, Restarts
  <2>2. RecordsKept'
    BY <1>17 DEF RestartsIntoNew, history, task, flash, RecordsKept, Recorded, Restarts
  <2> QED
    BY <2>1, <2>2
<1>18. CASE LosesPower
  <2>0. /\ faults' = faults + 1 /\ pc' = "app" /\ UNCHANGED <<cfg, stored, installs>>
        /\ forgot' = IF pc = "store" THEN forgot + 1 ELSE forgot
    BY <1>18 DEF LosesPower, Fault, Restarts
  <2>1. forgot' <= faults'
    BY <1>0, <2>0 DEF RecordsKept
  <2>2. CASE pc = "store"
    BY <2>0, <2>1, <2>2, ForgetsRecords DEF RecordsKept
  <2>3. CASE pc # "store"
    BY <2>0, <2>1, <2>3 DEF InstalledOnce, RecordsKept, Recorded
  <2> QED
    BY <2>2, <2>3
<1>19. ASSUME NEW new \in Images, ServerChanges(new)
      PROVE  InstalledOnce' /\ RecordsKept'
  <2>0. faults' = faults + 1 /\ forgot' = forgot
    BY <1>19 DEF ServerChanges, Fault, history
  <2>1. forgot' <= faults'
    BY <1>0, <2>0 DEF RecordsKept
  <2>2. InstalledOnce'
    BY <1>19 DEF ServerChanges, history, InstalledOnce
  <2>3. RecordsKept'
    BY <1>19, <2>1 DEF ServerChanges, history, task, flash, RecordsKept, Recorded
  <2> QED
    BY <2>2, <2>3
<1>20. CASE UNCHANGED vars
  <2>1. InstalledOnce'
    BY <1>20 DEF vars, history, InstalledOnce
  <2>2. RecordsKept'
    BY <1>20 DEF vars, history, task, flash, RecordsKept, Recorded
  <2> QED
    BY <2>1, <2>2
<1> QED
  BY <1>1, <1>2, <1>3, <1>4, <1>5, <1>6, <1>7, <1>8, <1>9, <1>10,
     <1>11, <1>12, <1>13, <1>14, <1>15, <1>16, <1>17, <1>18, <1>19, <1>20
     DEF Next, Step, Attempt

-----------------------------------------------------------------------------
\* OtaInv is an invariant of the task, the slots, the bootloader and the NVS.
THEOREM OtaInvariant == Spec => []OtaInv
<1>1. Init => OtaInv
  BY InitTyped, InitBackoff, InitSlots, InitRecords DEF OtaInv
<1>2. OtaInv /\ [Next]_vars => OtaInv'
  <2> SUFFICES ASSUME OtaInv, [Next]_vars PROVE OtaInv'
    OBVIOUS
  <2>1. OtaTypeOK'
    BY NextTyped DEF OtaInv, RecordsKept
  <2> QED
    BY <2>1, NextBackoffAsDocumented, NextSlots, NextRecords DEF OtaInv
<1> QED
  BY <1>1, <1>2, PTL DEF Spec

\* The variables of ota_task and of the flash keep their types.
THEOREM OtaTyped == Spec => []OtaTypeOK
<1>1. OtaInv => OtaTypeOK
  BY DEF OtaInv
<1> QED
  BY <1>1, OtaInvariant, PTL

\* Whatever max_retries and the back-offs are, the delay before attempt n of ota_task is the first one
\* doubled n - 1 times up to max_backoff_ms, and there are never more than max_retries attempts.
THEOREM OtaBackoff == Spec => []BackoffAsDocumented
<1>1. OtaInv => BackoffAsDocumented
  BY DEF OtaInv
<1> QED
  BY <1>1, OtaInvariant, PTL

\* No loss of power, failed download or failed mark leaves a node that cannot fall back on an image
\* that ota_task has marked valid, whatever images the server offers.
THEOREM OtaSafeToBoot == Spec => []SafeToBoot
<1>1. OtaInv => SafeToBoot
  BY DEF OtaInv
<1> QED
  BY <1>1, OtaInvariant, PTL

\* With the callback that the documentation asks for, ota_perform_update installs a version once and
\* once more per lost record of it, for any set of versions.
THEOREM OtaInstalledOnce == Spec => []InstalledOnce
<1>1. OtaInv => InstalledOnce
  BY DEF OtaInv
<1> QED
  BY <1>1, OtaInvariant, PTL
=============================================================================
