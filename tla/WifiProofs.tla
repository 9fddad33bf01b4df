------------------------------ MODULE WifiProofs -----------------------------
(***************************************************************************)
(* What Wifi promises of the link, for every back-off, every cap that is a *)
(* doubling of it, every limit of attempts and any number of outages,      *)
(* restarts and lost credentials.                                          *)
(*                                                                         *)
(* LinkLookedAfter and StatusFollowsLink speak of the moments when no      *)
(* event is pending, and are not inductive: an event that is handled last  *)
(* must be known to say what the link is.  WifiInv says it of any queue.   *)
(***************************************************************************)
EXTENDS Wifi, DoublingProofs, SequenceTheorems

-----------------------------------------------------------------------------
(***************************************************************************)
(* What the queue of events tells, as events are posted and handled.       *)
(***************************************************************************)

\* An event that does not report the link changes nothing.
LEMMA TellsAfterOther ==
    ASSUME NEW evs \in Seq(Events), NEW status \in BOOLEAN, NEW link, NEW next,
           NEW e \in Events \ Reports, Tells(evs, status, link), (next = "up") <=> (link = "up")
    PROVE  Tells(Append(evs, e), status, next)
<1> DEFINE s == Append(evs, e)
<1>1. /\ DOMAIN s = 1 .. Len(evs) + 1 /\ DOMAIN evs = 1 .. Len(evs) /\ Len(evs) \in Nat
      /\ \A i \in 1 .. Len(evs) : s[i] = evs[i]
      /\ s[Len(evs) + 1] = e
  OBVIOUS
<1> HIDE DEF s
<1>2. (\A i \in DOMAIN s : s[i] \notin Reports) => (status <=> next = "up")
  BY <1>1 DEF Tells
<1>3. ASSUME NEW i \in DOMAIN s, s[i] \in Reports, \A j \in DOMAIN s : j > i => s[j] \notin Reports
      PROVE  s[i] = "GOT_IP" <=> next = "up"
  BY <1>1, <1>3 DEF Tells
<1>4. Tells(s, status, next)
  BY <1>2, <1>3 DEF Tells
<1> QED
  BY <1>4 DEF s

\* A report is the last word on the link.
LEMMA TellsAfterReport ==
    ASSUME NEW evs \in Seq(Events), NEW status \in BOOLEAN, NEW link, NEW e \in Reports,
           (e = "GOT_IP") <=> (link = "up")
    PROVE  Tells(Append(evs, e), status, link)
<1> DEFINE s == Append(evs, e)
<1>1. /\ DOMAIN s = 1 .. Len(evs) + 1 /\ Len(evs) \in Nat
      /\ s[Len(evs) + 1] = e
  OBVIOUS
<1> HIDE DEF s
<1>2. ~(\A i \in DOMAIN s : s[i] \notin Reports)
  BY <1>1
<1>3. ASSUME NEW i \in DOMAIN s, s[i] \in Reports, \A j \in DOMAIN s : j > i => s[j] \notin Reports
      PROVE  s[i] = "GOT_IP" <=> link = "up"
  BY <1>1, <1>3
<1>4. Tells(s, status, link)
  BY <1>2, <1>3 DEF Tells
<1> QED
  BY <1>4 DEF s

\* What a handler makes of the status.
Handled(e, status) == IF e \in Reports THEN e = "GOT_IP" ELSE status

\* The handler of the first event makes of the status what the event said of the link.
LEMMA TellsAfterHead ==
    ASSUME NEW evs \in Seq(Events), evs # <<>>, NEW status \in BOOLEAN, NEW after \in BOOLEAN, NEW link,
           after <=> Handled(Head(evs), status), Tells(evs, status, link)
    PROVE  Tells(Tail(evs), after, link)
<1> DEFINE s == Tail(evs)
<1>1. /\ Len(evs) \in Nat \ {0} /\ DOMAIN evs = 1 .. Len(evs) /\ DOMAIN s = 1 .. Len(evs) - 1
      /\ \A i \in 1 .. Len(evs) - 1 : s[i] = evs[i + 1]
      /\ Head(evs) = evs[1]
  OBVIOUS
<1> HIDE DEF s
<1>2. ASSUME \A i \in DOMAIN s : s[i] \notin Reports
      PROVE  after <=> link = "up"
  <2>1. \A i \in DOMAIN evs : i > 1 => evs[i] \notin Reports
    <3>1. \A i \in DOMAIN evs : i > 1 => i - 1 \in DOMAIN s /\ evs[i] = s[i - 1]
      BY <1>1
    <3> QED
      BY <1>2, <3>1
  <2>2. CASE evs[1] \in Reports
    BY <1>1, <2>1, <2>2 DEF Tells, Handled
  <2>3. CASE evs[1] \notin Reports
    BY <1>1, <2>1, <2>3 DEF Tells, Handled
  <2> QED
    BY <2>2, <2>3
<1>3. ASSUME NEW i \in DOMAIN s, s[i] \in Reports, \A j \in DOMAIN s : j > i => s[j] \notin Reports
      PROVE  s[i] = "GOT_IP" <=> link = "up"
  <2>1. i + 1 \in DOMAIN evs /\ evs[i + 1] = s[i]
    BY <1>1
  <2>2. ASSUME NEW j \in DOMAIN evs, j > i + 1 PROVE evs[j] \notin Reports
    <3>1. j - 1 \in DOMAIN s /\ j - 1 > i /\ evs[j] = s[j - 1]
      BY <1>1, <2>2
    <3> QED
      BY <1>3, <3>1
  <2> QED
    BY <1>3, <2>1, <2>2 DEF Tells
<1>4. Tells(s, after, link)
  BY <1>2, <1>3 DEF Tells
<1> QED
  BY <1>4 DEF s

\* Two stations that are both up, or both not, are told the same.
LEMMA TellsSame ==
    ASSUME NEW evs, NEW status, NEW link, NEW next, Tells(evs, status, link),
           (next = "up") <=> (link = "up")
    PROVE  Tells(evs, status, next)
  BY DEF Tells

\* An event that waits behind the first is there when that one was handled.
LEMMA PendingAfterHead ==
    ASSUME NEW evs \in Seq(Events), evs # <<>>, NEW kinds, Head(evs) \notin kinds,
           \E i \in DOMAIN evs : evs[i] \in kinds
    PROVE  \E i \in DOMAIN Tail(evs) : Tail(evs)[i] \in kinds
<1>1. PICK i \in DOMAIN evs : evs[i] \in kinds
  OBVIOUS
<1>2. i # 1 /\ i \in 1 .. Len(evs)
  BY <1>1
<1>3. i - 1 \in DOMAIN Tail(evs) /\ Tail(evs)[i - 1] = evs[i]
  BY <1>2
<1> QED
  BY <1>1, <1>3

-----------------------------------------------------------------------------
(***************************************************************************)
(* The back-off.                                                           *)
(***************************************************************************)

\* The first back-off is not past the cap, and doubling one below the cap leaves none past it.
LEMMA BackoffStays ==
    /\ InitialBackoff \in Backoffs
    /\ \A b \in Backoffs : (IF b < BackoffCap THEN 2 * b ELSE b) \in Backoffs
<1> USE WifiAssumption
<1>1. PICK c \in Nat : BackoffCap = InitialBackoff * Pow2[c]
  OBVIOUS
<1>2. InitialBackoff \in Backoffs
  <2>1. Pow2[0] = 1 /\ Pow2[c] \in Nat \ {0}
    BY Pow2Def
  <2>2. InitialBackoff = InitialBackoff * Pow2[0]
    BY <2>1
  <2>3. InitialBackoff <= InitialBackoff * Pow2[c]
    BY <2>1
  <2> QED
    BY <1>1, <2>2, <2>3 DEF Backoffs
<1>3. ASSUME NEW b \in Backoffs, b < BackoffCap
      PROVE  2 * b \in Backoffs
  <2>1. PICK k \in Nat : b = InitialBackoff * Pow2[k]
    BY <1>3 DEF Backoffs
  <2>2. /\ InitialBackoff * Pow2[k + 1] = 2 * b
        /\ InitialBackoff * Pow2[k + 1] <= BackoffCap
    BY <1>1, <1>3, <2>1, DoublesBelowCap
  <2>3. InitialBackoff * Pow2[k + 1] \in Nat /\ k + 1 < InitialBackoff * Pow2[k + 1]
    BY DoublingExceeds
  <2>4. k + 1 \in 0 .. BackoffCap
    BY <2>2, <2>3
  <2> QED
    BY <2>2, <2>4 DEF Backoffs
<1> QED
  BY <1>2, <1>3

-----------------------------------------------------------------------------
(***************************************************************************)
(* Every step keeps the invariant.                                         *)
(***************************************************************************)

\* What Init and a restart leave satisfies it.
LEMMA InitWifiInv == Init => WifiInv
<1> SUFFICES ASSUME Init PROVE WifiInv
  OBVIOUS
<1> USE DEF Init
<1>1. WifiTypeOK
  <2>1. attempts \in 0 .. (MaxAttempts - 1) /\ changes \in 0 .. MaxChanges
    BY WifiAssumption
  <2>2. backoff \in Backoffs
    BY BackoffStays
  <2>3. events \in Seq(Events)
    OBVIOUS
  <2>4. /\ node \in {"hmi", "sensor"}
    /\ pc \in {"idle", "provision", "start", "clear", "wait", "ready"}
    /\ bits \subseteq Bits /\ s_connected \in BOOLEAN /\ timer \in BOOLEAN
    /\ inited \in BOOLEAN /\ started \in BOOLEAN /\ provisioned \in BOOLEAN
    /\ net \in {"off", "noip", "on"}
    /\ sta \in {"down", "connecting", "joined", "up"}
    OBVIOUS
  <2> QED
    BY <2>1, <2>2, <2>3, <2>4 DEF WifiTypeOK
<1>2. Tells(events, s_connected, sta)
  BY DEF Tells
<1>3. WillBeLookedAfter
  BY DEF WillBeLookedAfter
<1> QED
  BY <1>1, <1>2, <1>3 DEF WifiInv

\* The bounds.
LEMMA Bounds == MaxAttempts \in Nat \ {0} /\ MaxChanges \in Nat
  BY WifiAssumption

\* A restart keeps it, whatever it leaves in flash.
LEMMA BootedWifiInv ==
    ASSUME WifiInv, Booted, provisioned' \in BOOLEAN, net' \in {"off", "noip", "on"},
           changes' \in 0 .. MaxChanges
    PROVE  WifiInv'
<1> USE DEF Booted
<1>1. WifiTypeOK'
  <2>1. backoff' \in Backoffs
    BY BackoffStays
  <2>2. events' \in Seq(Events) /\ attempts' \in 0 .. (MaxAttempts - 1)
    BY Bounds
  <2> QED
    BY <2>1, <2>2 DEF WifiInv, WifiTypeOK, Bits
<1>2. Tells(events, s_connected, sta)'
  BY DEF Tells
<1>3. WillBeLookedAfter'
  BY DEF WillBeLookedAfter
<1> QED
  BY <1>1, <1>2, <1>3 DEF WifiInv

\* What a failed call may have done to the station.
Harmless ==
    /\ sta' \in {"down", "connecting", "joined", "up"} /\ events' \in Seq(Events)
    /\ Tells(events', s_connected, sta')
    /\ started /\ provisioned /\ sta' = "down"
         => timer \/ \E i \in DOMAIN events' : events'[i] \in {"STA_START", "STA_DISCONNECTED"}

\* A call that fails keeps the invariant if what it did to the station was harmless.
LEMMA FailsWifiInv ==
    ASSUME WifiInv, UNCHANGED world, NEW left \in SUBSET Bits,
           NEW ACTION Station, Fails(left, Station), Station => Harmless
    PROVE  WifiInv'
<1> USE DEF Harmless
<1>1. CASE node = "sensor" /\ Booted
  BY <1>1, BootedWifiInv DEF WifiInv, WifiTypeOK, world
<1>2. CASE node = "hmi" /\ ~(node = "sensor" /\ Booted)
  <2>1. /\ pc' = "idle" /\ bits' = left /\ Station
        /\ UNCHANGED <<node, attempts, s_connected, timer, backoff, inited, started>>
    BY <1>2 DEF Fails
  <2>2. WifiTypeOK'
    BY <2>1 DEF WifiInv, WifiTypeOK, world
  <2>3. Tells(events, s_connected, sta)'
    BY <2>1 DEF Tells
  <2>4. WillBeLookedAfter'
    BY <2>1 DEF WillBeLookedAfter, world
  <2> QED
    BY <2>2, <2>3, <2>4 DEF WifiInv
<1> QED
  BY <1>1, <1>2 DEF Fails

\* Leaving it alone is.
LEMMA FailsKeepingWifiInv ==
    ASSUME WifiInv, UNCHANGED world, NEW left \in SUBSET Bits, Fails(left, UNCHANGED <<sta, events>>)
    PROVE  WifiInv'
<1>1. UNCHANGED <<sta, events>> => Harmless
  BY DEF Harmless, WifiInv, WifiTypeOK, WillBeLookedAfter, Tells
<1> QED
  BY <1>1, FailsWifiInv

\* So is the disconnect and connect of a wait that timed out.
LEMMA TimedOutKeeps ==
    ASSUME WifiInv, TimedOut
    PROVE  Harmless
<1> USE DEF WifiInv
<1>1. sta' \in {"down", "connecting"} /\ (provisioned => sta' = "connecting")
  BY DEF TimedOut, AfterConnect
<1>2. events' \in Seq(Events) /\ Tells(events', s_connected, sta')
  <2>1. CASE sta = "down"
    BY <1>1, <2>1, TellsSame DEF TimedOut, AfterDisconnect, WifiTypeOK
  <2>2. CASE sta # "down"
    <3>1. events' = Append(events, "STA_DISCONNECTED")
      BY <2>2 DEF TimedOut, AfterDisconnect
    <3>2. ("STA_DISCONNECTED" = "GOT_IP") <=> (sta' = "up")
      BY <1>1
    <3> QED
      BY <3>1, <3>2, TellsAfterReport DEF WifiTypeOK, Events, Reports
  <2> QED
    BY <2>1, <2>2
<1> QED
  BY <1>1, <1>2 DEF Harmless

\* Every step keeps the invariant.
LEMMA NextWifiInv == WifiInv /\ [Next]_vars => WifiInv'
<1> SUFFICES ASSUME WifiInv, [Next]_vars PROVE WifiInv'
  OBVIOUS
<1> USE DEF WifiInv
<1>1. CASE StaJoins
  <2>1. WifiTypeOK'
    BY <1>1, Bounds DEF StaJoins, task, manager, world, WifiTypeOK, Bits, Events
  <2>2. Tells(events, s_connected, sta)'
    BY <1>1, TellsSame DEF StaJoins, manager
  <2>3. WillBeLookedAfter'
    BY <1>1 DEF StaJoins, manager, world, WillBeLookedAfter
  <2> QED
    BY <2>1, <2>2, <2>3 DEF WifiInv
<1>2. CASE StaGetsAddress
  <2>1. WifiTypeOK'
    <3>1. events' \in Seq(Events)
      <4>1. /\ events \in Seq(Events) /\ <<"GOT_IP">> \in Seq(Events)
            /\ <<"GOT_IP", "CRED_SUCCESS">> \in Seq(Events)
        BY DEF WifiTypeOK, Events
      <4> QED
        BY <1>2, <4>1 DEF StaGetsAddress
    <3> QED
      BY <1>2, <3>1 DEF StaGetsAddress, task, manager, world, WifiTypeOK
  <2>2. Tells(events, s_connected, sta)'
    <3> DEFINE one == Append(events, "GOT_IP")
               two == Append(one, "CRED_SUCCESS")
    <3>1. s_connected' = s_connected /\ sta' = "up" /\ (events' = one \/ events' = two)
      BY <1>2 DEF StaGetsAddress, manager, WifiTypeOK
    <3>2. one \in Seq(Events) /\ Tells(one, s_connected, "up")
      BY TellsAfterReport DEF WifiTypeOK, Events, Reports
    <3> HIDE DEF one
    <3>3. Tells(two, s_connected, "up")
      BY <3>2, TellsAfterOther DEF WifiTypeOK, Events, Reports
    <3> HIDE DEF two
    <3> QED
      BY <3>1, <3>2, <3>3 DEF Tells
  <2>3. WillBeLookedAfter'
    BY <1>2 DEF StaGetsAddress, WillBeLookedAfter
  <2> QED
    BY <2>1, <2>2, <2>3 DEF WifiInv
<1>3. CASE StaFails
  <2>1. WifiTypeOK'
    BY <1>3 DEF StaFails, task, manager, world, WifiTypeOK, Events
  <2>2. Tells(events, s_connected, sta)'
    <3>1. s_connected' = s_connected /\ sta' = "down" /\ events' = Append(events, "STA_DISCONNECTED")
      BY <1>3 DEF StaFails, manager
    <3>2. Tells(Append(events, "STA_DISCONNECTED"), s_connected, "down")
      BY TellsAfterReport DEF WifiTypeOK, Events, Reports
    <3> QED
      BY <3>1, <3>2 DEF Tells
  <2>3. WillBeLookedAfter'
    <3>1. events' = Append(events, "STA_DISCONNECTED") /\ events \in Seq(Events)
      BY <1>3 DEF StaFails, WifiTypeOK
    <3>2. Len(events) + 1 \in DOMAIN events' /\ events'[Len(events) + 1] = "STA_DISCONNECTED"
      BY <3>1
    <3> QED
      BY <3>2 DEF WillBeLookedAfter
  <2> QED
    BY <2>1, <2>2, <2>3 DEF WifiInv
<1>4. CASE HandlesEvent
  <2>0. /\ events # <<>> /\ events' = Tail(events) /\ events \in Seq(Events) /\ events' \in Seq(Events)
        /\ UNCHANGED <<node, pc, attempts, inited, started, provisioned, net, changes>>
    BY <1>4 DEF HandlesEvent, WifiTypeOK, task, world
  <2>1. CASE Head(events) = "STA_START" /\ StaStart
    <3>1. WifiTypeOK'
      BY <2>0, <2>1 DEF StaStart, AfterConnect, manager, WifiTypeOK
    <3>2. Tells(events, s_connected, sta)'
      <4>1. Tells(Tail(events), s_connected, sta)
        BY <2>0, <2>1, TellsAfterHead DEF Handled, Reports, WifiTypeOK
      <4>2. s_connected' = s_connected /\ (sta' = "up" <=> sta = "up")
        BY <2>1 DEF StaStart, AfterConnect, manager
      <4> QED
        BY <2>0, <4>1, <4>2 DEF Tells
    <3>3. WillBeLookedAfter'
      BY <2>0, <2>1 DEF StaStart, AfterConnect, WillBeLookedAfter
    <3> QED
      BY <3>1, <3>2, <3>3
  <2>2. CASE Head(events) = "STA_DISCONNECTED" /\ Disconnected
    <3>1. WifiTypeOK'
      <4>1. backoff' \in Backoffs
        BY <2>2, BackoffStays DEF Disconnected, WifiTypeOK
      <4> QED
        BY <2>0, <2>2, <4>1 DEF Disconnected, WifiTypeOK, Bits
    <3>2. Tells(events, s_connected, sta)'
      <4>1. Tells(Tail(events), FALSE, sta)
        BY <2>0, <2>2, TellsAfterHead DEF Handled, Reports, WifiTypeOK
      <4> QED
        BY <2>0, <2>2, <4>1 DEF Disconnected, Tells
    <3>3. WillBeLookedAfter'
      BY <2>2 DEF Disconnected, WillBeLookedAfter
    <3> QED
      BY <3>1, <3>2, <3>3
  <2>3. CASE Head(events) = "GOT_IP" /\ GotIp
    <3>1. WifiTypeOK'
      <4>1. backoff' \in Backoffs
        BY <2>3, BackoffStays DEF GotIp
      <4> QED
        BY <2>0, <2>3, <4>1 DEF GotIp, WifiTypeOK, Bits
    <3>2. Tells(events, s_connected, sta)'
      <4>1. Tells(Tail(events), TRUE, sta)
        BY <2>0, <2>3, TellsAfterHead DEF Handled, Reports, WifiTypeOK
      <4> QED
        BY <2>0, <2>3, <4>1 DEF GotIp, Tells
    <3>3. WillBeLookedAfter'
      BY <2>0, <2>3, PendingAfterHead DEF GotIp, WillBeLookedAfter
    <3> QED
      BY <3>1, <3>2, <3>3
  <2>4. CASE Head(events) = "CRED_SUCCESS" /\ CredSuccess
    <3>1. WifiTypeOK'
      BY <2>0, <2>4 DEF CredSuccess, WifiTypeOK, Bits
    <3>2. Tells(events, s_connected, sta)'
      <4>1. Tells(Tail(events), s_connected, sta)
        BY <2>0, <2>4, TellsAfterHead DEF Handled, Reports, WifiTypeOK
      <4> QED
        BY <2>0, <2>4, <4>1 DEF CredSuccess, Tells
    <3>3. WillBeLookedAfter'
      BY <2>0, <2>4, PendingAfterHead DEF CredSuccess, WillBeLookedAfter
    <3> QED
      BY <3>1, <3>2, <3>3
  <2> QED
    BY <1>4, <2>1, <2>2, <2>3, <2>4 DEF HandlesEvent
<1>5. CASE ReconnectTimer
  <2>1. WifiTypeOK'
    BY <1>5 DEF ReconnectTimer, AfterConnect, task, world, WifiTypeOK
  <2>2. Tells(events, s_connected, sta)'
    <3>1. sta' = "up" <=> sta = "up"
      BY <1>5 DEF ReconnectTimer, AfterConnect
    <3> QED
      BY <1>5, <3>1 DEF ReconnectTimer, Tells
  <2>3. WillBeLookedAfter'
    BY <1>5 DEF ReconnectTimer, AfterConnect, world, WillBeLookedAfter
  <2> QED
    BY <2>1, <2>2, <2>3 DEF WifiInv
<1>6. CASE StartManager
  <2>0. /\ provisioned' \in BOOLEAN /\ changes' \in 0 .. MaxChanges
        /\ provisioned' => provisioned
    <3>1. CASE UNCHANGED <<provisioned, changes>>
      BY <3>1 DEF WifiTypeOK
    <3>2. CASE provisioned' = FALSE /\ changes < MaxChanges /\ changes' = changes + 1
      <4>1. changes' \in 0 .. MaxChanges
        BY <3>2, Bounds DEF WifiTypeOK
      <4> QED
        BY <3>2, <4>1
    <3> QED
      BY <1>6, <3>1, <3>2 DEF StartManager, InitNvs
  <2>1. CASE provisioned'
    <3>1. WifiTypeOK'
      BY <1>6, <2>0, <2>1 DEF StartManager, WifiTypeOK, Bits
    <3>2. Tells(events, s_connected, sta)'
      BY <1>6, <2>1 DEF StartManager, Tells
    <3>3. WillBeLookedAfter'
      BY <1>6, <2>0, <2>1 DEF StartManager, WillBeLookedAfter
    <3> QED
      BY <3>1, <3>2, <3>3
  <2>2. CASE ~provisioned'
    <3>1. WifiTypeOK'
      BY <1>6, <2>0, <2>2 DEF StartManager, WifiTypeOK, Bits, Events
    <3>2. Tells(events, s_connected, sta)'
      <4>1. Tells(Append(events, "STA_START"), s_connected, sta)
        BY TellsAfterOther DEF WifiTypeOK, Events, Reports
      <4> QED
        BY <1>6, <2>2, <4>1 DEF StartManager, Tells
    <3>3. WillBeLookedAfter'
      BY <2>2 DEF WillBeLookedAfter
    <3> QED
      BY <3>1, <3>2, <3>3
  <2> QED
    BY <2>1, <2>2
<1>7. CASE StartAgain
  <2>1. WifiTypeOK'
    BY <1>7, Bounds DEF StartAgain, vars, task, manager, driver, world, WifiTypeOK, Bits
  <2>2. Tells(events, s_connected, sta)'
    BY <1>7 DEF StartAgain, vars, task, manager, driver, world, Tells
  <2>3. WillBeLookedAfter'
    BY <1>7 DEF StartAgain, vars, task, manager, driver, world, WillBeLookedAfter
  <2> QED
    BY <2>1, <2>2, <2>3 DEF WifiInv
<1>8. CASE ProvisioningDone
  <2>1. WifiTypeOK'
    BY <1>8, Bounds DEF ProvisioningDone, vars, task, manager, driver, world, WifiTypeOK, Bits
  <2>2. Tells(events, s_connected, sta)'
    BY <1>8 DEF ProvisioningDone, vars, task, manager, driver, world, Tells
  <2>3. WillBeLookedAfter'
    BY <1>8 DEF ProvisioningDone, vars, task, manager, driver, world, WillBeLookedAfter
  <2> QED
    BY <2>1, <2>2, <2>3 DEF WifiInv
<1>9. CASE ProvisioningTimesOut
  <2>1. Fails(bits, UNCHANGED <<sta, events>>) /\ bits \in SUBSET Bits /\ UNCHANGED world
    BY <1>9 DEF ProvisioningTimesOut, WifiTypeOK
  <2> QED
    BY <2>1, FailsKeepingWifiInv
<1>10. CASE StartDriver
  <2>1. WifiTypeOK'
    BY <1>10 DEF StartDriver, manager, world, WifiTypeOK, Events
  <2>2. Tells(events, s_connected, sta)'
    <3>1. Tells(Append(events, "STA_START"), s_connected, sta)
      BY TellsAfterOther DEF WifiTypeOK, Events, Reports
    <3> QED
      BY <1>10, <3>1 DEF StartDriver, manager, Tells
  <2>3. WillBeLookedAfter'
    <3>1. CASE started
      BY <1>10, <3>1 DEF StartDriver, manager, world, WillBeLookedAfter
    <3>2. CASE ~started
      <4>1. events' = Append(events, "STA_START") /\ events \in Seq(Events)
        BY <1>10, <3>2 DEF StartDriver, WifiTypeOK
      <4>2. Len(events) + 1 \in DOMAIN events' /\ events'[Len(events) + 1] = "STA_START"
        BY <4>1
      <4> QED
        BY <4>2 DEF WillBeLookedAfter
    <3> QED
      BY <3>1, <3>2
  <2> QED
    BY <2>1, <2>2, <2>3 DEF WifiInv
<1>11. CASE ClearsBits
  <2>1. WifiTypeOK'
    BY <1>11, Bounds DEF ClearsBits, vars, task, manager, driver, world, WifiTypeOK, Bits
  <2>2. Tells(events, s_connected, sta)'
    BY <1>11 DEF ClearsBits, vars, task, manager, driver, world, Tells
  <2>3. WillBeLookedAfter'
    BY <1>11 DEF ClearsBits, vars, task, manager, driver, world, WillBeLookedAfter
  <2> QED
    BY <2>1, <2>2, <2>3 DEF WifiInv
<1>12. CASE WaitConnected
  <2>1. WifiTypeOK'
    BY <1>12, Bounds DEF WaitConnected, vars, task, manager, driver, world, WifiTypeOK, Bits
  <2>2. Tells(events, s_connected, sta)'
    BY <1>12 DEF WaitConnected, vars, task, manager, driver, world, Tells
  <2>3. WillBeLookedAfter'
    BY <1>12 DEF WaitConnected, vars, task, manager, driver, world, WillBeLookedAfter
  <2> QED
    BY <2>1, <2>2, <2>3 DEF WifiInv
<1>13. CASE WaitFailed
  <2>1. CASE attempts + 1 >= MaxAttempts
    <3>1. /\ Fails(bits \ {"FAIL"}, UNCHANGED <<sta, events>>) /\ UNCHANGED world
          /\ bits \ {"FAIL"} \in SUBSET Bits
      BY <1>13, <2>1 DEF WaitFailed, WifiTypeOK
    <3> QED
      BY <3>1, FailsKeepingWifiInv
  <2>2. CASE ~(attempts + 1 >= MaxAttempts)
    <3>1. WifiTypeOK'
      <4>1. attempts' \in 0 .. (MaxAttempts - 1)
        BY <1>13, <2>2, Bounds DEF WaitFailed, WifiTypeOK
      <4> QED
        BY <1>13, <2>2, <4>1 DEF WaitFailed, driver, world, WifiTypeOK
    <3>2. Tells(events, s_connected, sta)'
      BY <1>13, <2>2 DEF WaitFailed, driver, Tells
    <3>3. WillBeLookedAfter'
      BY <1>13, <2>2 DEF WaitFailed, driver, world, WillBeLookedAfter
    <3> QED
      BY <3>1, <3>2, <3>3
  <2> QED
    BY <2>1, <2>2
<1>14. CASE WaitTimesOut
  <2>1. CASE attempts + 1 >= MaxAttempts
    <3>1. Fails(bits, TimedOut) /\ UNCHANGED world /\ bits \in SUBSET Bits
      BY <1>14, <2>1 DEF WaitTimesOut, WifiTypeOK
    <3> QED
      BY <3>1, TimedOutKeeps, FailsWifiInv DEF Harmless
  <2>2. CASE ~(attempts + 1 >= MaxAttempts)
    <3>0. TimedOut /\ UNCHANGED <<node, pc, bits, s_connected, timer, backoff, inited, started, world>>
      BY <1>14, <2>2 DEF WaitTimesOut, manager
    <3>h. Harmless
      BY <3>0, TimedOutKeeps
    <3>1. WifiTypeOK'
      <4>1. attempts' \in 0 .. (MaxAttempts - 1)
        BY <1>14, <2>2, Bounds DEF WaitTimesOut, WifiTypeOK
      <4> QED
        BY <3>0, <3>h, <4>1 DEF Harmless, world, WifiTypeOK
    <3>2. Tells(events, s_connected, sta)'
      BY <3>0, <3>h DEF Harmless, Tells
    <3>3. WillBeLookedAfter'
      BY <3>0, <3>h DEF Harmless, world, WillBeLookedAfter
    <3> QED
      BY <3>1, <3>2, <3>3
  <2> QED
    BY <2>1, <2>2
<1>15. CASE UserProvisions
  <2>1. WifiTypeOK'
    BY <1>15 DEF UserProvisions, task, manager, WifiTypeOK
  <2>2. Tells(events, s_connected, sta)'
    <3>1. ~(sta = "up") /\ ~(sta' = "up")
      BY <1>15 DEF UserProvisions
    <3> QED
      BY <1>15, <3>1 DEF UserProvisions, manager, Tells
  <2>3. WillBeLookedAfter'
    BY <1>15 DEF UserProvisions, WillBeLookedAfter
  <2> QED
    BY <2>1, <2>2, <2>3 DEF WifiInv
<1>16. CASE Restart
  BY <1>16, Bounds, BootedWifiInv DEF Restart, WifiTypeOK
<1>17. ASSUME NEW state \in {"off", "noip", "on"}, NetChanges(state)
      PROVE  WifiInv'
  <2>1. WifiTypeOK'
    <3>1. changes' \in 0 .. MaxChanges
      BY <1>17, Bounds DEF NetChanges, WifiTypeOK
    <3> QED
      BY <1>17, <3>1 DEF NetChanges, task, manager, driver, WifiTypeOK
  <2>2. Tells(events, s_connected, sta)'
    BY <1>17 DEF NetChanges, manager, driver, Tells
  <2>3. WillBeLookedAfter'
    BY <1>17 DEF NetChanges, manager, driver, WillBeLookedAfter
  <2> QED
    BY <2>1, <2>2, <2>3
<1>18. CASE UNCHANGED vars
  <2>1. WifiTypeOK'
    BY <1>18, Bounds DEF vars, task, manager, driver, world, WifiTypeOK, Bits
  <2>2. Tells(events, s_connected, sta)'
    BY <1>18 DEF vars, task, manager, driver, world, Tells
  <2>3. WillBeLookedAfter'
    BY <1>18 DEF vars, task, manager, driver, world, WillBeLookedAfter
  <2> QED
    BY <2>1, <2>2, <2>3 DEF WifiInv
<1> QED
  BY <1>1, <1>2, <1>3, <1>4, <1>5, <1>6, <1>7, <1>8, <1>9, <1>10, <1>11, <1>12, <1>13, <1>14,
     <1>15, <1>16, <1>17, <1>18
     DEF Next, Radio, Start

-----------------------------------------------------------------------------
\* WifiInv is an invariant of the manager, the event task and the timer.
THEOREM WifiInvariant == Spec => []WifiInv
<1>1. Init => WifiInv
  BY InitWifiInv
<1>2. WifiInv /\ [Next]_vars => WifiInv'
  BY NextWifiInv
<1> QED
  BY <1>1, <1>2, PTL DEF Spec

\* s_backoff_ms of wifi_event_handler is a doubling of its first value and never past its cap, and
\* the attempts of wifi_manager_start stay below their limit.
THEOREM WifiTyped == Spec => []WifiTypeOK
<1>1. WifiInv => WifiTypeOK
  BY DEF WifiInv
<1> QED
  BY <1>1, WifiInvariant, PTL

\* No order of events, time-outs, timer, restarts and failed calls of wifi_manager_start leaves a
\* station with credentials down, no event pending and reconnect_timer_cb not to come.
THEOREM WifiLookedAfter == Spec => []LinkLookedAfter
<1>1. WifiInv => LinkLookedAfter
  BY DEF WifiInv, WillBeLookedAfter, LinkLookedAfter
<1> QED
  BY <1>1, WifiInvariant, PTL

\* wifi_manager_is_connected is right about the station whenever no event is pending.
THEOREM WifiStatus == Spec => []StatusFollowsLink
<1>1. WifiInv => StatusFollowsLink
  BY DEF WifiInv, Tells, StatusFollowsLink
<1> QED
  BY <1>1, WifiInvariant, PTL
=============================================================================
