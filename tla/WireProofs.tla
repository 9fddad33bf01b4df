----------------------------- MODULE WireProofs ------------------------------
(***************************************************************************)
(* What WsLink promises of the frames between the nodes and Proto of the   *)
(* messages in them, for every value of their constants.                   *)
(*                                                                         *)
(* SensorFramesAccepted and RejectOnlyAfterOverlap look at one end of one  *)
(* connection; that they hold depends on the other end, on the sender that *)
(* has a counter in its hand and on what the connection before left.       *)
(* LinkInv says how the counters of both ends, of the sender and of the    *)
(* frames in flight are ordered.                                           *)
(*                                                                         *)
(* NeverMisread looks at a message that was decoded.  What was sent is     *)
(* what Encoded makes of the message, and the decoders are followed over   *)
(* that: JSON by its members, a CBOR command round by round of the loop of *)
(* proto_decode_command.                                                   *)
(***************************************************************************)
EXTENDS WsLink, Proto, DoublingProofs, FiniteSetTheorems, SequenceTheorems

-----------------------------------------------------------------------------
(***************************************************************************)
(* Sequences of counters that ascend.                                      *)
(***************************************************************************)

\* Counters are numbers.
LEMMA CountersNat == Counters \subseteq Nat
  BY WsLinkAssumption DEF Counters

\* A counter below the bound can grow.
LEMMA CounterGrows ==
    ASSUME NEW n \in Counters, n < MaxCounter
    PROVE  n + 1 \in Counters
  BY WsLinkAssumption DEF Counters

\* So are those of the frames in flight.
LEMMA CountersOf ==
    ASSUME NEW s \in Seq(Counters)
    PROVE  \A i \in DOMAIN s : s[i] \in Counters /\ s[i] \in Nat
<1>1. \A i \in 1 .. Len(s) : s[i] \in Counters
  BY ElementOfSeq
<1>2. DOMAIN s = 1 .. Len(s)
  OBVIOUS
<1> QED
  BY <1>1, <1>2, CountersNat

\* An empty sequence ascends.
LEMMA AscendingEmpty ==
    ASSUME NEW low, NEW high
    PROVE  Ascending(<<>>, low, high)
  BY DEF Ascending

\* A newer counter may follow.
LEMMA AscendingAppend ==
    ASSUME NEW s \in Seq(Counters), NEW low \in Int, NEW high \in Int, NEW e \in Int,
           Ascending(s, low, high), low < e, high < e
    PROVE  Ascending(Append(s, e), low, e)
<1>1. /\ Len(s) \in Nat /\ DOMAIN s = 1 .. Len(s) /\ DOMAIN Append(s, e) = 1 .. Len(s) + 1
      /\ Append(s, e)[Len(s) + 1] = e
      /\ \A i \in 1 .. Len(s) : Append(s, e)[i] = s[i] /\ s[i] \in Int
  <2>1. /\ Len(s) \in Nat /\ DOMAIN s = 1 .. Len(s) /\ DOMAIN Append(s, e) = 1 .. Len(s) + 1
        /\ Append(s, e)[Len(s) + 1] = e
        /\ \A i \in 1 .. Len(s) : Append(s, e)[i] = s[i]
    OBVIOUS
  <2> QED
    BY <2>1, CountersOf
<1>2. \A i \in 1 .. Len(s) + 1 : low < Append(s, e)[i] /\ Append(s, e)[i] <= e
  <2>1. ASSUME NEW i \in 1 .. Len(s) PROVE low < Append(s, e)[i] /\ Append(s, e)[i] <= e
    BY <1>1 DEF Ascending
  <2> QED
    BY <1>1, <2>1
<1>3. ASSUME NEW i \in 1 .. Len(s) + 1, NEW j \in 1 .. Len(s) + 1, i < j
      PROVE  Append(s, e)[i] < Append(s, e)[j]
  <2>1. i \in 1 .. Len(s)
    BY <1>1, <1>3
  <2>2. CASE j \in 1 .. Len(s)
    BY <1>1, <1>3, <2>1, <2>2 DEF Ascending
  <2>3. CASE j = Len(s) + 1
    BY <1>1, <2>1, <2>3 DEF Ascending
  <2> QED
    BY <1>1, <2>2, <2>3
<1> QED
  BY <1>1, <1>2, <1>3 DEF Ascending

\* Without the first counter they ascend above it.
LEMMA AscendingTail ==
    ASSUME NEW s \in Seq(Counters), s # <<>>, NEW low \in Int, NEW high \in Int,
           Ascending(s, low, high)
    PROVE  low < Head(s) /\ Head(s) <= high /\ Ascending(Tail(s), Head(s), high)
<1>1. /\ Len(s) \in Nat \ {0} /\ DOMAIN s = 1 .. Len(s) /\ DOMAIN Tail(s) = 1 .. Len(s) - 1
      /\ Head(s) = s[1]
      /\ \A i \in 1 .. Len(s) - 1 : Tail(s)[i] = s[i + 1]
  OBVIOUS
<1>2. low < s[1] /\ s[1] <= high
  BY <1>1 DEF Ascending
<1>3. ASSUME NEW i \in 1 .. Len(s) - 1 PROVE s[1] < Tail(s)[i] /\ Tail(s)[i] <= high
  BY <1>1 DEF Ascending
<1>4. ASSUME NEW i \in 1 .. Len(s) - 1, NEW j \in 1 .. Len(s) - 1, i < j
      PROVE  Tail(s)[i] < Tail(s)[j]
  BY <1>1, <1>4 DEF Ascending
<1> QED
  BY <1>1, <1>2, <1>3, <1>4 DEF Ascending

\* The bounds may be relaxed.
LEMMA AscendingWiden ==
    ASSUME NEW s \in Seq(Counters), NEW low \in Int, NEW high \in Int, NEW l \in Int, NEW h \in Int,
           Ascending(s, low, high), l <= low, high <= h
    PROVE  Ascending(s, l, h)
<1>1. \A i \in DOMAIN s : s[i] \in Int
  BY CountersOf
<1> QED
  BY <1>1 DEF Ascending

-----------------------------------------------------------------------------
(***************************************************************************)
(* Types.                                                                  *)
(***************************************************************************)

\* The delays stay between their bounds.
LEMMA DelaysBounded ==
    /\ MinDelay \in MinDelay .. MaxDelay
    /\ \A d \in MinDelay .. MaxDelay :
         Smaller(d, MaxDelay) \in MinDelay .. MaxDelay /\ NextDelay(d) \in MinDelay .. MaxDelay
  BY WsLinkAssumption DEF Smaller, NextDelay

\* The types before the client starts.
LEMMA InitTyped == Init => LinkTypeOK
<1>1. /\ 0 \in Counters /\ 0 \in 0 .. MaxFails
      /\ <<>> \in Seq(Counters) /\ Len(<<>>) <= MaxInFlight
  BY WsLinkAssumption DEF Counters
<1>2. ASSUME Init
      PROVE  /\ hmi \in [connected : BOOLEAN, delay : MinDelay .. MaxDelay, tx : Counters,
                         rx : Counters, ev : {"idle", "reset"}]
             /\ retry \in [armed : BOOLEAN, period : MinDelay .. MaxDelay, failed : BOOLEAN]
  BY <1>1, <1>2, DelaysBounded DEF Init
<1>3. ASSUME Init
      PROVE  /\ sender \in [pc : {"idle", "read", "write", "send"}, ctr : Counters]
             /\ sensor \in [tx : Counters, last : Counters]
             /\ toSensor \in Seq(Counters) /\ Len(toSensor) <= MaxInFlight
             /\ toHmi \in Seq(Counters) /\ Len(toHmi) <= MaxInFlight
  BY <1>1, <1>3 DEF Init
<1>4. ASSUME Init
      PROVE  /\ lib \in {"none", "connecting", "open", "lost", "stopped"}
             /\ up \in BOOLEAN /\ fails \in 0 .. MaxFails /\ overlap \in BOOLEAN
  BY <1>1, <1>4 DEF Init
<1> QED
  BY <1>2, <1>3, <1>4 DEF LinkTypeOK

\* Every step preserves the types.
LEMMA NextTyped == LinkTypeOK /\ [Next]_vars => LinkTypeOK'
<1> SUFFICES ASSUME LinkTypeOK, [Next]_vars PROVE LinkTypeOK'
  OBVIOUS
<1> USE DEF LinkTypeOK
<1>0. /\ 0 \in Counters /\ 0 \in 0 .. MaxFails
      /\ <<>> \in Seq(Counters) /\ Len(<<>>) <= MaxInFlight
  BY WsLinkAssumption DEF Counters
<1>1. CASE Start
  BY <1>1, <1>0, DelaysBounded DEF Start, SessionEnds
<1>2. CASE Connected
  BY <1>2, <1>0, DelaysBounded DEF Connected, SessionEnds
<1>3. CASE ResetCounters
  BY <1>3, <1>0, DelaysBounded DEF ResetCounters, SessionEnds
<1>4. CASE Disconnected
  <2>1. fails' \in 0 .. MaxFails
    BY <1>4, WsLinkAssumption DEF Disconnected, Smaller
  <2> QED
    BY <1>4, <2>1, DelaysBounded DEF Disconnected
<1>5. CASE Data
  <2>1. /\ Head(toHmi) \in Counters
        /\ toHmi' \in Seq(Counters) /\ Len(toHmi') <= MaxInFlight
    BY <1>5, WsLinkAssumption, CountersOf DEF Data
  <2> QED
    BY <1>5, <2>1 DEF Data
<1>6. CASE RetryStarts
  BY <1>6, <1>0, DelaysBounded DEF RetryStarts, SessionEnds
<1>7. CASE RetryFails
  BY <1>7, <1>0, DelaysBounded DEF RetryFails, SessionEnds
<1>8. CASE SendChecks
  BY <1>8, <1>0, DelaysBounded DEF SendChecks, SessionEnds
<1>9. CASE SendReads
  <2>1. hmi.tx + 1 \in Counters
    BY <1>9, WsLinkAssumption DEF SendReads, Counters
  <2> QED
    BY <1>9, <2>1 DEF SendReads
<1>10. CASE SendWrites
  BY <1>10, <1>0, DelaysBounded DEF SendWrites, SessionEnds
<1>11. CASE SendBin
  <2>1. toSensor' \in Seq(Counters) /\ Len(toSensor') <= MaxInFlight
    BY <1>11, WsLinkAssumption DEF SendBin
  <2> QED
    BY <1>11, <1>0, <2>1 DEF SendBin
<1>12. CASE SendFails
  BY <1>12, <1>0, DelaysBounded DEF SendFails, SessionEnds
<1>13. CASE Publish
  <2>1. sensor.tx + 1 \in Counters
    <3>1. sensor.tx \in Counters /\ sensor.tx < MaxCounter /\ MaxCounter \in Nat
      BY <1>13, WsLinkAssumption DEF Publish
    <3> QED
      BY <3>1, CounterGrows
  <2>2. toHmi' \in Seq(Counters) /\ Len(toHmi') <= MaxInFlight
    BY <1>13, <2>1, WsLinkAssumption DEF Publish
  <2> QED
    BY <1>13, <2>1, <2>2 DEF Publish
<1>14. CASE Receive
  <2>1. /\ Head(toSensor) \in Counters
        /\ toSensor' \in Seq(Counters) /\ Len(toSensor') <= MaxInFlight
    BY <1>14, WsLinkAssumption, CountersOf DEF Receive
  <2> QED
    BY <1>14, <2>1 DEF Receive
<1>15. CASE Reject
  BY <1>15, <1>0, DelaysBounded DEF Reject, SessionEnds
<1>16. CASE Recover
  BY <1>16, <1>0, DelaysBounded DEF Recover, SessionEnds
<1>17. ASSUME NEW reboot \in BOOLEAN, Outage(reboot)
      PROVE  LinkTypeOK'
  <2>1. sensor' \in [tx : Counters, last : Counters]
    BY <1>17, <1>0 DEF Outage
  <2>2. lib' \in {"none", "connecting", "open", "lost", "stopped"} /\ toSensor' = <<>> /\ toHmi' = <<>>
    BY <1>17 DEF Outage, SessionEnds
  <2> QED
    BY <1>17, <1>0, <2>1, <2>2 DEF Outage
<1>18. CASE UNCHANGED vars
  BY <1>18, <1>0, DelaysBounded DEF vars, SessionEnds
<1> QED
  BY <1>1, <1>2, <1>3, <1>4, <1>5, <1>6, <1>7, <1>8, <1>9, <1>10, <1>11, <1>12, <1>13, <1>14,
     <1>15, <1>16, <1>17, <1>18
     DEF Next, EventHandler, Retry, Sender, Sensor

-----------------------------------------------------------------------------
(***************************************************************************)
(* The connection.                                                         *)
(***************************************************************************)

\* A link that is down carries no frames.
LEMMA NextNothingInFlight == LinkTypeOK /\ NothingInFlight /\ [Next]_vars => NothingInFlight'
<1> SUFFICES ASSUME LinkTypeOK, NothingInFlight, [Next]_vars PROVE NothingInFlight'
  OBVIOUS
<1> USE DEF LinkTypeOK, NothingInFlight
<1>1. CASE Start
  BY <1>1 DEF Start, SessionEnds
<1>2. CASE Connected
  BY <1>2 DEF Connected, SessionEnds
<1>3. CASE ResetCounters
  BY <1>3 DEF ResetCounters, SessionEnds
<1>4. CASE Disconnected
  BY <1>4 DEF Disconnected, SessionEnds
<1>5. CASE Data
  BY <1>5 DEF Data, SessionEnds
<1>6. CASE RetryStarts
  BY <1>6 DEF RetryStarts, SessionEnds
<1>7. CASE RetryFails
  BY <1>7 DEF RetryFails, SessionEnds
<1>8. CASE SendChecks
  BY <1>8 DEF SendChecks, SessionEnds
<1>9. CASE SendReads
  BY <1>9 DEF SendReads, SessionEnds
<1>10. CASE SendWrites
  BY <1>10 DEF SendWrites, SessionEnds
<1>11. CASE SendBin
  BY <1>11 DEF SendBin, SessionEnds
<1>12. CASE SendFails
  BY <1>12 DEF SendFails, SessionEnds
<1>13. CASE Publish
  BY <1>13 DEF Publish, SessionEnds
<1>14. CASE Receive
  BY <1>14 DEF Receive, SessionEnds
<1>15. CASE Reject
  BY <1>15 DEF Reject, SessionEnds
<1>16. CASE Recover
  BY <1>16 DEF Recover, SessionEnds
<1>17. ASSUME NEW reboot \in BOOLEAN, Outage(reboot)
      PROVE  NothingInFlight'
  BY <1>17 DEF Outage, SessionEnds
<1>18. CASE UNCHANGED vars
  BY <1>18 DEF vars, SessionEnds
<1> QED
  BY <1>1, <1>2, <1>3, <1>4, <1>5, <1>6, <1>7, <1>8, <1>9, <1>10, <1>11, <1>12, <1>13, <1>14,
     <1>15, <1>16, <1>17, <1>18
     DEF Next, EventHandler, Retry, Sender, Sensor

-----------------------------------------------------------------------------
(***************************************************************************)
(* The frames to the HMI.                                                  *)
(***************************************************************************)

\* The frames to the HMI arrive in the order of their counters.
LEMMA NextToHmiInOrder ==
    LinkTypeOK /\ NothingInFlight /\ ToHmiInOrder /\ [Next]_vars => ToHmiInOrder'
<1> SUFFICES ASSUME LinkTypeOK, NothingInFlight, ToHmiInOrder, [Next]_vars PROVE ToHmiInOrder'
  OBVIOUS
<1> USE DEF LinkTypeOK, ToHmiInOrder
<1>1. CASE Start
  <2>1. lib' # "open"
    BY <1>1 DEF Start, SessionEnds
  <2> QED
    BY <2>1
<1>2. CASE Connected
  <2>1. hmi'.ev = "reset" /\ toHmi' = <<>> /\ Ascending(<<>>, 0, sensor'.tx)
    BY <1>2, AscendingEmpty DEF Connected, NothingInFlight
  <2> QED
    BY <2>1
<1>3. CASE ResetCounters
  <2>1. hmi'.rx = 0 /\ 0 <= sensor.tx /\ UNCHANGED <<lib, sensor, toHmi>>
    BY <1>3, CountersNat DEF ResetCounters
  <2> QED
    BY <2>1
<1>4. CASE Disconnected
  <2>1. lib' # "open"
    BY <1>4 DEF Disconnected, SessionEnds
  <2> QED
    BY <2>1
<1>5. CASE Data
  <2>1. /\ lib = "open" /\ hmi.ev = "idle" /\ hmi'.ev = "idle" /\ toHmi # <<>> /\ toHmi' = Tail(toHmi)
        /\ UNCHANGED sensor /\ hmi.rx \in Nat /\ sensor.tx \in Nat
    BY <1>5, CountersNat DEF Data
  <2>2. /\ hmi.rx < Head(toHmi) /\ Head(toHmi) <= sensor.tx
        /\ Ascending(Tail(toHmi), Head(toHmi), sensor.tx)
    BY <2>1, AscendingTail
  <2>3. hmi'.rx = Head(toHmi)
    BY <1>5, <2>2 DEF Data
  <2>4. Head(toHmi) \in Nat /\ Tail(toHmi) \in Seq(Counters)
    BY <2>1, CountersOf
  <2>5. Ascending(Tail(toHmi), 0, sensor.tx)
    <3> DEFINE t == Tail(toHmi)
               h == Head(toHmi)
    <3>1. t \in Seq(Counters) /\ h \in Int /\ 0 <= h /\ sensor.tx \in Int /\ Ascending(t, h, sensor.tx)
      BY <2>1, <2>2, <2>4
    <3> HIDE DEF t, h, LinkTypeOK, ToHmiInOrder
    <3>2. Ascending(t, 0, sensor.tx)
      BY <3>1, AscendingWiden
    <3> QED
      BY <3>2 DEF t
  <2> QED
    BY <2>1, <2>2, <2>3, <2>5
<1>6. CASE RetryStarts
  BY <1>6 DEF RetryStarts
<1>7. CASE RetryFails
  BY <1>7 DEF RetryFails
<1>8. CASE SendChecks
  BY <1>8 DEF SendChecks
<1>9. CASE SendReads
  BY <1>9 DEF SendReads
<1>10. CASE SendWrites
  BY <1>10 DEF SendWrites
<1>11. CASE SendBin
  BY <1>11 DEF SendBin
<1>12. CASE SendFails
  BY <1>12 DEF SendFails
<1>13. CASE Publish
  <2> SUFFICES ASSUME lib = "open"
               PROVE  ToHmiInOrder'
    BY <1>13 DEF Publish
  <2>1. /\ sensor.tx \in Nat /\ hmi.rx \in Nat /\ sensor'.tx = sensor.tx + 1
        /\ toHmi' = Append(toHmi, sensor.tx + 1) /\ UNCHANGED hmi
    BY <1>13, CountersNat DEF Publish
  <2>2. Ascending(toHmi, 0, sensor.tx)
    OBVIOUS
  <2>3. Ascending(toHmi', 0, sensor'.tx)
    BY <2>1, <2>2, AscendingAppend
  <2>4. ASSUME hmi.ev = "idle"
        PROVE  hmi.rx <= sensor'.tx /\ Ascending(toHmi', hmi.rx, sensor'.tx)
    <3>1. hmi.rx <= sensor.tx /\ Ascending(toHmi, hmi.rx, sensor.tx)
      BY <2>4
    <3> QED
      BY <2>1, <3>1, AscendingAppend
  <2> QED
    BY <2>1, <2>3, <2>4
<1>14. CASE Receive
  BY <1>14 DEF Receive
<1>15. CASE Reject
  <2>1. lib' # "open"
    BY <1>15 DEF Reject, SessionEnds
  <2> QED
    BY <2>1
<1>16. CASE Recover
  BY <1>16 DEF Recover
<1>17. ASSUME NEW reboot \in BOOLEAN, Outage(reboot)
      PROVE  ToHmiInOrder'
  <2>1. lib' # "open"
    BY <1>17 DEF Outage, SessionEnds
  <2> QED
    BY <2>1
<1>18. CASE UNCHANGED vars
  BY <1>18 DEF vars
<1> QED
  BY <1>1, <1>2, <1>3, <1>4, <1>5, <1>6, <1>7, <1>8, <1>9, <1>10, <1>11, <1>12, <1>13, <1>14,
     <1>15, <1>16, <1>17, <1>18
     DEF Next, EventHandler, Retry, Sender, Sensor

-----------------------------------------------------------------------------
(***************************************************************************)
(* The frames to the sensor, and the counter in the sender's hand.         *)
(***************************************************************************)

\* So do those to the sensor, but for the counter in the hand of the sender.
LEMMA NextToSensorInOrder ==
    LinkTypeOK /\ NothingInFlight /\ ToSensorInOrder /\ [Next]_vars => ToSensorInOrder'
<1> SUFFICES ASSUME LinkTypeOK, NothingInFlight, ToSensorInOrder, [Next]_vars
             PROVE  ToSensorInOrder'
  OBVIOUS
<1> USE DEF LinkTypeOK, ToSensorInOrder
<1>1. CASE Start
  <2>1. lib' # "open"
    BY <1>1 DEF Start, SessionEnds
  <2> QED
    BY <2>1
<1>2. CASE Connected
  <2>1. /\ hmi'.ev = "reset" /\ sensor'.last = 0 /\ toSensor' = <<>>
        /\ ~overlap' => sender'.pc = "idle"
    BY <1>2 DEF Connected, NothingInFlight
  <2> QED
    BY <2>1
<1>3. CASE ResetCounters
  <2> SUFFICES ASSUME lib = "open", ~overlap
               PROVE  ToSensorInOrder'
    BY <1>3 DEF ResetCounters
  <2>1. toSensor = <<>> /\ sensor.last = 0 /\ sender.pc = "idle"
    BY <1>3 DEF ResetCounters
  <2>2. hmi'.tx = 0 /\ hmi'.ev = "idle" /\ UNCHANGED <<sender, sensor, toSensor>>
    BY <1>3 DEF ResetCounters
  <2> QED
    BY <2>1, <2>2, AscendingEmpty
<1>4. CASE Disconnected
  <2>1. lib' # "open"
    BY <1>4 DEF Disconnected, SessionEnds
  <2> QED
    BY <2>1
<1>5. CASE Data
  BY <1>5 DEF Data
<1>6. CASE RetryStarts
  BY <1>6 DEF RetryStarts
<1>7. CASE RetryFails
  BY <1>7 DEF RetryFails
<1>8. CASE SendChecks
  BY <1>8 DEF SendChecks
<1>9. CASE SendReads
  BY <1>9 DEF SendReads
<1>10. CASE SendWrites
  <2> SUFFICES ASSUME lib = "open", ~overlap
               PROVE  ToSensorInOrder'
    BY <1>10 DEF SendWrites
  <2>0. /\ hmi.ev = "idle" /\ sensor.last \in Nat /\ hmi.tx \in Nat
        /\ sensor.last <= hmi.tx /\ Ascending(toSensor, sensor.last, hmi.tx)
    BY <1>10, CountersNat DEF SendWrites
  <2>1. /\ hmi'.tx = hmi.tx + 1 /\ sender'.ctr = hmi.tx + 1 /\ sender'.pc = "send" /\ hmi'.ev = "idle"
        /\ UNCHANGED <<lib, sensor, toSensor, overlap>>
    BY <1>10, <2>0 DEF SendWrites
  <2>2. Ascending(toSensor, sensor.last, hmi.tx + 1)
    BY <2>0, AscendingWiden
  <2>3. hmi'.tx - 1 = hmi.tx /\ sensor.last < hmi'.tx /\ sensor.last <= hmi'.tx
    BY <2>0, <2>1
  <2> QED
    BY <2>0, <2>1, <2>2, <2>3
<1>11. CASE SendBin
  <2> SUFFICES ASSUME lib = "open", ~overlap
               PROVE  ToSensorInOrder'
    BY <1>11 DEF SendBin
  <2>0. /\ hmi.ev = "idle" /\ sensor.last \in Nat /\ hmi.tx \in Nat
        /\ sensor.last <= hmi.tx /\ Ascending(toSensor, sensor.last, hmi.tx)
    BY <1>11, CountersNat DEF SendBin
  <2>1. /\ sender.ctr = hmi.tx /\ sensor.last < hmi.tx /\ Ascending(toSensor, sensor.last, hmi.tx - 1)
        /\ toSensor' = Append(toSensor, hmi.tx)
        /\ sender'.pc = "idle" /\ UNCHANGED <<hmi, lib, sensor, overlap>>
    BY <1>11, <2>0 DEF SendBin
  <2>2. Ascending(Append(toSensor, hmi.tx), sensor.last, hmi.tx)
    BY <2>0, <2>1, AscendingAppend
  <2> QED
    BY <2>0, <2>1, <2>2
<1>12. CASE SendFails
  BY <1>12 DEF SendFails
<1>13. CASE Publish
  BY <1>13 DEF Publish
<1>14. CASE Receive
  <2> SUFFICES ASSUME lib = "open", ~overlap
               PROVE  ToSensorInOrder'
    BY <1>14 DEF Receive
  <2>1. /\ hmi.ev = "idle" /\ sensor.last \in Nat /\ hmi.tx \in Nat /\ toSensor # <<>>
        /\ Ascending(toSensor, sensor.last, hmi.tx)
        /\ sensor'.last = Head(toSensor) /\ toSensor' = Tail(toSensor)
        /\ UNCHANGED <<hmi, sender, lib, overlap>>
    BY <1>14, CountersNat DEF Receive
  <2>2. Head(toSensor) <= hmi.tx /\ Ascending(Tail(toSensor), Head(toSensor), hmi.tx)
    BY <2>1, AscendingTail
  <2>3. ASSUME sender.pc = "send"
        PROVE  Head(toSensor) < hmi.tx /\ Ascending(Tail(toSensor), Head(toSensor), hmi.tx - 1)
    <3>1. Ascending(toSensor, sensor.last, hmi.tx - 1)
      BY <2>1, <2>3
    <3>2. Head(toSensor) <= hmi.tx - 1 /\ Ascending(Tail(toSensor), Head(toSensor), hmi.tx - 1)
      BY <2>1, <3>1, AscendingTail
    <3>3. Head(toSensor) \in Nat
      BY <2>1, CountersOf
    <3> QED
      BY <2>1, <3>2, <3>3
  <2> QED
    BY <2>1, <2>2, <2>3
<1>15. CASE Reject
  <2>1. lib' # "open"
    BY <1>15 DEF Reject, SessionEnds
  <2> QED
    BY <2>1
<1>16. CASE Recover
  BY <1>16 DEF Recover
<1>17. ASSUME NEW reboot \in BOOLEAN, Outage(reboot)
      PROVE  ToSensorInOrder'
  <2>1. lib' # "open"
    BY <1>17 DEF Outage, SessionEnds
  <2> QED
    BY <2>1
<1>18. CASE UNCHANGED vars
  BY <1>18 DEF vars
<1> QED
  BY <1>1, <1>2, <1>3, <1>4, <1>5, <1>6, <1>7, <1>8, <1>9, <1>10, <1>11, <1>12, <1>13, <1>14,
     <1>15, <1>16, <1>17, <1>18
     DEF Next, EventHandler, Retry, Sender, Sensor

-----------------------------------------------------------------------------
(***************************************************************************)
(* The reconnect delay.                                                    *)
(***************************************************************************)

\* Doubling the delay up to the maximum is one more doubling of the minimum, up to the maximum.
LEMMA NextDelayDoubles ==
    ASSUME NEW n \in Nat
    PROVE  NextDelay(Smaller(MinDelay * Pow2[n], MaxDelay)) = Smaller(MinDelay * Pow2[n + 1], MaxDelay)
<1> DEFINE d == MinDelay * Pow2[n]
<1>1. d \in Nat /\ MinDelay * Pow2[n + 1] = 2 * d
  BY WsLinkAssumption, Pow2Def
<1> HIDE DEF d
<1>2. NextDelay(Smaller(d, MaxDelay)) = Smaller(2 * d, MaxDelay)
  BY <1>1, WsLinkAssumption DEF NextDelay, Smaller
<1> QED
  BY <1>1, <1>2 DEF d

\* The delay is that of the failures in a row.
LEMMA NextDelayFollowsFails == LinkTypeOK /\ DelayFollowsFails /\ [Next]_vars => DelayFollowsFails'
<1> SUFFICES ASSUME LinkTypeOK, DelayFollowsFails, [Next]_vars PROVE DelayFollowsFails'
  OBVIOUS
<1> USE DEF LinkTypeOK, DelayFollowsFails, BackoffDoubles
<1>1. CASE Start
  <2>1. hmi'.delay = MinDelay /\ fails' = 0 /\ lib' # "none" /\ ~retry'.armed
    BY <1>1 DEF Start
  <2>2. Smaller(MinDelay * Pow2[0], MaxDelay) = MinDelay
    BY WsLinkAssumption, Pow2Def DEF Smaller
  <2> QED
    BY <2>1, <2>2
<1>2. CASE Connected
  <2>1. hmi'.delay = MinDelay /\ fails' = 0 /\ lib' # "none" /\ ~retry'.armed
    BY <1>2 DEF Connected
  <2>2. Smaller(MinDelay * Pow2[0], MaxDelay) = MinDelay
    BY WsLinkAssumption, Pow2Def DEF Smaller
  <2> QED
    BY <2>1, <2>2
<1>3. CASE ResetCounters
  <2>1. hmi'.delay = hmi.delay /\ UNCHANGED <<retry, lib, fails>>
    BY <1>3 DEF ResetCounters
  <2> QED
    BY <2>1
<1>4. CASE Disconnected
  <2>1. /\ retry'.armed /\ lib' = "stopped" /\ fails' = Smaller(fails + 1, MaxFails)
        /\ retry'.period = Smaller(hmi.delay, MaxDelay) /\ hmi'.delay = NextDelay(hmi.delay)
    BY <1>4 DEF Disconnected
  <2> SUFFICES ASSUME fails' < MaxFails
               PROVE  /\ hmi'.delay = Smaller(MinDelay * Pow2[fails'], MaxDelay)
                      /\ fails' > 0 /\ retry'.period = Smaller(MinDelay * Pow2[fails' - 1], MaxDelay)
    BY <2>1
  <2>2. fails \in Nat /\ fails' = fails + 1 /\ fails < MaxFails
    BY <2>1, WsLinkAssumption DEF Smaller
  <2>3. hmi.delay = Smaller(MinDelay * Pow2[fails], MaxDelay)
    BY <2>2
  <2>4. fails' > 0 /\ retry'.period = Smaller(MinDelay * Pow2[fails' - 1], MaxDelay)
    <3>1. fails' > 0 /\ fails' - 1 = fails
      BY <2>2
    <3>2. Smaller(hmi.delay, MaxDelay) = hmi.delay
      BY WsLinkAssumption DEF Smaller
    <3> QED
      BY <2>1, <2>3, <3>1, <3>2
  <2>5. hmi'.delay = Smaller(MinDelay * Pow2[fails'], MaxDelay)
    BY <2>1, <2>2, <2>3, NextDelayDoubles
  <2> QED
    BY <2>4, <2>5
<1>5. CASE Data
  <2>1. hmi'.delay = hmi.delay /\ UNCHANGED <<retry, lib, fails>>
    BY <1>5 DEF Data
  <2> QED
    BY <2>1
<1>6. CASE RetryStarts
  <2>1. ~retry'.armed /\ UNCHANGED <<hmi, fails>> /\ (lib' = "none" => lib = "none")
    BY <1>6 DEF RetryStarts
  <2> QED
    BY <2>1
<1>7. CASE RetryFails
  <2>1. ~retry'.armed /\ UNCHANGED <<hmi, fails>> /\ (lib' = "none" => lib = "none")
    BY <1>7 DEF RetryFails
  <2> QED
    BY <2>1
<1>8. CASE SendChecks
  <2>1. UNCHANGED <<hmi, retry, lib, fails>>
    BY <1>8 DEF SendChecks
  <2> QED
    BY <2>1
<1>9. CASE SendReads
  <2>1. UNCHANGED <<hmi, retry, lib, fails>>
    BY <1>9 DEF SendReads
  <2> QED
    BY <2>1
<1>10. CASE SendWrites
  <2>1. hmi'.delay = hmi.delay /\ UNCHANGED <<retry, lib, fails>>
    BY <1>10 DEF SendWrites
  <2> QED
    BY <2>1
<1>11. CASE SendBin
  <2>1. UNCHANGED <<hmi, retry, lib, fails>>
    BY <1>11 DEF SendBin
  <2> QED
    BY <2>1
<1>12. CASE SendFails
  <2>1. UNCHANGED <<hmi, retry, lib, fails>>
    BY <1>12 DEF SendFails
  <2> QED
    BY <2>1
<1>13. CASE Publish
  <2>1. UNCHANGED <<hmi, retry, lib, fails>>
    BY <1>13 DEF Publish
  <2> QED
    BY <2>1
<1>14. CASE Receive
  <2>1. UNCHANGED <<hmi, retry, lib, fails>>
    BY <1>14 DEF Receive
  <2> QED
    BY <2>1
<1>15. CASE Reject
  <2>1. UNCHANGED <<hmi, retry, fails>> /\ (lib' = lib \/ (lib = "open" /\ lib' = "lost"))
    BY <1>15 DEF Reject, SessionEnds
  <2> QED
    BY <2>1
<1>16. CASE Recover
  <2>1. UNCHANGED <<hmi, retry, lib, fails>>
    BY <1>16 DEF Recover
  <2> QED
    BY <2>1
<1>17. ASSUME NEW reboot \in BOOLEAN, Outage(reboot)
      PROVE  DelayFollowsFails'
  <2>1. UNCHANGED <<hmi, retry, fails>> /\ (lib' = lib \/ (lib = "open" /\ lib' = "lost"))
    BY <1>17 DEF Outage, SessionEnds
  <2> QED
    BY <2>1
<1>18. CASE UNCHANGED vars
  BY <1>18 DEF vars
<1> QED
  BY <1>1, <1>2, <1>3, <1>4, <1>5, <1>6, <1>7, <1>8, <1>9, <1>10, <1>11, <1>12, <1>13, <1>14,
     <1>15, <1>16, <1>17, <1>18
     DEF Next, EventHandler, Retry, Sender, Sensor

-----------------------------------------------------------------------------
\* LinkInv is an invariant of the two ends, the sender, the timer and the connection.
THEOREM LinkInvariant == Spec => []LinkInv
<1>1. Init => LinkInv
  <2> SUFFICES ASSUME Init PROVE LinkInv
    OBVIOUS
  <2>1. LinkTypeOK
    BY InitTyped
  <2>2. NothingInFlight /\ ToSensorInOrder /\ ToHmiInOrder
    BY DEF Init, NothingInFlight, ToSensorInOrder, ToHmiInOrder
  <2>3. DelayFollowsFails
    <3>1. hmi.delay = MinDelay /\ fails = 0 /\ ~retry.armed
      BY DEF Init
    <3>2. Smaller(MinDelay * Pow2[0], MaxDelay) = MinDelay
      BY WsLinkAssumption, Pow2Def DEF Smaller
    <3> QED
      BY <3>1, <3>2 DEF DelayFollowsFails, BackoffDoubles
  <2> QED
    BY <2>1, <2>2, <2>3 DEF LinkInv
<1>2. LinkInv /\ [Next]_vars => LinkInv'
  BY NextTyped, NextNothingInFlight, NextToSensorInOrder, NextToHmiInOrder, NextDelayFollowsFails
     DEF LinkInv
<1> QED
  BY <1>1, <1>2, PTL DEF Spec

\* The statics of ws_client.c keep their types; s_reconnect_delay_ms stays between its bounds.
THEOREM LinkTyped == Spec => []LinkTypeOK
<1>1. LinkInv => LinkTypeOK
  BY DEF LinkInv
<1> QED
  BY <1>1, LinkInvariant, PTL

\* ws_security_decrypt on the HMI skips no frame of the sensor, over reconnections and reboots of the
\* sensor, once WEBSOCKET_EVENT_CONNECTED was handled.
THEOREM LinkSensorFrames == Spec => []SensorFramesAccepted
<1>1. LinkInv => SensorFramesAccepted
  <2> SUFFICES ASSUME LinkInv, lib = "open", hmi.ev = "idle", NEW i \in 1 .. Len(toHmi)
               PROVE  toHmi[i] > (IF i = 1 THEN hmi.rx ELSE toHmi[i - 1])
    BY DEF SensorFramesAccepted
  <2>1. Ascending(toHmi, hmi.rx, sensor.tx) /\ DOMAIN toHmi = 1 .. Len(toHmi) /\ Len(toHmi) \in Nat
    BY DEF LinkInv, ToHmiInOrder, LinkTypeOK
  <2>2. toHmi \in Seq(Counters) /\ hmi.rx \in Nat
    BY CountersNat DEF LinkInv, LinkTypeOK
  <2>3. CASE i = 1
    BY <2>1, <2>2, <2>3, CountersOf DEF Ascending
  <2>4. CASE i # 1
    <3>1. i - 1 \in DOMAIN toHmi /\ i - 1 < i /\ i \in DOMAIN toHmi
      BY <2>1, <2>4
    <3>2. toHmi[i - 1] < toHmi[i]
      BY <2>1, <3>1 DEF Ascending
    <3> QED
      BY <2>2, <2>4, <3>1, <3>2, CountersOf
  <2> QED
    BY <2>3, <2>4
<1> QED
  BY <1>1, LinkInvariant, PTL

\* The frames on their way to the sensor are newer than what it took, unless a send overlapped.
LEMMA InvRejects == LinkInv => RejectOnlyAfterOverlap
<1> SUFFICES ASSUME LinkInv, toSensor # <<>>, ~overlap
             PROVE  ~(Head(toSensor) <= sensor.last)
  BY DEF RejectOnlyAfterOverlap, LinkInv, LinkTypeOK
<1>1. lib = "open" /\ toSensor \in Seq(Counters) /\ sensor.last \in Nat /\ hmi.tx \in Nat
  BY CountersNat DEF LinkInv, LinkTypeOK, NothingInFlight
<1>2. Ascending(toSensor, sensor.last, hmi.tx)
  BY <1>1 DEF LinkInv, ToSensorInOrder
<1>3. sensor.last < Head(toSensor) /\ Head(toSensor) \in Nat
  BY <1>1, <1>2, AscendingTail, CountersOf
<1> QED
  BY <1>1, <1>3

\* ws_handler of the sensor closes a session for a replayed counter only if ws_client_send overlapped
\* the CONNECTED event of that session.
THEOREM LinkRejects == Spec => []RejectOnlyAfterOverlap
BY InvRejects, LinkInvariant, PTL

\* The period the reconnect timer is armed with is reconnect_min_delay_ms doubled for every
\* DISCONNECTED event but the first since the last CONNECTED, up to reconnect_max_delay_ms.
THEOREM LinkBackoff == Spec => []BackoffDoubles
<1>1. LinkInv => BackoffDoubles
  BY DEF LinkInv, DelayFollowsFails
<1> QED
  BY <1>1, LinkInvariant, PTL

-----------------------------------------------------------------------------
(***************************************************************************)
(* The session that the link implements.                                   *)
(***************************************************************************)

\* A number above all of those that ascend is newer than what was heard and than what is on its way.
LEMMA NewerThanAscending ==
    ASSUME NEW s \in Seq(Counters), NEW low \in Nat, NEW high \in Nat, NEW n \in Nat,
           Ascending(s, low, high), low < n, high < n
    PROVE  Link!Newer(n, s, low)
<1>1. \A i \in DOMAIN s : s[i] \in Nat
  BY CountersOf
<1> QED
  BY <1>1 DEF Ascending, Link!Newer

\* The variables of the session do not change when those of the link that they are made of do not, or
\* while there is no session before and after.
LEMMA SessionRests ==
    /\ UNCHANGED <<hmi, lib, sensor, toSensor, toHmi, up, overlap>> => UNCHANGED Link!vars
    /\ lib # "open" /\ lib' # "open" /\ UNCHANGED <<toSensor, toHmi, up>> => UNCHANGED Link!vars
BY DEF Link!vars

\* What closes a session ends it.
LEMMA SessionEndsIt ==
    ASSUME SessionEnds
    PROVE  Link!Ends
BY DEF SessionEnds, Link!Ends

\* Connecting opens a session.
LEMMA ConnectedOpens ==
    ASSUME LinkInv, Connected
    PROVE  Link!Opens
<1>1. toSensor = <<>> /\ toHmi = <<>>
  BY DEF LinkInv, NothingInFlight, Connected
<1>2. hmi'.ev = "reset" /\ sensor'.last = 0
  BY DEF LinkInv, LinkTypeOK, Connected
<1> QED
  BY <1>1, <1>2 DEF Connected, Link!Opens

\* A send that overlaps the CONNECTED event spoils the session, before its first command.
LEMMA SendChecksSpoils ==
    ASSUME LinkInv, SendChecks
    PROVE  Link!Spoils \/ UNCHANGED Link!vars
<1>1. CASE lib = "open" /\ hmi.ev = "reset" /\ ~overlap
  <2>1. toSensor = <<>> /\ sensor.last = 0
    BY <1>1 DEF LinkInv, ToSensorInOrder
  <2> QED
    BY <1>1, <2>1 DEF SendChecks, Link!Spoils
<1>2. CASE lib # "open"
  BY <1>2 DEF SendChecks, Link!vars
<1>3. CASE hmi.ev # "reset" \/ overlap
  <2>1. overlap' = overlap
    BY <1>3 DEF SendChecks, LinkInv, LinkTypeOK
  <2> QED
    BY <2>1, SessionRests DEF SendChecks
<1> QED
  BY <1>1, <1>2, <1>3

\* A frame that is sent is newer than those before it, unless the session was spoiled.
LEMMA SendBinSends ==
    ASSUME LinkInv, SendBin
    PROVE  \E n \in Counters : Link!SendsCommand(n)
<1>1. /\ lib = "open" /\ sender.pc = "send" /\ sender.ctr \in Counters /\ overlap \in BOOLEAN
      /\ toSensor \in Seq(Counters) /\ sensor.last \in Nat /\ hmi.tx \in Nat
  BY CountersNat DEF LinkInv, LinkTypeOK, SendBin
<1>2. overlap \/ Link!Newer(sender.ctr, toSensor, sensor.last)
  <2> SUFFICES ASSUME ~overlap PROVE Link!Newer(sender.ctr, toSensor, sensor.last)
    OBVIOUS
  <2>1. sender.ctr = hmi.tx /\ sensor.last < hmi.tx /\ Ascending(toSensor, sensor.last, hmi.tx - 1)
    BY <1>1 DEF LinkInv, ToSensorInOrder
  <2>2. hmi.tx - 1 \in Nat /\ hmi.tx - 1 < hmi.tx
    BY <1>1, <2>1
  <2> QED
    BY <1>1, <2>1, <2>2, NewerThanAscending
<1>3. Link!SendsCommand(sender.ctr)
  BY <1>1, <1>2 DEF SendBin, Link!SendsCommand
<1> QED
  BY <1>1, <1>3

\* An update is newer than those before it.
LEMMA PublishSends ==
    ASSUME LinkInv, Publish
    PROVE  (\E n \in Counters : Link!SendsUpdate(n)) \/ UNCHANGED Link!vars
<1>1. CASE lib # "open"
  BY <1>1, SessionRests DEF Publish
<1>2. CASE lib = "open"
  <2> DEFINE heard == IF lib = "open" /\ hmi.ev = "idle" THEN hmi.rx ELSE 0
  <2>1. /\ sensor.tx \in Nat /\ hmi.rx \in Nat /\ toHmi \in Seq(Counters)
        /\ sensor.tx + 1 \in Counters /\ sensor'.last = sensor.last
    <3>1. sensor.tx \in Counters /\ hmi.rx \in Counters /\ toHmi \in Seq(Counters)
      BY DEF LinkInv, LinkTypeOK
    <3>2. sensor.tx < MaxCounter /\ MaxCounter \in Nat
      BY WsLinkAssumption DEF Publish
    <3>3. sensor.tx + 1 \in Counters
      BY <3>1, <3>2, CounterGrows
    <3>4. sensor'.last = sensor.last
      <4>1. sensor' = [sensor EXCEPT !.tx = sensor.tx + 1] /\ "last" \in DOMAIN sensor
        BY DEF Publish, LinkInv, LinkTypeOK
      <4> QED
        BY <4>1
    <3> QED
      BY <3>1, <3>3, <3>4, CountersNat
  <2>2. heard \in Nat /\ heard <= sensor.tx /\ Ascending(toHmi, heard, sensor.tx)
    BY <1>2, <2>1 DEF LinkInv, ToHmiInOrder
  <2>3. Link!Newer(sensor.tx + 1, toHmi, heard)
    <3> HIDE DEF heard
    <3>1. sensor.tx + 1 \in Nat /\ sensor.tx < sensor.tx + 1 /\ heard < sensor.tx + 1
      BY <2>1, <2>2
    <3> QED
      BY <2>1, <2>2, <3>1, NewerThanAscending
  <2>4. Link!SendsUpdate(sensor.tx + 1)
    BY <1>2, <2>1, <2>3 DEF Publish, Link!SendsUpdate
  <2> QED
    BY <2>1, <2>4
<1> QED
  BY <1>1, <1>2

\* The HMI takes the next update: it is never stale.
LEMMA DataTakes ==
    ASSUME LinkInv, Data
    PROVE  Link!TakesUpdate
<1>1. /\ lib = "open" /\ hmi.ev = "idle" /\ toHmi # <<>> /\ toHmi \in Seq(Counters)
      /\ hmi.rx \in Nat /\ sensor.tx \in Nat
  BY CountersNat DEF LinkInv, LinkTypeOK, Data
<1>2. hmi.rx < Head(toHmi)
  BY <1>1, AscendingTail DEF LinkInv, ToHmiInOrder
<1>3. Head(toHmi) \in Nat
  BY <1>1, CountersOf
<1>4. hmi'.rx = Head(toHmi) /\ hmi'.ev = "idle"
  BY <1>1, <1>2, <1>3 DEF Data, LinkInv, LinkTypeOK
<1> QED
  BY <1>1, <1>2, <1>3, <1>4 DEF Data, Link!TakesUpdate

\* The sensor takes the next command, ...
LEMMA ReceiveTakes ==
    ASSUME LinkInv, Receive
    PROVE  Link!TakesCommand
<1>1. lib = "open" /\ sensor'.last = Head(toSensor)
  BY DEF LinkInv, LinkTypeOK, NothingInFlight, Receive
<1> QED
  BY <1>1 DEF Receive, Link!TakesCommand

\* ... or refuses it, in a spoiled session.
LEMMA RejectRefuses ==
    ASSUME LinkInv, Reject
    PROVE  Link!Refuses
<1>1. lib = "open"
  BY DEF LinkInv, NothingInFlight, Reject
<1>2. overlap
  BY InvRejects DEF Reject, RejectOnlyAfterOverlap
<1> QED
  BY <1>1, <1>2, SessionEndsIt DEF Reject, Link!Refuses

\* Every step of the link is one of the session, or leaves it as it is.
LEMMA LinkStep == LinkInv /\ [Next]_vars => [Link!Next]_(Link!vars)
<1> SUFFICES ASSUME LinkInv, [Next]_vars PROVE Link!Next \/ UNCHANGED Link!vars
  OBVIOUS
<1>1. CASE Start
  BY <1>1, SessionRests DEF Start
<1>2. CASE Connected
  BY <1>2, ConnectedOpens DEF Link!Next
<1>3. CASE ResetCounters
  <2>1. hmi.ev = "reset" /\ hmi'.rx = 0
    BY <1>3 DEF ResetCounters, LinkInv, LinkTypeOK
  <2> QED
    BY <1>3, <2>1 DEF ResetCounters, Link!vars
<1>4. CASE Disconnected
  <2>1. lib # "open" /\ lib' # "open"
    BY <1>4 DEF Disconnected
  <2> QED
    BY <1>4, <2>1, SessionRests DEF Disconnected
<1>5. CASE Data
  BY <1>5, DataTakes DEF Link!Next
<1>6. CASE RetryStarts
  <2>1. lib = "stopped" /\ lib' = "connecting"
    BY <1>6 DEF RetryStarts, LinkInv, DelayFollowsFails
  <2> QED
    BY <1>6, <2>1, SessionRests DEF RetryStarts
<1>7. CASE RetryFails
  BY <1>7, SessionRests DEF RetryFails
<1>8. CASE SendChecks
  BY <1>8, SendChecksSpoils DEF Link!Next
<1>9. CASE SendReads
  BY <1>9, SessionRests DEF SendReads
<1>10. CASE SendWrites
  <2>1. hmi'.ev = hmi.ev /\ hmi'.rx = hmi.rx
    BY <1>10 DEF SendWrites, LinkInv, LinkTypeOK
  <2> QED
    BY <1>10, <2>1 DEF SendWrites, Link!vars
<1>11. CASE SendBin
  BY <1>11, SendBinSends DEF Link!Next
<1>12. CASE SendFails
  BY <1>12, SessionRests DEF SendFails
<1>13. CASE Publish
  BY <1>13, PublishSends DEF Link!Next
<1>14. CASE Receive
  BY <1>14, ReceiveTakes DEF Link!Next
<1>15. CASE Reject
  BY <1>15, RejectRefuses DEF Link!Next
<1>16. CASE Recover
  <2>1. Link!Recovers
    BY <1>16 DEF Recover, Link!Recovers
  <2> QED
    BY <2>1 DEF Link!Next
<1>17. ASSUME NEW reboot \in BOOLEAN, Outage(reboot)
      PROVE  Link!Next
  <2>1. Link!Fails
    BY <1>17, SessionEndsIt DEF Outage, Link!Fails
  <2> QED
    BY <2>1 DEF Link!Next
<1>18. CASE UNCHANGED vars
  BY <1>18, SessionRests DEF vars
<1> QED
  BY <1>1, <1>2, <1>3, <1>4, <1>5, <1>6, <1>7, <1>8, <1>9, <1>10, <1>11, <1>12, <1>13, <1>14,
     <1>15, <1>16, <1>17, <1>18
     DEF Next, EventHandler, Retry, Sender, Sensor

\* ws_security_decrypt takes every frame of a session once and in order, at both ends; a session ends
\* with an outage, or for a replay in a session whose CONNECTED event a send overlapped.
THEOREM LinkImplementsSession == Spec => SessionKept
<1>1. Init => Link!Init
  BY DEF Init, Link!Init
<1> QED
  BY <1>1, LinkStep, LinkInvariant, PTL DEF Spec, SessionKept, Link!Spec

-----------------------------------------------------------------------------
(***************************************************************************)
(* Messages.                                                               *)
(***************************************************************************)

\* A reading printed with two decimals is off by half a hundredth at most.
LEMMA PrintedNear ==
    ASSUME NEW x \in Int
    PROVE  Printed(x) \in Int /\ Printed(x) - x \in -5 .. 5
<1> DEFINE y == x + 5
<1>1. /\ y \div 10 \in Int /\ y % 10 \in 0 .. 9
      /\ y = (10 * (y \div 10)) + (y % 10)
  OBVIOUS
<1> QED
  BY <1>1 DEF Printed

\* A sequence of at most n items is a sequence, and each of its items is of the set.
LEMMA BoundedIsSeq ==
    ASSUME NEW S, NEW n \in Nat, NEW s \in BoundedSeq(S, n)
    PROVE  /\ s \in Seq(S) /\ Len(s) \in Nat /\ Len(s) <= n /\ DOMAIN s = 1 .. Len(s)
           /\ \A i \in DOMAIN s : s[i] \in S
<1>1. PICK k \in 0 .. n : s \in [1 .. k -> S]
  BY DEF BoundedSeq, SeqOf
<1>2. s \in Seq(S) /\ Len(s) = k
  BY <1>1
<1> QED
  BY <1>1, <1>2

\* JSON keeps an update but for the rounding, if no reading is a NaN.
LEMMA JsonUpdate ==
    ASSUME NEW m \in SensorUpdates,
           \A i \in DOMAIN m.sht20 : NaN \notin {m.sht20[i].t, m.sht20[i].rh}
    PROVE  /\ JsonOfUpdate(m) \in ReadUpdates
           /\ UpdateOfJson(JsonOfUpdate(m)) = JsonOfUpdate(m) /\ Same(JsonOfUpdate(m), m)
<1> DEFINE s == [i \in DOMAIN m.sht20 |-> PrintedAmbient(m.sht20[i])]
           p == [i \in DOMAIN m.ds18b20 |-> PrintedProbe(m.ds18b20[i])]
           j == [m EXCEPT !.sht20 = s, !.ds18b20 = p]
<1>1. Readings \subseteq Int /\ Ambients \in Nat /\ Probes \in Nat
  BY ProtoAssumption
<1>2. /\ m.sht20 \in BoundedSeq(AmbientOf(Readings \cup {NaN}), Ambients)
      /\ m.ds18b20 \in BoundedSeq(ProbeOf(Readings), Probes)
  BY DEF SensorUpdates, UpdatesOf
<1>3. /\ Len(m.sht20) \in Nat /\ Len(m.sht20) <= Ambients /\ DOMAIN m.sht20 = 1 .. Len(m.sht20)
      /\ \A i \in DOMAIN m.sht20 : m.sht20[i] \in AmbientOf(Readings \cup {NaN})
  BY <1>1, <1>2, BoundedIsSeq
<1>4. /\ Len(m.ds18b20) \in Nat /\ Len(m.ds18b20) <= Probes /\ DOMAIN m.ds18b20 = 1 .. Len(m.ds18b20)
      /\ \A i \in DOMAIN m.ds18b20 : m.ds18b20[i] \in ProbeOf(Readings)
  BY <1>1, <1>2, BoundedIsSeq
<1>5. ASSUME NEW i \in DOMAIN m.sht20
      PROVE  /\ s[i] \in AmbientOf(Int) /\ s[i].ok = m.sht20[i].ok
             /\ s[i].t - m.sht20[i].t \in -5 .. 5 /\ s[i].rh - m.sht20[i].rh \in -5 .. 5
  <2>1. /\ m.sht20[i].t \in Int /\ m.sht20[i].rh \in Int
        /\ m.sht20[i] \in [t : Readings \cup {NaN}, rh : Readings \cup {NaN}, ok : BOOLEAN]
    BY <1>1, <1>3 DEF AmbientOf
  <2>2. s[i] = [m.sht20[i] EXCEPT !.t = Printed(m.sht20[i].t), !.rh = Printed(m.sht20[i].rh)]
    BY DEF PrintedAmbient
  <2>3. /\ s[i].t = Printed(m.sht20[i].t) /\ s[i].rh = Printed(m.sht20[i].rh)
        /\ s[i].ok = m.sht20[i].ok
    BY <2>1, <2>2
  <2>4. /\ Printed(m.sht20[i].t) \in Int /\ Printed(m.sht20[i].rh) \in Int
        /\ Printed(m.sht20[i].t) - m.sht20[i].t \in -5 .. 5
        /\ Printed(m.sht20[i].rh) - m.sht20[i].rh \in -5 .. 5
    BY <2>1, PrintedNear
  <2>5. s[i] \in AmbientOf(Int)
    BY <2>1, <2>2, <2>4 DEF AmbientOf
  <2> QED
    BY <2>3, <2>4, <2>5
<1>6. ASSUME NEW i \in DOMAIN m.ds18b20
      PROVE  /\ p[i] \in ProbeOf(Int) /\ p[i].rom = m.ds18b20[i].rom
             /\ p[i].t - m.ds18b20[i].t \in -5 .. 5
  <2>1. m.ds18b20[i].t \in Int /\ m.ds18b20[i] \in [rom : Roms, t : Readings]
    BY <1>1, <1>4 DEF ProbeOf
  <2>2. p[i] = [m.ds18b20[i] EXCEPT !.t = Printed(m.ds18b20[i].t)]
    BY DEF PrintedProbe
  <2>3. p[i].t = Printed(m.ds18b20[i].t) /\ p[i].rom = m.ds18b20[i].rom
    BY <2>1, <2>2
  <2>4. Printed(m.ds18b20[i].t) \in Int /\ Printed(m.ds18b20[i].t) - m.ds18b20[i].t \in -5 .. 5
    BY <2>1, PrintedNear
  <2>5. p[i] \in ProbeOf(Int)
    BY <2>1, <2>2, <2>4 DEF ProbeOf
  <2> QED
    BY <2>3, <2>4, <2>5
<1>7. s \in Seq(AmbientOf(Int)) /\ Len(s) = Len(m.sht20) /\ SubSeq(s, 1, Len(s)) = s
  <2>1. s \in [1 .. Len(m.sht20) -> AmbientOf(Int)]
    BY <1>3, <1>5
  <2>2. s \in Seq(AmbientOf(Int)) /\ Len(s) = Len(m.sht20)
    BY <1>3, <2>1
  <2> QED
    BY <2>2, SubSeqFull
<1>8. p \in Seq(ProbeOf(Int)) /\ Len(p) = Len(m.ds18b20) /\ SubSeq(p, 1, Len(p)) = p
  <2>1. p \in [1 .. Len(m.ds18b20) -> ProbeOf(Int)]
    BY <1>4, <1>6
  <2>2. p \in Seq(ProbeOf(Int)) /\ Len(p) = Len(m.ds18b20)
    BY <1>4, <2>1
  <2> QED
    BY <2>2, SubSeqFull
<1>9. DOMAIN s = DOMAIN m.sht20 /\ DOMAIN p = DOMAIN m.ds18b20
  OBVIOUS
<1>10. JsonOfUpdate(m) = j
  BY DEF JsonOfUpdate
<1> HIDE DEF s, p
<1>11. j \in ReadUpdates /\ j.sht20 = s /\ j.ds18b20 = p /\ m.type = "sensor_update"
  BY <1>7, <1>8 DEF SensorUpdates, ReadUpdates, UpdatesOf
<1>12. [j EXCEPT !.sht20 = <<>>, !.ds18b20 = <<>>] = [m EXCEPT !.sht20 = <<>>, !.ds18b20 = <<>>]
  BY DEF SensorUpdates, UpdatesOf
<1>13. UpdateOfJson(j) = j
  <2>1. /\ (IF Len(s) < Ambients THEN Len(s) ELSE Ambients) = Len(s)
        /\ (IF Len(p) < Probes THEN Len(p) ELSE Probes) = Len(p)
    BY <1>1, <1>3, <1>4, <1>7, <1>8
  <2>2. UpdateOfJson(j) = [j EXCEPT !.sht20 = s, !.ds18b20 = p]
    BY <1>7, <1>8, <1>11, <2>1 DEF UpdateOfJson
  <2> QED
    BY <1>11, <2>2 DEF ReadUpdates, UpdatesOf
<1>14. Same(j, m)
  BY <1>5, <1>6, <1>9, <1>11, <1>12 DEF Same
<1> QED
  BY <1>10, <1>11, <1>13, <1>14

\* JSON keeps a command.
LEMMA JsonCommand ==
    ASSUME NEW m \in Commands
    PROVE  CommandOfJson(JsonOfCommand(m)) = m
<1> DEFINE j == JsonOfCommand(m)
<1>1. /\ DOMAIN j = {"type", "seq"} \cup Present(m) /\ j["seq"] = m.seq /\ m.type = "cmd"
      /\ \A k \in Present(m) : j[k] = m[k]
  BY DEF JsonOfCommand, Present, Parts, Commands, CommandsOf
<1>2. \A k \in Parts : Member(j, k) = m[k]
  BY <1>1 DEF Member, Present, Parts
<1>3. /\ Member(j, "set_pwm") = m.set_pwm /\ Member(j, "pwm_freq") = m.pwm_freq
      /\ Member(j, "write_gpio") = m.write_gpio
  BY <1>2 DEF Parts
<1> HIDE DEF j
<1>4. CommandOfJson(j) = [type |-> "cmd", seq |-> m.seq, set_pwm |-> m.set_pwm,
                          pwm_freq |-> m.pwm_freq, write_gpio |-> m.write_gpio]
  BY <1>1, <1>3 DEF CommandOfJson
<1> QED
  BY <1>1, <1>4 DEF Commands, CommandsOf, j

-----------------------------------------------------------------------------
\* A state of the loop of proto_decode_command.
Loop(at, read) == [at |-> at, read |-> read]

\* The first n rounds of the loop of proto_decode_command.
IsLoop(items, n, f) ==
    f = [k \in 0 .. n |-> IF k = 0 THEN [at |-> 1, read |-> NoCommand]
                          ELSE CommandMember(items, f[k - 1])]

\* There is such a function: if not, take the least n for which there is none, and add a round to that
\* of n - 1.
LEMMA LoopExists ==
    ASSUME NEW items, NEW n \in Nat
    PROVE  \E f : IsLoop(items, n, f)
<1> DEFINE T == {k \in Nat : ~ \E f : IsLoop(items, k, f)}
           first == [at |-> 1, read |-> NoCommand]
<1>1. SUFFICES ASSUME T # {} PROVE FALSE
  OBVIOUS
<1>2. PICK k \in T : \A j \in T : k <= j
  BY <1>1, LeastNumber
<1>3. k # 0
  <2> DEFINE f == [i \in 0 .. 0 |-> first]
  <2>1. IsLoop(items, 0, f)
    BY DEF IsLoop
  <2> QED
    BY <2>1
<1>4. PICK g : IsLoop(items, k - 1, g)
  <2>1. k - 1 \in Nat /\ k - 1 \notin T
    BY <1>2, <1>3
  <2> QED
    BY <2>1
<1> DEFINE f == [i \in 0 .. k |-> IF i = k THEN CommandMember(items, g[k - 1]) ELSE g[i]]
<1>5. IsLoop(items, k, f)
  <2>1. k \in Nat \ {0}
    BY <1>3
  <2>2. \A i \in 0 .. k - 1 : g[i] = IF i = 0 THEN first ELSE CommandMember(items, g[i - 1])
    BY <1>4 DEF IsLoop
  <2>3. ASSUME NEW i \in 0 .. k
        PROVE  f[i] = IF i = 0 THEN first ELSE CommandMember(items, f[i - 1])
    <3>1. CASE i = 0
      BY <2>1, <2>2, <3>1
    <3>2. CASE i = k
      <4>1. f[i] = CommandMember(items, g[k - 1]) /\ f[i - 1] = g[k - 1]
        BY <2>1, <3>2
      <4> QED
        BY <2>1, <3>2, <4>1
    <3>3. CASE i # 0 /\ i # k
      <4>1. i \in 0 .. k - 1 /\ i - 1 \in 0 .. k - 1
        BY <2>1, <3>3
      <4>2. f[i] = g[i] /\ f[i - 1] = g[i - 1]
        BY <2>1, <3>3, <4>1
      <4> QED
        BY <2>2, <3>3, <4>1, <4>2
    <3> QED
      BY <3>1, <3>2, <3>3
  <2> DEFINE h == [i \in 0 .. k |-> IF i = 0 THEN first ELSE CommandMember(items, f[i - 1])]
  <2>4. f = h
    <3>1. \A i \in 0 .. k : f[i] = h[i]
      BY <2>3
    <3> QED
      BY <3>1
  <2> QED
    BY <2>4 DEF IsLoop
<1> QED
  BY <1>5

\* The rounds of the loop, as many as there are items, and what it leaves.
IsWalk(items, f) ==
    /\ f[0] = Loop(1, NoCommand)
    /\ \A k \in 1 .. Len(items) : f[k] = CommandMember(items, f[k - 1])

\* The loop ends where its last round leaves it.
LEMMA WalkRounds ==
    ASSUME NEW items, Len(items) \in Nat
    PROVE  \E f : IsWalk(items, f) /\ CommandLoop(items) = f[Len(items)]
<1> DEFINE f == CHOOSE f : IsLoop(items, Len(items), f)
<1>1. IsLoop(items, Len(items), f)
  BY LoopExists
<1>2. CommandLoop(items) = f[Len(items)]
  BY DEF CommandLoop, IsLoop
<1> HIDE DEF f
<1>3. IsWalk(items, f)
  BY <1>1 DEF IsLoop, Loop, IsWalk
<1> QED
  BY <1>2, <1>3

\* A round of the loop at the end of the items changes nothing.
LEMMA EndRound ==
    ASSUME NEW items, Len(items) \in Nat, NEW at \in Nat, NEW read, at > Len(items)
    PROVE  CommandMember(items, Loop(at, read)) = Loop(at, read)
BY DEF CommandMember, Ended, Loop

\* A round at the version or the type goes on to the next key.
LEMMA OtherRound ==
    ASSUME NEW items, Len(items) \in Nat, NEW at \in Nat, NEW read, read # Anything,
           IsText(items, at), items[at].of \in {"v", "type"}
    PROVE  CommandMember(items, Loop(at, read)) = Loop(at + 2, read)
<1>1. ~ Ended(items, Loop(at, read)) /\ Loop(at, read).at = at /\ Loop(at, read).read = read
  BY DEF Ended, IsText, Loop
<1> QED
  BY <1>1 DEF CommandMember, Loop

\* A round at the sequence number reads it.
LEMMA SeqRound ==
    ASSUME NEW items, Len(items) \in Nat, NEW at \in Nat, NEW read, read # Anything,
           IsText(items, at), items[at].of = "seq"
    PROVE  CommandMember(items, Loop(at, read))
             = Loop(at + 2, [read EXCEPT !.seq = items[at + 1].of])
<1>1. ~ Ended(items, Loop(at, read)) /\ Loop(at, read).at = at /\ Loop(at, read).read = read
  BY DEF Ended, IsText, Loop
<1> QED
  BY <1>1 DEF CommandMember, Loop

\* The command read so far, with a part taken in.
Taking(read, key, part) == [read EXCEPT ![key] = part]

\* A round at a part made of numbers reads it, and passes over the key that would follow.
LEMMA PartRound ==
    ASSUME NEW items, Len(items) \in Nat, NEW at \in Nat, NEW read, read # Anything,
           IsText(items, at), NEW key \in {"set_pwm", "pwm_freq"}, items[at].of = key
    PROVE  CommandMember(items, Loop(at, read))
             = Loop(at + 3, Taking(read, key, WalkNumbers(items[at + 1].of)))
<1>1. ~ Ended(items, Loop(at, read)) /\ Loop(at, read).at = at /\ Loop(at, read).read = read
  BY DEF Ended, IsText, Loop
<1> QED
  BY <1>1 DEF CommandMember, Loop, Taking

\* The members of the two parts that are made of numbers.
LEMMA NumbersRead ==
    /\ \A p \in PwmOf(Numbers) :
         WalkNumbers(<<Text("ch"), Number(p.ch), Text("duty"), Number(p.duty)>>) = p
    /\ \A p \in FreqOf(Numbers) : WalkNumbers(<<Text("freq"), Number(p.freq)>>) = p
<1>1. ASSUME NEW p \in PwmOf(Numbers)
      PROVE  WalkNumbers(<<Text("ch"), Number(p.ch), Text("duty"), Number(p.duty)>>) = p
  <2> DEFINE items == <<Text("ch"), Number(p.ch), Text("duty"), Number(p.duty)>>
             Is(i, k) == items[i].kind = "text" /\ items[i].of = k
             At(k) == CHOOSE i \in DOMAIN items : Is(i, k)
             Value(k) == items[1 + At(k)].of
  <2>1. /\ DOMAIN items = 1 .. 4
        /\ items[1] = Text("ch") /\ items[2] = Number(p.ch)
        /\ items[3] = Text("duty") /\ items[4] = Number(p.duty)
    OBVIOUS
  <2> HIDE DEF items
  <2>2. /\ \A i \in DOMAIN items : Is(i, "ch") <=> i = 1
        /\ \A i \in DOMAIN items : Is(i, "duty") <=> i = 3
    BY <2>1 DEF Text, Number
  <2>3. At("ch") = 1 /\ At("duty") = 3
    BY <2>1, <2>2
  <2>4. {items[i].of : i \in {j \in DOMAIN items : j % 2 = 1}} = {"ch", "duty"}
    <3>1. {j \in DOMAIN items : j % 2 = 1} = {1, 3}
      BY <2>1
    <3> QED
      BY <2>1, <3>1 DEF Text
  <2>5. WalkNumbers(items) = [k \in {"ch", "duty"} |-> Value(k)]
    BY <2>4 DEF WalkNumbers
  <2>6. Value("ch") = p.ch /\ Value("duty") = p.duty
    <3> HIDE DEF At
    <3> QED
      BY <2>1, <2>3 DEF Number
  <2> HIDE DEF Value
  <2>7. WalkNumbers(items) = [ch |-> p.ch, duty |-> p.duty]
    BY <2>5, <2>6
  <2> QED
    BY <2>7 DEF PwmOf, items
<1>2. ASSUME NEW p \in FreqOf(Numbers)
      PROVE  WalkNumbers(<<Text("freq"), Number(p.freq)>>) = p
  <2> DEFINE items == <<Text("freq"), Number(p.freq)>>
             Is(i, k) == items[i].kind = "text" /\ items[i].of = k
             At(k) == CHOOSE i \in DOMAIN items : Is(i, k)
             Value(k) == items[1 + At(k)].of
  <2>1. DOMAIN items = 1 .. 2 /\ items[1] = Text("freq") /\ items[2] = Number(p.freq)
    OBVIOUS
  <2> HIDE DEF items
  <2>2. \A i \in DOMAIN items : Is(i, "freq") <=> i = 1
    BY <2>1 DEF Text, Number
  <2>3. At("freq") = 1
    BY <2>1, <2>2
  <2>4. {items[i].of : i \in {j \in DOMAIN items : j % 2 = 1}} = {"freq"}
    <3>1. {j \in DOMAIN items : j % 2 = 1} = {1}
      BY <2>1
    <3> QED
      BY <2>1, <3>1 DEF Text
  <2>5. WalkNumbers(items) = [k \in {"freq"} |-> Value(k)]
    BY <2>4 DEF WalkNumbers
  <2>6. Value("freq") = p.freq
    <3> HIDE DEF At
    <3> QED
      BY <2>1, <2>3 DEF Number
  <2> HIDE DEF Value
  <2>7. WalkNumbers(items) = [freq |-> p.freq]
    BY <2>5, <2>6
  <2> QED
    BY <2>7 DEF FreqOf, items
<1> QED
  BY <1>1, <1>2

\* Six items, or six and two, concatenated: the length, and which item is where.
LEMMA SixAndTwo ==
    ASSUME NEW a, NEW b, NEW c, NEW d, NEW e, NEW f, NEW x, NEW y
    PROVE  LET six == <<a, b, c, d, e, f>>
               two == <<x, y>>
           IN  /\ six \o <<>> = six /\ two \o <<>> = two
               /\ Len(six) = 6 /\ Len(six \o two) = 8
               /\ \A i \in 1 .. 6 : (six \o two)[i] = six[i]
               /\ (six \o two)[7] = x /\ (six \o two)[8] = y
<1> DEFINE six == <<a, b, c, d, e, f>>
           two == <<x, y>>
           S == {a, b, c, d, e, f, x, y}
<1>1. six \in Seq(S) /\ Len(six) = 6
  <2>1. /\ a \in S /\ b \in S /\ c \in S /\ d \in S /\ e \in S /\ f \in S
    OBVIOUS
  <2> HIDE DEF S
  <2> QED
    BY <2>1
<1>2. two \in Seq(S) /\ Len(two) = 2 /\ two[1] = x /\ two[2] = y
  OBVIOUS
<1> HIDE DEF six, two, S
<1>3. six \o <<>> = six /\ two \o <<>> = two
  BY <1>1, <1>2, ConcatEmptySeq
<1>4. /\ Len(six \o two) = 8
      /\ \A i \in 1 .. 8 : (six \o two)[i] = IF i <= 6 THEN six[i] ELSE two[i - 6]
  <2>1. /\ Len(six \o two) = Len(six) + Len(two)
        /\ \A i \in 1 .. Len(six) + Len(two) :
             (six \o two)[i] = IF i <= Len(six) THEN six[i] ELSE two[i - Len(six)]
    BY <1>1, <1>2, ConcatProperties
  <2> QED
    BY <1>1, <1>2, <2>1
<1>5. /\ \A i \in 1 .. 6 : (six \o two)[i] = six[i]
      /\ (six \o two)[7] = x /\ (six \o two)[8] = y
  BY <1>2, <1>4
<1>6. /\ six \o <<>> = six /\ two \o <<>> = two
      /\ Len(six) = 6 /\ Len(six \o two) = 8
      /\ \A i \in 1 .. 6 : (six \o two)[i] = six[i]
      /\ (six \o two)[7] = x /\ (six \o two)[8] = y
  BY <1>1, <1>3, <1>4, <1>5
<1> QED
  BY <1>6 DEF six, two

\* A command of one part, or of none, is six items and the part's two.
LEMMA CommandItems ==
    ASSUME NEW m, NEW x, NEW y
    PROVE  /\ Preamble(m) \o <<>> = Preamble(m) /\ <<x, y>> \o <<>> = <<x, y>>
           /\ Len(Preamble(m)) = 6 /\ Len(Preamble(m) \o <<x, y>>) = 8
           /\ \A i \in 1 .. 6 : (Preamble(m) \o <<x, y>>)[i] = Preamble(m)[i]
           /\ (Preamble(m) \o <<x, y>>)[7] = x /\ (Preamble(m) \o <<x, y>>)[8] = y
BY SixAndTwo DEF Preamble

\* A command with at most one part does not have both of the parts that are made of numbers.
LEMMA OnePart ==
    ASSUME NEW m, Cardinality(Present(m)) <= 1
    PROVE  m.set_pwm = Absent \/ m.pwm_freq = Absent
<1>1. SUFFICES ASSUME m.set_pwm # Absent, m.pwm_freq # Absent PROVE FALSE
  OBVIOUS
<1> DEFINE two == {"set_pwm"} \cup {"pwm_freq"}
<1>2. IsFiniteSet(two) /\ Cardinality(two) = 2
  <2>1. IsFiniteSet({"set_pwm"}) /\ Cardinality({"set_pwm"}) = 1
    BY FS_Singleton
  <2>2. "pwm_freq" \notin {"set_pwm"}
    OBVIOUS
  <2> QED
    BY <2>1, <2>2, FS_AddElement
<1>3. IsFiniteSet(Parts)
  <2>1. Parts = two \cup {"write_gpio"}
    BY DEF Parts
  <2> QED
    BY <1>2, <2>1, FS_AddElement
<1>4. two \in SUBSET Present(m) /\ Present(m) \in SUBSET Parts
  BY <1>1 DEF Present, Parts
<1> HIDE DEF two
<1>5. IsFiniteSet(Present(m)) /\ Cardinality(two) <= Cardinality(Present(m))
  BY <1>3, <1>4, FS_Subset
<1>6. Cardinality(Present(m)) \in Nat
  BY <1>5, FS_CardinalityType
<1> QED
  BY <1>2, <1>5, <1>6

\* What the loop reads is a command all along, so that it is not the marker of a misuse.
LEMMA CommandsAreNotMarkers ==
    ASSUME NEW m \in CommandsOf(Nat)
    PROVE  m # Anything /\ m # Rejected /\ m # Stopped /\ m # Unparsable
BY ProtoAssumption

\* The first three rounds, over the version, the type and the sequence number.
LEMMA PreambleRounds ==
    ASSUME NEW m, NEW items, Len(items) \in Nat, Len(items) >= 6,
           \A i \in 1 .. 6 : items[i] = Preamble(m)[i]
    PROVE  /\ CommandMember(items, Loop(1, NoCommand)) = Loop(3, NoCommand)
           /\ CommandMember(items, Loop(3, NoCommand)) = Loop(5, NoCommand)
           /\ CommandMember(items, Loop(5, NoCommand)) = Loop(7, [NoCommand EXCEPT !.seq = m.seq])
<1>1. /\ items[1] = Text("v") /\ items[3] = Text("type")
      /\ items[5] = Text("seq") /\ items[6] = Number(m.seq)
  BY DEF Preamble
<1>2. NoCommand # Anything
  <2>1. NoCommand \in CommandsOf(Nat)
    BY DEF NoCommand, CommandsOf
  <2> QED
    BY <2>1, CommandsAreNotMarkers
<1>3. /\ IsText(items, 1) /\ items[1].of = "v"
      /\ IsText(items, 3) /\ items[3].of = "type"
      /\ IsText(items, 5) /\ items[5].of = "seq" /\ items[6].of = m.seq
  BY <1>1 DEF IsText, Text, Number
<1>4. CommandMember(items, Loop(1, NoCommand)) = Loop(1 + 2, NoCommand)
  <2>1. 1 \in Nat /\ items[1].of \in {"v", "type"}
    BY <1>3
  <2> QED
    BY <1>2, <1>3, <2>1, OtherRound, Zenon
<1>5. CommandMember(items, Loop(3, NoCommand)) = Loop(3 + 2, NoCommand)
  <2>1. 3 \in Nat /\ items[3].of \in {"v", "type"}
    BY <1>3
  <2> QED
    BY <1>2, <1>3, <2>1, OtherRound, Zenon
<1>6. CommandMember(items, Loop(5, NoCommand))
        = Loop(5 + 2, [NoCommand EXCEPT !.seq = items[5 + 1].of])
  <2>1. 5 \in Nat
    OBVIOUS
  <2> QED
    BY <1>2, <1>3, <2>1, SeqRound, Zenon
<1>7. 1 + 2 = 3 /\ 3 + 2 = 5 /\ 5 + 2 = 7 /\ 5 + 1 = 6
  OBVIOUS
<1> QED
  BY <1>3, <1>4, <1>5, <1>6, <1>7

\* After three rounds the loop is at the seventh item and has read the sequence number.
LEMMA WalksPreamble ==
    ASSUME NEW m, NEW items, Len(items) \in Nat, Len(items) >= 6,
           \A i \in 1 .. 6 : items[i] = Preamble(m)[i],
           NEW f, IsWalk(items, f)
    PROVE  f[3] = Loop(7, [NoCommand EXCEPT !.seq = m.seq])
<1>1. /\ 1 \in 1 .. Len(items) /\ 1 - 1 = 0 /\ 2 \in 1 .. Len(items) /\ 2 - 1 = 1
      /\ 3 \in 1 .. Len(items) /\ 3 - 1 = 2
  OBVIOUS
<1>2. /\ f[1] = CommandMember(items, f[0]) /\ f[2] = CommandMember(items, f[1])
      /\ f[3] = CommandMember(items, f[2])
  BY <1>1 DEF IsWalk
<1> QED
  BY <1>2, PreambleRounds DEF IsWalk

\* At the end the loop stays.
LEMMA LoopStays ==
    ASSUME NEW items, Len(items) \in Nat, NEW n \in 0 .. Len(items), NEW f, IsWalk(items, f),
           NEW at \in Nat, at > Len(items), NEW read, read # Anything,
           f[n] = Loop(at, read)
    PROVE  f[Len(items)] = Loop(at, read)
<1> DEFINE loop == Loop(at, read)
           T == {k \in n .. Len(items) : f[k] # loop}
<1>1. SUFFICES ASSUME T # {} PROVE FALSE
  OBVIOUS
<1>2. PICK k \in T : \A j \in T : k <= j
  <2>1. T \in SUBSET Nat
    OBVIOUS
  <2> HIDE DEF T
  <2> QED
    BY <1>1, <2>1, LeastNumber
<1>3. k # n /\ k \in 1 .. Len(items) /\ k - 1 \in n .. Len(items) /\ k - 1 \notin T
  BY <1>2
<1>4. f[k - 1] = loop
  BY <1>3
<1>5. CommandMember(items, loop) = loop
  BY EndRound
<1>6. f[k] = loop
  BY <1>3, <1>4, <1>5 DEF IsWalk
<1> QED
  BY <1>2, <1>6

\* A command without a part.
LEMMA WalksNoPart ==
    ASSUME NEW m \in Commands
    PROVE  CommandLoop(Preamble(m)) = Loop(7, [NoCommand EXCEPT !.seq = m.seq])
<1> DEFINE items == Preamble(m)
           read == [NoCommand EXCEPT !.seq = m.seq]
<1>1. Len(items) = 6 /\ \A i \in 1 .. 6 : items[i] = Preamble(m)[i]
  BY CommandItems
<1>2. read # Anything
  <2>1. read \in CommandsOf(Nat)
    BY ProtoAssumption DEF NoCommand, Commands, CommandsOf
  <2> HIDE DEF read
  <2> QED
    BY <2>1, CommandsAreNotMarkers
<1> HIDE DEF items
<1>3. PICK f : IsWalk(items, f) /\ CommandLoop(items) = f[Len(items)]
  <2>1. Len(items) \in Nat
    BY <1>1
  <2> QED
    BY <2>1, WalkRounds, Zenon
<1>4. f[3] = Loop(7, read)
  <2>1. Len(items) \in Nat /\ Len(items) >= 6
    BY <1>1
  <2> QED
    BY <1>1, <1>3, <2>1, WalksPreamble, Zenon
<1> HIDE DEF read
<1>5. f[Len(items)] = Loop(7, read)
  <2>1. 3 \in 0 .. Len(items) /\ 7 \in Nat /\ 7 > Len(items) /\ Len(items) \in Nat
    BY <1>1
  <2> QED
    BY <1>2, <1>3, <1>4, <2>1, LoopStays
<1>6. CommandLoop(items) = Loop(7, read)
  BY <1>3, <1>5
<1> QED
  BY <1>6 DEF items, read

\* A command with one of the parts that are made of numbers.
LEMMA WalksPart ==
    ASSUME NEW m \in Commands, NEW key \in {"set_pwm", "pwm_freq"}, NEW part,
           m[key] # Absent, WalkNumbers(part) = m[key]
    PROVE  WalkCommand(Preamble(m) \o <<Text(key), Container(part)>>)
             = Taking([NoCommand EXCEPT !.seq = m.seq], key, m[key])
<1> DEFINE items == Preamble(m) \o <<Text(key), Container(part)>>
           head == [NoCommand EXCEPT !.seq = m.seq]
           read == Taking(head, key, m[key])
<1>1. /\ Len(items) = 8 /\ \A i \in 1 .. 6 : items[i] = Preamble(m)[i]
      /\ items[7] = Text(key) /\ items[8] = Container(part)
  BY CommandItems
<1> HIDE DEF items
<1>2. head # Anything /\ read # Anything
  <2>1. head \in CommandsOf(Nat)
    BY ProtoAssumption DEF NoCommand, Commands, CommandsOf
  <2>2. key = "set_pwm" => m[key] \in PwmOf(Nat)
    BY ProtoAssumption DEF Commands, CommandsOf, PwmOf
  <2>3. key = "pwm_freq" => m[key] \in FreqOf(Nat)
    BY ProtoAssumption DEF Commands, CommandsOf, FreqOf
  <2> HIDE DEF head
  <2>4. read \in CommandsOf(Nat)
    BY <2>1, <2>2, <2>3 DEF CommandsOf, Taking
  <2> HIDE DEF read
  <2> QED
    BY <2>1, <2>4, CommandsAreNotMarkers
<1>3. PICK f : IsWalk(items, f) /\ CommandLoop(items) = f[Len(items)]
  <2>1. Len(items) \in Nat
    BY <1>1
  <2> QED
    BY <2>1, WalkRounds, Zenon
<1>4. f[3] = Loop(7, head)
  <2>1. Len(items) \in Nat /\ Len(items) >= 6
    BY <1>1
  <2> QED
    BY <1>1, <1>3, <2>1, WalksPreamble, Zenon
<1> HIDE DEF head
<1>5. f[4] = Loop(10, read)
  <2>1. 4 \in 1 .. Len(items) /\ 4 - 1 = 3 /\ 7 \in Nat /\ Len(items) \in Nat /\ 7 + 3 = 10 /\ 7 + 1 = 8
    BY <1>1
  <2>2. IsText(items, 7) /\ items[7].of = key /\ items[8].of = part
    BY <1>1 DEF IsText, Text, Container
  <2>3. f[4] = CommandMember(items, Loop(7, head))
    BY <1>3, <1>4, <2>1 DEF IsWalk
  <2>4. CommandMember(items, Loop(7, head))
          = Loop(7 + 3, Taking(head, key, WalkNumbers(items[7 + 1].of)))
    BY <1>2, <2>1, <2>2, PartRound, Zenon
  <2> QED
    BY <2>1, <2>2, <2>3, <2>4
<1> HIDE DEF read
<1>6. f[Len(items)] = Loop(10, read)
  <2>1. 4 \in 0 .. Len(items) /\ 10 \in Nat /\ 10 > Len(items) /\ Len(items) \in Nat
    BY <1>1
  <2>2. read # Anything
    BY <1>2
  <2>3. IsWalk(items, f)
    BY <1>3
  <2> QED
    BY <1>5, <2>1, <2>2, <2>3, LoopStays
<1>7. WalkCommand(items) = read
  BY <1>3, <1>6 DEF WalkCommand, Loop
<1> QED
  BY <1>7 DEF items, read, head

\* CBOR keeps a command to set a duty cycle or the frequency, and does not misuse tinycbor without one.
LEMMA CborSimple ==
    ASSUME NEW m \in Commands, SimpleCommand(m)
    PROVE  /\ WalkCommand(CborOfCommand(m)) = m
           /\ Present(m) = {} => ~Misuses(CborOfCommand(m))
<1>1. m.write_gpio = Absent /\ (m.set_pwm = Absent \/ m.pwm_freq = Absent)
  BY OnePart DEF SimpleCommand
<1>2. CASE m.set_pwm = Absent /\ m.pwm_freq = Absent
  <2>1. CborOfCommand(m) = Preamble(m)
    BY <1>1, <1>2, CommandItems DEF CborOfCommand
  <2>2. [NoCommand EXCEPT !.seq = m.seq] = m
    BY <1>1, <1>2 DEF NoCommand, Commands, CommandsOf
  <2>3. CommandLoop(CborOfCommand(m)) = Loop(7, m) /\ Len(CborOfCommand(m)) = 6
    BY <2>1, <2>2, WalksNoPart, CommandItems
  <2>4. m # Anything
    <3>1. m \in CommandsOf(Nat)
      BY ProtoAssumption DEF Commands, CommandsOf, PwmOf, FreqOf, GpioOf
    <3> QED
      BY <3>1, CommandsAreNotMarkers
  <2> QED
    BY <2>3, <2>4 DEF WalkCommand, Misuses, Loop
<1>3. CASE m.set_pwm # Absent /\ m.pwm_freq = Absent
  <2> DEFINE part == <<Text("ch"), Number(m.set_pwm.ch), Text("duty"), Number(m.set_pwm.duty)>>
             items == Preamble(m) \o <<Text("set_pwm"), Container(part)>>
  <2>1. CborOfCommand(m) = items
    <3>1. CborOfCommand(m) = ((Preamble(m) \o <<Text("set_pwm"), Container(part)>>) \o <<>>) \o <<>>
      BY <1>1, <1>3 DEF CborOfCommand
    <3>2. items \o <<>> = items
      BY CommandItems
    <3> QED
      BY <3>1, <3>2
  <2>2. WalkNumbers(part) = m.set_pwm
    BY <1>3, NumbersRead DEF Commands, CommandsOf
  <2> HIDE DEF part
  <2>3. WalkCommand(items) = Taking([NoCommand EXCEPT !.seq = m.seq], "set_pwm", m.set_pwm)
    BY <1>3, <2>2, WalksPart
  <2>4. Taking([NoCommand EXCEPT !.seq = m.seq], "set_pwm", m.set_pwm) = m
    <3> DEFINE r == [type |-> "cmd", seq |-> m.seq, set_pwm |-> m.set_pwm, pwm_freq |-> Absent,
                     write_gpio |-> Absent]
    <3>1. Taking([NoCommand EXCEPT !.seq = m.seq], "set_pwm", m.set_pwm) = r
      <4> DEFINE head == [type |-> "cmd", seq |-> m.seq, set_pwm |-> Absent, pwm_freq |-> Absent,
                          write_gpio |-> Absent]
      <4>1. [NoCommand EXCEPT !.seq = m.seq] = head
        BY DEF NoCommand
      <4>2. Taking(head, "set_pwm", m.set_pwm) = r
        BY DEF Taking
      <4> QED
        BY <4>1, <4>2
    <3>2. m = r
      BY <1>1, <1>3 DEF Commands, CommandsOf
    <3> QED
      BY <3>1, <3>2
  <2>5. "set_pwm" \in Present(m)
    BY <1>3 DEF Present, Parts
  <2> QED
    BY <2>1, <2>3, <2>4, <2>5
<1>4. CASE m.set_pwm = Absent /\ m.pwm_freq # Absent
  <2> DEFINE part == <<Text("freq"), Number(m.pwm_freq.freq)>>
             items == Preamble(m) \o <<Text("pwm_freq"), Container(part)>>
  <2>1. CborOfCommand(m) = items
    <3>1. CborOfCommand(m) = ((Preamble(m) \o <<>>) \o <<Text("pwm_freq"), Container(part)>>) \o <<>>
      BY <1>1, <1>4 DEF CborOfCommand
    <3>2. Preamble(m) \o <<>> = Preamble(m) /\ items \o <<>> = items
      BY CommandItems
    <3> QED
      BY <3>1, <3>2
  <2>2. WalkNumbers(part) = m.pwm_freq
    BY <1>4, NumbersRead DEF Commands, CommandsOf
  <2> HIDE DEF part
  <2>3. WalkCommand(items) = Taking([NoCommand EXCEPT !.seq = m.seq], "pwm_freq", m.pwm_freq)
    BY <1>4, <2>2, WalksPart
  <2>4. Taking([NoCommand EXCEPT !.seq = m.seq], "pwm_freq", m.pwm_freq) = m
    <3> DEFINE r == [type |-> "cmd", seq |-> m.seq, set_pwm |-> Absent, pwm_freq |-> m.pwm_freq,
                     write_gpio |-> Absent]
    <3>1. Taking([NoCommand EXCEPT !.seq = m.seq], "pwm_freq", m.pwm_freq) = r
      <4> DEFINE head == [type |-> "cmd", seq |-> m.seq, set_pwm |-> Absent, pwm_freq |-> Absent,
                          write_gpio |-> Absent]
      <4>1. [NoCommand EXCEPT !.seq = m.seq] = head
        BY DEF NoCommand
      <4>2. Taking(head, "pwm_freq", m.pwm_freq) = r
        BY DEF Taking
      <4> QED
        BY <4>1, <4>2
    <3>2. m = r
      BY <1>1, <1>4 DEF Commands, CommandsOf
    <3> QED
      BY <3>1, <3>2
  <2>5. "pwm_freq" \in Present(m)
    BY <1>4 DEF Present, Parts
  <2> QED
    BY <2>1, <2>3, <2>4, <2>5
<1> QED
  BY <1>1, <1>2, <1>3, <1>4

-----------------------------------------------------------------------------
\* What is decoded of a payload that arrived whole, when it is the one that was encoded.
LEMMA DecodedRight ==
    ASSUME msg \in SensorUpdates \cup Commands, cbor \in BOOLEAN, payload = Encoded
    PROVE  /\ ~cbor => IF AllRead(msg) THEN Decoded # Rejected /\ Same(Decoded, msg)
                       ELSE Decoded = Rejected
           /\ cbor /\ SimpleCommand(msg) =>
                Same(Decoded, msg) \/ (asserts /\ Present(msg) # {} /\ Decoded = Stopped)
<1>1. /\ \A m \in SensorUpdates : m.type = "sensor_update"
      /\ \A m \in Commands : m.type = "cmd"
  BY DEF SensorUpdates, UpdatesOf, Commands, CommandsOf
<1>2. CASE msg \in SensorUpdates /\ ~cbor
  <2>1. payload = JsonOfUpdate(msg)
    BY <1>1, <1>2 DEF Encoded
  <2>2. CASE AllRead(msg)
    <3>1. /\ JsonOfUpdate(msg) \in ReadUpdates
          /\ UpdateOfJson(JsonOfUpdate(msg)) = JsonOfUpdate(msg) /\ Same(JsonOfUpdate(msg), msg)
      BY <1>1, <1>2, <2>2, JsonUpdate DEF AllRead
    <3>2. payload # Unparsable /\ payload # Rejected
      BY <2>1, <3>1, ProtoAssumption
    <3>3. Decoded = JsonOfUpdate(msg)
      BY <1>1, <1>2, <2>1, <3>1, <3>2 DEF Decoded
    <3> QED
      BY <1>2, <2>1, <2>2, <3>1, <3>2, <3>3
  <2>3. CASE ~AllRead(msg)
    <3>1. payload = Unparsable
      BY <1>1, <1>2, <2>1, <2>3 DEF AllRead, JsonOfUpdate
    <3> QED
      BY <1>2, <2>3, <3>1 DEF Decoded
  <2> QED
    BY <2>2, <2>3
<1>3. CASE msg \in Commands /\ ~cbor
  <2>1. msg.type = "cmd" /\ msg.type # "sensor_update" /\ AllRead(msg)
    BY <1>1, <1>3 DEF AllRead
  <2>2. payload = JsonOfCommand(msg) /\ payload # Unparsable
    BY <1>3, <2>1, ParsableAssumption DEF Encoded
  <2>3. Decoded = msg
    BY <1>3, <2>1, <2>2, JsonCommand DEF Decoded
  <2>4. msg # Rejected
    <3>1. msg \in CommandsOf(Nat)
      BY <1>3, ProtoAssumption DEF Commands, CommandsOf, PwmOf, FreqOf, GpioOf
    <3> QED
      BY <3>1, CommandsAreNotMarkers
  <2>5. Same(Decoded, msg)
    BY <2>1, <2>3 DEF Same
  <2> QED
    BY <1>3, <2>1, <2>3, <2>4, <2>5
<1>4. CASE msg \in Commands /\ cbor
  <2>1. msg.type = "cmd" /\ msg.type # "sensor_update"
    BY <1>1, <1>4
  <2>2. payload = CborOfCommand(msg)
    BY <1>4, <2>1 DEF Encoded
  <2>3. Decoded = IF Misuses(payload) /\ asserts THEN Stopped ELSE WalkCommand(payload)
    BY <1>4, <2>1 DEF Decoded
  <2> SUFFICES ASSUME SimpleCommand(msg)
               PROVE  Same(Decoded, msg) \/ (asserts /\ Present(msg) # {} /\ Decoded = Stopped)
    BY <1>4
  <2>4. WalkCommand(payload) = msg /\ (Present(msg) = {} => ~Misuses(payload))
    BY <1>4, <2>2, CborSimple
  <2>5. CASE Misuses(payload) /\ asserts
    BY <2>3, <2>4, <2>5
  <2>6. CASE ~(Misuses(payload) /\ asserts)
    BY <2>1, <2>3, <2>4, <2>6 DEF Same
  <2> QED
    BY <2>5, <2>6
<1>5. CASE msg \in SensorUpdates /\ cbor
  BY <1>1, <1>5 DEF SimpleCommand
<1> QED
  BY <1>2, <1>3, <1>4, <1>5

\* The inductive invariant holds of a message that was built, ...
LEMMA ProtoInit_Inv == ProtoInit => ProtoInv
BY DEF ProtoInit, ProtoInv, NeverMisread

\* ... and encoding, damage and decoding preserve it.
LEMMA ProtoNext_Inv == ProtoInv /\ [ProtoNext]_protoVars => ProtoInv'
<1> SUFFICES ASSUME ProtoInv, [ProtoNext]_protoVars PROVE ProtoInv'
  OBVIOUS
<1>1. CASE Encodes
  <2>1. Encoded' = Encoded
    BY <1>1 DEF Encodes, Encoded
  <2> QED
    BY <1>1, <2>1 DEF ProtoInv, NeverMisread, Encodes
<1>2. CASE Damages
  <2>1. Encoded' = Encoded
    BY <1>2 DEF Damages, Encoded
  <2> QED
    BY <1>2, <2>1 DEF ProtoInv, NeverMisread, Damages
<1>3. CASE Decodes
  <2>1. /\ msg' = msg /\ cbor' = cbor /\ asserts' = asserts /\ crc' = crc /\ damaged' = damaged
        /\ msg \in SensorUpdates \cup Commands /\ cbor \in BOOLEAN /\ asserts \in {FALSE, cbor}
        /\ payload = Encoded /\ stage' = "decoded"
    BY <1>3 DEF Decodes, ProtoInv
  <2>2. out' = IF ~Checks(crc) THEN Rejected ELSE IF damaged THEN Anything ELSE Decoded
    BY <1>3 DEF Decodes
  <2>3. damaged => out' = Rejected \/ crc = 0
    BY <2>2 DEF Checks
  <2>4. ~damaged => out' = Decoded
    BY <2>2 DEF Checks
  <2>5. /\ ~cbor => IF AllRead(msg) THEN Decoded # Rejected /\ Same(Decoded, msg)
                    ELSE Decoded = Rejected
        /\ cbor /\ SimpleCommand(msg) =>
             Same(Decoded, msg) \/ (asserts /\ Present(msg) # {} /\ Decoded = Stopped)
    BY <2>1, DecodedRight
  <2>6. NeverMisread'
    BY <2>1, <2>3, <2>4, <2>5 DEF NeverMisread
  <2> QED
    BY <2>1, <2>6 DEF ProtoInv
<1>4. CASE UNCHANGED protoVars
  BY <1>4 DEF ProtoInv, NeverMisread, Encoded, protoVars
<1> QED
  BY <1>1, <1>2, <1>3, <1>4 DEF ProtoNext

\* What is on its way is what was encoded, and what was decoded of it is right (messages.c).
THEOREM ProtoInvariant == ProtoSpec => []ProtoInv
<1> QED
  BY ProtoInit_Inv, ProtoNext_Inv, PTL DEF ProtoSpec

\* A message is never misread, whatever the numbers, readings and ROM codes in it and however many
\* sensors there are (proto_decode_command, proto_decode_sensor_update).
THEOREM NeverMisreadHolds == ProtoSpec => []NeverMisread
<1>1. ProtoInv => NeverMisread
  BY DEF ProtoInv
<1> QED
  BY <1>1, ProtoInvariant, PTL
=============================================================================
