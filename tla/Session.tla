------------------------------- MODULE Session -------------------------------
(***************************************************************************)
(* What the encrypted link promises of a session.  Each end takes frames   *)
(* in the order of their numbers and none twice; a frame that is sent is   *)
(* newer than those before it, so that none is taken for a replay; and a   *)
(* session lasts until the network fails.  The exception is a session that *)
(* was spoiled before its first command: the numbers of its commands may   *)
(* be any, and the sensor may end it.                                      *)
(***************************************************************************)
EXTENDS Naturals, Sequences

CONSTANT Numbers

VARIABLES
    up,                       \* the network carries sessions
    open, spoiled,            \* there is a session, and it was spoiled
    toSensor, toHmi,          \* the numbers of the frames on their way
    sensorHeard, hmiHeard     \* the number each end took last

vars == <<up, open, spoiled, toSensor, toHmi, sensorHeard, hmiHeard>>

Init ==
    /\ up = TRUE /\ open = FALSE /\ spoiled = FALSE
    /\ toSensor = <<>> /\ toHmi = <<>> /\ sensorHeard = 0 /\ hmiHeard = 0

Newer(n, way, heard) == n > heard /\ \A i \in DOMAIN way : n > way[i]

Opens ==
    /\ up /\ ~open /\ open' = TRUE /\ spoiled' \in BOOLEAN
    /\ UNCHANGED <<up, toSensor, toHmi, sensorHeard, hmiHeard>>

Spoils ==
    /\ open /\ toSensor = <<>> /\ sensorHeard = 0
    /\ spoiled' = TRUE
    /\ UNCHANGED <<up, open, toSensor, toHmi, sensorHeard, hmiHeard>>

SendsCommand(n) ==
    /\ open /\ (spoiled \/ Newer(n, toSensor, sensorHeard))
    /\ toSensor' = Append(toSensor, n)
    /\ UNCHANGED <<up, open, spoiled, toHmi, sensorHeard, hmiHeard>>

TakesCommand ==
    /\ toSensor # <<>> /\ Head(toSensor) > sensorHeard
    /\ sensorHeard' = Head(toSensor) /\ toSensor' = Tail(toSensor)
    /\ UNCHANGED <<up, open, spoiled, toHmi, hmiHeard>>

SendsUpdate(n) ==
    /\ open /\ Newer(n, toHmi, hmiHeard)
    /\ toHmi' = Append(toHmi, n)
    /\ UNCHANGED <<up, open, spoiled, toSensor, sensorHeard, hmiHeard>>

TakesUpdate ==
    /\ toHmi # <<>> /\ Head(toHmi) > hmiHeard
    /\ hmiHeard' = Head(toHmi) /\ toHmi' = Tail(toHmi)
    /\ UNCHANGED <<up, open, spoiled, toSensor, sensorHeard>>

\* What was on its way is lost, and the numbers start again.
Ends ==
    /\ open' = FALSE /\ spoiled' = FALSE
    /\ toSensor' = <<>> /\ toHmi' = <<>> /\ sensorHeard' = 0 /\ hmiHeard' = 0

Refuses == spoiled /\ Ends /\ UNCHANGED up

Fails == up /\ up' = FALSE /\ Ends

Recovers ==
    /\ ~up /\ up' = TRUE
    /\ UNCHANGED <<open, spoiled, toSensor, toHmi, sensorHeard, hmiHeard>>

Next ==
    \/ Opens \/ Spoils \/ TakesCommand \/ TakesUpdate \/ Refuses \/ Fails \/ Recovers
    \/ \E n \in Numbers : SendsCommand(n) \/ SendsUpdate(n)

Spec == Init /\ [][Next]_vars
=============================================================================
