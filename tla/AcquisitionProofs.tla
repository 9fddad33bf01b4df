-------------------------- MODULE AcquisitionProofs --------------------------
(***************************************************************************)
(* Proofs about Acquisition, for any boards, thresholds, numbers of        *)
(* attempts, ROM codes, size of the device list, durations and width of    *)
(* the tick counter, and any number of faults.                             *)
(***************************************************************************)
EXTENDS Acquisition, FiniteSetTheorems, SequenceTheorems, TLAPS

Bus == [driver : BOOLEAN, failures : 0 .. (FailureWrap - 1)]
Task == [at : AmbientSteps \cup OneWireSteps, sensor : Sensor \cup {1},
         quantity : Quantities, attempt : 0 .. (ShtRetries - 1)]
AmbientEntry == [valid : BOOLEAN, from : SUBSET Channels, slipped : BOOLEAN]

-----------------------------------------------------------------------------
\* The constants.
LEMMA Sizes ==
    /\ \A b \in Boards : /\ b.ambients \in Nat /\ b.mux \in BOOLEAN
                         /\ b.ambients > 1 => b.mux
                         /\ b.roms \subseteq Range(Roms)
    /\ RecoverThreshold \in Nat /\ FailureWrap \in Nat \ {0}
    /\ ShtRetries \in Nat /\ ShtRetries >= 1 /\ 0 \in 0 .. (ShtRetries - 1)
    /\ Roms \in Seq(Range(Roms)) /\ IsInjective(Roms)
    /\ Len(Roms) \in Nat /\ DOMAIN Roms = 1 .. Len(Roms)
    /\ MaxDevices \in Nat /\ MaxDevices >= 1
    /\ MaxFaults \in Nat
<1>1. Roms \in Seq(STRING)
  BY AcquisitionAssumption
<1>2. Len(Roms) \in Nat /\ DOMAIN Roms = 1 .. Len(Roms) /\ Roms = [i \in 1 .. Len(Roms) |-> Roms[i]]
  BY <1>1, LenProperties
<1>3. Roms \in [1 .. Len(Roms) -> Range(Roms)]
  BY <1>2 DEF Range
<1>4. Roms \in Seq(Range(Roms))
  BY <1>2, <1>3
<1>5. FailureWrap \in Nat \ {0} /\ 0 \in 0 .. (ShtRetries - 1)
  BY AcquisitionAssumption
<1> QED
  BY <1>2, <1>4, <1>5, AcquisitionAssumption

\* The durations.
LEMMA Durations ==
    /\ ConvTicks \in Nat /\ ConvTicks >= 1 /\ MaxRound \in Nat
    /\ TickWrap \in Nat \ {0} /\ 2 * ConvTicks + 2 * MaxRound <= TickWrap
    /\ ScanTicks \in Nat /\ 0 \in 0 .. (TickWrap - 1) /\ ConvTicks < TickWrap
BY AcquisitionAssumption

\* A sum modulo the width of the tick counter.
LEMMA TickSum ==
    ASSUME NEW W \in Nat \ {0}, NEW a \in Nat
    PROVE  a % W \in 0 .. (W - 1)
OBVIOUS

\* After d of r ticks, r - d are left.
LEMMA TicksLeft ==
    ASSUME NEW W \in Nat \ {0}, NEW t \in 0 .. (W - 1), NEW r \in Nat, NEW d \in Nat, d <= r, r < W
    PROVE  (((t + d) % W) + (r - d)) % W = (t + r) % W
<1>1. CASE t + d < W
  <2>1. (t + d) % W = t + d
    BY <1>1
  <2> QED
    BY <2>1
<1>2. CASE t + d >= W
  <2>1. (t + d) % W = t + d - W
    BY <1>2
  <2>2. (t + r) % W = t + r - W /\ (t + r - W) % W = t + r - W
    BY <1>2
  <2> QED
    BY <2>1, <2>2
<1> QED
  BY <1>1, <1>2

\* What was to be done in r ticks, less than half the range, is not over.
LEMMA NotYet ==
    ASSUME NEW W \in Nat \ {0}, NEW t \in 0 .. (W - 1), NEW r \in Nat, r >= 1, 2 * r <= W,
           NEW ends, ends = (t + r) % W
    PROVE  ~((t - ends) % W < W \div 2)
<1>1. r < W
  OBVIOUS
<1>2. CASE t + r < W
  <2>1. (t + r) % W = t + r
    BY <1>2
  <2>2. (t - (t + r)) % W = W - r
    BY <1>1, <1>2
  <2> QED
    BY <2>1, <2>2
<1>3. CASE t + r >= W
  <2>1. (t + r) % W = t + r - W
    BY <1>1, <1>3
  <2>2. (t - (t + r - W)) % W = W - r
    BY <1>1, <1>3
  <2> QED
    BY <2>1, <2>2
<1> QED
  BY <1>2, <1>3

-----------------------------------------------------------------------------
(***************************************************************************)
(* The search of the 1-Wire bus.                                           *)
(***************************************************************************)

\* The places of the devices are ranked 0, 1, ... without gaps.
LEMMA Ranks ==
    /\ IsFiniteSet(Found) /\ Cardinality(Found) \in Nat
    /\ \A i \in 1 .. Cardinality(Found) : \E p \in Found : Rank(p) = i - 1
<1> DEFINE N == Cardinality(Found)
           Below(p) == {q \in Found : q < p}
<1>1. Found \subseteq 1 .. Len(Roms) /\ Len(Roms) \in Nat
  BY Sizes DEF Found
<1>2. IsFiniteSet(1 .. Len(Roms))
  <2>1. 1 \in Int /\ Len(Roms) \in Int
    BY <1>1
  <2> QED
    BY <2>1, FS_Interval, Zenon
<1>3. IsFiniteSet(Found) /\ N \in Nat
  BY <1>1, <1>2, FS_Subset, FS_CardinalityType
<1>4. ASSUME NEW p \in Found PROVE Rank(p) \in 0 .. (N - 1) /\ IsFiniteSet(Below(p))
  <2>1. IsFiniteSet(Found \ {p}) /\ Cardinality(Found \ {p}) = N - 1
    BY <1>3, FS_RemoveElement
  <2>2. Below(p) \subseteq Found \ {p}
    BY <1>1
  <2>3. IsFiniteSet(Below(p)) /\ Cardinality(Below(p)) <= N - 1 /\ Cardinality(Below(p)) \in Nat
    BY <2>1, <2>2, FS_Subset, FS_CardinalityType
  <2> QED
    BY <1>3, <2>3 DEF Rank
<1>5. ASSUME NEW p \in Found, NEW q \in Found, p < q PROVE Rank(p) # Rank(q)
  <2>1. Below(p) \subseteq Below(q) /\ p \in Below(q) /\ p \notin Below(p)
    <3>1. p \in Int /\ q \in Int /\ \A x \in Found : x \in Int
      BY <1>1
    <3>2. \A x \in Found : x < p => x < q
      BY <1>5, <3>1
    <3>3. ~(p < p)
      BY <3>1
    <3> QED
      BY <1>5, <3>2, <3>3
  <2>2. IsFiniteSet(Below(q)) /\ (Cardinality(Below(q)) = Cardinality(Below(p)) => Below(q) = Below(p))
    BY <1>4, <2>1, FS_Subset
  <2>3. Rank(p) = Cardinality(Below(p)) /\ Rank(q) = Cardinality(Below(q))
    BY DEF Rank
  <2> HIDE DEF Below
  <2> QED
    BY <2>1, <2>2, <2>3
<1> DEFINE f == [p \in Found |-> Rank(p)]
<1>6. f \in Injection(Found, 0 .. (N - 1))
  <2>1. f \in [Found -> 0 .. (N - 1)]
    BY <1>4
  <2>2. \A p, q \in Found : f[p] = f[q] => p = q
    <3>1. \A p, q \in Found : Rank(p) = Rank(q) => ~(p < q) /\ ~(q < p)
      BY <1>5
    <3> QED
      BY <1>1, <3>1
  <2> QED
    BY <2>1, <2>2 DEF Injection, IsInjective
<1>7. IsFiniteSet(0 .. (N - 1)) /\ Cardinality(0 .. (N - 1)) = N
  <2>1. /\ 0 \in Int /\ N - 1 \in Int
        /\ (IF 0 > N - 1 THEN 0 ELSE (N - 1) - 0 + 1) = N
    BY <1>3
  <2> HIDE DEF N
  <2> QED
    BY <2>1, FS_Interval
<1>8. f \in Surjection(Found, 0 .. (N - 1))
  BY <1>6, <1>7, FS_Injection
<1>9. ASSUME NEW i \in 1 .. N PROVE \E p \in Found : Rank(p) = i - 1
  <2>1. i - 1 \in 0 .. (N - 1)
    BY <1>3
  <2> QED
    BY <1>8, <2>1 DEF Surjection
<1> QED
  BY <1>3, <1>9

\* What the list of devices is.
IsList(s) == s \in Seq(Range(Roms)) /\ Len(s) <= MaxDevices /\ IsInjective(s)

\* The search finds devices that are there, each once, and no more than the list holds.
LEMMA SearchFinds ==
    IsList(Search) /\ \A i \in DOMAIN Search : Search[i] \in attached
<1> DEFINE N == IF Cardinality(Found) < MaxDevices THEN Cardinality(Found) ELSE MaxDevices
           At0(i) == CHOOSE p \in Found : Rank(p) = i - 1
<1>1. N \in Nat /\ N <= MaxDevices /\ \A i \in 1 .. N : i \in 1 .. Cardinality(Found)
  BY Ranks, Sizes
<1>2. \A i \in 1 .. N : At0(i) \in Found /\ Rank(At0(i)) = i - 1
  BY <1>1, Ranks
<1>3. Search = [i \in 1 .. N |-> Roms[At0(i)]]
  BY DEF Search
<1> HIDE DEF N, At0
<1>4. \A i \in 1 .. N : Search[i] \in Range(Roms) /\ Search[i] \in attached
  BY <1>2, <1>3 DEF Found, Range
<1>5. Search \in Seq(Range(Roms)) /\ Len(Search) = N /\ DOMAIN Search = 1 .. N
  <2>1. Search \in [1 .. N -> Range(Roms)]
    BY <1>3, <1>4
  <2> QED
    BY <1>1, <1>3, <2>1
<1>6. IsInjective(Search)
  <2> SUFFICES ASSUME NEW a \in 1 .. N, NEW b \in 1 .. N, Search[a] = Search[b] PROVE a = b
    BY <1>5 DEF IsInjective
  <2>1. Roms[At0(a)] = Roms[At0(b)] /\ At0(a) \in DOMAIN Roms /\ At0(b) \in DOMAIN Roms
    BY <1>2, <1>3 DEF Found
  <2>2. At0(a) = At0(b)
    BY <2>1, Sizes DEF IsInjective
  <2>3. a - 1 = b - 1
    BY <1>2, <2>2
  <2> QED
    BY <1>1, <2>3
<1> QED
  BY <1>1, <1>4, <1>5, <1>6 DEF IsList

\* A search that ends early finds a part of it.
LEMMA PrefixIsList ==
    ASSUME NEW s, IsList(s), NEW p \in Prefixes(s)
    PROVE  IsList(p)
<1>1. PICK l \in 0 .. Len(s) : p = SubSeq(s, 1, l)
  BY DEF Prefixes
<1>2. s \in Seq(Range(Roms)) /\ Len(s) \in Nat /\ DOMAIN s = 1 .. Len(s) /\ l \in Nat
  BY LenProperties DEF IsList
<1>3. /\ p \in Seq(Range(Roms)) /\ Len(p) = l
      /\ \A i \in 1 .. l : p[i] = s[i] /\ i \in DOMAIN s
  <2>1. \A i \in 1 .. Len(s) : s[i] \in Range(Roms)
    BY <1>2, ElementOfSeq
  <2>2. p = [i \in 1 .. l |-> s[i]]
    BY <1>1, <1>2
  <2>3. p \in [1 .. l -> Range(Roms)] /\ \A i \in 1 .. l : i \in 1 .. Len(s)
    BY <1>2, <2>1, <2>2
  <2> QED
    BY <1>2, <2>2, <2>3
<1>4. Len(p) <= MaxDevices
  BY <1>1, <1>2, <1>3, Sizes DEF IsList
<1>5. IsInjective(p)
  <2>1. DOMAIN p = 1 .. l
    BY <1>3, LenProperties
  <2> QED
    BY <1>3, <2>1 DEF IsInjective, IsList
<1> QED
  BY <1>3, <1>4, <1>5 DEF IsList

-----------------------------------------------------------------------------
(***************************************************************************)
(* The transfers of the I2C bus.                                           *)
(***************************************************************************)

Outcome(answers) == {t \in [ok : BOOLEAN, bus : Bus] : t.ok => answers}

\* The counter of failures stays in its byte.
LEMMA BeginsType ==
    ASSUME NEW b \in Bus, NEW done \in BOOLEAN, NEW installs \in BOOLEAN
    PROVE  Begins(b, done, installs) \in Bus
<1> DEFINE n == (b.failures + 1) % FailureWrap
<1>1. n \in 0 .. (FailureWrap - 1) /\ 0 \in 0 .. (FailureWrap - 1)
  BY Sizes DEF Bus
<1>2. b.driver \in BOOLEAN
  BY DEF Bus
<1> HIDE DEF n
<1>3. /\ [driver |-> TRUE, failures |-> 0] \in Bus
      /\ [b EXCEPT !.failures = n] \in Bus
      /\ [driver |-> installs, failures |-> IF installs THEN 0 ELSE n] \in Bus
  BY <1>1 DEF Bus
<1>4. CASE b.driver /\ done
  BY <1>3, <1>4 DEF Begins
<1>5. CASE ~(b.driver /\ done) /\ n < RecoverThreshold
  BY <1>3, <1>5 DEF Begins, n
<1>6. CASE ~(b.driver /\ done) /\ ~(n < RecoverThreshold)
  BY <1>3, <1>6 DEF Begins, n
<1> QED
  BY <1>4, <1>5, <1>6

\* A transfer succeeds only with a device that answers.
LEMMA AttemptsType ==
    ASSUME NEW answers \in BOOLEAN, NEW S \in SUBSET Outcome(answers)
    PROVE  Attempts(answers, S) \in SUBSET Outcome(answers)
<1> SUFFICES ASSUME NEW t \in Attempts(answers, S) PROVE t \in Outcome(answers)
  OBVIOUS
<1>1. CASE t \in S
  BY <1>1
<1>2. ASSUME NEW s \in S, NEW done \in BOOLEAN, NEW installs \in BOOLEAN, ~answers => ~done,
             t = [ok |-> s.bus.driver /\ done, bus |-> Begins(s.bus, done, installs)]
      PROVE  t \in Outcome(answers)
  <2>1. s.bus \in Bus
    BY DEF Outcome
  <2>2. s.bus.driver \in BOOLEAN /\ Begins(s.bus, done, installs) \in Bus
    BY <2>1, BeginsType DEF Bus
  <2> QED
    BY <1>2, <2>2 DEF Outcome
<1>3. CASE t \notin S
  <2> DEFINE Failed == {x \in S : ~x.ok}
             Done == IF ~answers THEN {FALSE} ELSE {TRUE} \cup (IF line THEN {} ELSE {FALSE})
             Installs == {TRUE} \cup (IF line THEN {} ELSE {FALSE})
             Ends(s, done, installs) ==
               [ok |-> s.bus.driver /\ done, bus |-> Begins(s.bus, done, installs)]
             After == {Ends(s, done, installs) : s \in Failed, done \in Done, installs \in Installs}
  <2>0. t \in After
    <3>1. Attempts(answers, S) = {s \in S : s.ok} \cup After
      BY DEF Attempts
    <3> HIDE DEF After
    <3> QED
      BY <1>3, <3>1
  <2> HIDE DEF Failed, Done, Installs, Ends
  <2>1. PICK s \in Failed, done \in Done, installs \in Installs : t = Ends(s, done, installs)
    BY <2>0
  <2> USE DEF Failed, Done, Installs, Ends
  <2>2. s \in S /\ done \in BOOLEAN /\ installs \in BOOLEAN /\ (~answers => ~done)
    OBVIOUS
  <2> QED
    BY <1>2, <2>1, <2>2
<1> QED
  BY <1>1, <1>3

\* What i2c_master_cmd may leave and return.
LEMMA TransfersType ==
    ASSUME bus \in Bus, NEW answers \in BOOLEAN, NEW t \in Transfers(answers)
    PROVE  t.bus \in Bus /\ t.ok \in BOOLEAN /\ (t.ok => answers)
<1>1. {[ok |-> FALSE, bus |-> bus]} \in SUBSET Outcome(answers)
  BY DEF Outcome
<1>2. t \in Outcome(answers)
  BY <1>1, AttemptsType DEF Transfers
<1> QED
  BY <1>2 DEF Outcome

-----------------------------------------------------------------------------
(***************************************************************************)
(* The steps, by what they do to each part of the state.                   *)
(***************************************************************************)

\* The task of the sensors is at one place, and serves a sensor of the board.
LEMMA TaskFacts ==
    ASSUME AcquisitionTypeOK, SensorServed
    PROVE  /\ board \in Boards /\ board.ambients \in Nat /\ board.mux \in BOOLEAN
           /\ board.ambients > 1 => board.mux
           /\ task \in Task /\ bus \in Bus /\ ambient \in [Sensor -> AmbientEntry]
           /\ Answers \in BOOLEAN
           /\ \A a \in AmbientSteps : At(a) => task.sensor \in Sensor /\ task.sensor \in Channels
           /\ \A o \in OneWireSteps : At(o) => task.sensor = 1
<1>1. board \in Boards /\ board.ambients \in Nat /\ board.mux \in BOOLEAN
  BY Sizes DEF AcquisitionTypeOK
<1>2. board.ambients > 1 => board.mux
  BY <1>1, Sizes
<1>3. task \in Task /\ bus \in Bus /\ ambient \in [Sensor -> AmbientEntry]
  BY DEF AcquisitionTypeOK, Task, Bus, AmbientEntry
<1>4. \A a \in AmbientSteps : At(a) => task.sensor \in Sensor /\ task.sensor \in Channels
  BY DEF SensorServed, At, Channels
<1>5. \A o \in OneWireSteps : At(o) => task.sensor = 1
  BY DEF SensorServed, At, OneWireSteps, AmbientSteps
<1> QED
  BY <1>1, <1>2, <1>3, <1>4, <1>5 DEF Answers

\* A channel that is selected is the cached one, and connected.
LEMMA SelectsDoes ==
    ASSUME AcquisitionTypeOK, CacheTrue, board' = board, NEW c \in Sensor, NEW next, Selects(c, next)
    PROVE  /\ task' = next /\ Selected(c)' /\ CacheTrue'
           /\ bus' \in Bus /\ mux' \in Channels /\ cache' \in Channels /\ slipped' \in BOOLEAN
<1>1. /\ bus \in Bus /\ mux \in Channels /\ cache \in Channels /\ slipped \in BOOLEAN
      /\ c \in Channels /\ c # None /\ board.ambients \in Nat
  BY Sizes DEF AcquisitionTypeOK, Bus, Channels, Sensor, None
<1>2. CASE Selected(c) /\ UNCHANGED <<bus, mux, cache, slipped>> /\ task' = next
  BY <1>1, <1>2 DEF Selected, CacheTrue
<1>3. CASE /\ ~Selected(c) /\ \E t \in Transfers(TRUE) : t.ok /\ bus' = t.bus
           /\ mux' = c /\ cache' = c /\ slipped' = FALSE /\ task' = next
  <2>1. bus' \in Bus
    BY <1>1, <1>3, TransfersType
  <2>2. board.mux
    BY <1>3 DEF Selected
  <2> QED
    BY <1>1, <1>3, <2>1, <2>2 DEF Selected, CacheTrue
<1> QED
  BY <1>2, <1>3 DEF Selects

\* One that cannot be selected may be connected, and that is noted.
LEMMA SelectFailsDoes ==
    ASSUME AcquisitionTypeOK, CacheTrue, board' = board, NEW c \in Sensor, NEW next,
           SelectFails(c, next)
    PROVE  /\ task' = next /\ CacheTrue'
           /\ bus' \in Bus /\ mux' \in Channels /\ cache' \in Channels /\ slipped' \in BOOLEAN
<1>1. /\ bus \in Bus /\ mux \in Channels /\ cache \in Channels /\ slipped \in BOOLEAN
      /\ c \in Channels
  BY DEF AcquisitionTypeOK, Bus, Channels
<1>2. bus' \in Bus
  BY <1>1, TransfersType DEF SelectFails
<1>3. /\ mux' \in {mux, c} /\ slipped' = (slipped \/ mux' # mux) /\ task' = next /\ cache' = cache
      /\ board.mux
  BY DEF SelectFails, Selected
<1> QED
  BY <1>1, <1>2, <1>3 DEF CacheTrue

\* The next sensor is one of the board.
LEMMA NextSensorDoes ==
    ASSUME AcquisitionTypeOK, SensorServed, task.at \in AmbientSteps,
           NEW step \in AmbientSteps, NEW after \in OneWireSteps
    PROVE  /\ NextSensor(step, after) \in Task
           /\ NextSensor(step, after).at \in AmbientSteps => NextSensor(step, after).sensor \in Sensor
           /\ NextSensor(step, after).at \notin AmbientSteps => NextSensor(step, after).sensor = 1
           /\ NextSensor(step, after).at \in {step, after}
<1>1. board.ambients \in Nat /\ task.sensor \in Sensor
  BY TaskFacts DEF SensorServed
<1>2. after \notin AmbientSteps
  BY DEF AmbientSteps, OneWireSteps
<1>3. CASE task.sensor < board.ambients
  <2>1. task.sensor + 1 \in Sensor
    BY <1>1, <1>3 DEF Sensor
  <2>2. NextSensor(step, after) =
          [at |-> step, sensor |-> task.sensor + 1, quantity |-> "temp", attempt |-> 0]
    BY <1>3 DEF NextSensor
  <2> QED
    BY <2>1, <2>2, Sizes DEF Task, Quantities
<1>4. CASE ~(task.sensor < board.ambients)
  <2>1. NextSensor(step, after) =
          [at |-> after, sensor |-> 1, quantity |-> "temp", attempt |-> 0]
    BY <1>4 DEF NextSensor
  <2> QED
    BY <1>2, <2>1, Sizes DEF Task, Quantities
<1> QED
  BY <1>3, <1>4

\* The entry of the sensor that is read is written.
LEMMA StoresDoes ==
    ASSUME AcquisitionTypeOK, SensorServed, task.at \in AmbientSteps,
           NEW valid \in BOOLEAN, NEW from \in SUBSET Channels, Stores(valid, from)
    PROVE  /\ ambient' \in [Sensor -> AmbientEntry]
           /\ ambient'[task.sensor] = [valid |-> valid, from |-> from, slipped |-> valid /\ slipped]
           /\ \A i \in Sensor \ {task.sensor} : ambient'[i] = ambient[i]
<1>1. ambient \in [Sensor -> AmbientEntry] /\ task.sensor \in Sensor /\ slipped \in BOOLEAN
  BY TaskFacts DEF SensorServed, AcquisitionTypeOK
<1>2. [valid |-> valid, from |-> from, slipped |-> valid /\ slipped] \in AmbientEntry
  BY <1>1 DEF AmbientEntry
<1> QED
  BY <1>1, <1>2 DEF Stores

\* What may become of the task when an attempt is over.
LEMMA AttemptDoes ==
    ASSUME AcquisitionTypeOK, SensorServed, task.at \in AmbientSteps, AttemptOver
    PROVE  \/ /\ task' = NextSensor("select", "scan") /\ Stores(FALSE, {})
           \/ /\ task' = [task EXCEPT !.at = "command", !.attempt = @ + 1] /\ ambient' = ambient
              /\ task' \in Task /\ task'.at = "command" /\ task'.sensor = task.sensor
<1>1. task \in Task
  BY TaskFacts
<1>2. CASE GivesUp(task.attempt)
  BY <1>2 DEF AttemptOver
<1>3. CASE ~GivesUp(task.attempt)
  <2>1. task.attempt + 1 \in 0 .. (ShtRetries - 1)
    BY <1>1, <1>3, Sizes DEF Task, GivesUp
  <2>2. "command" \in AmbientSteps \cup OneWireSteps
    BY DEF AmbientSteps
  <2> QED
    BY <1>1, <1>3, <2>1, <2>2 DEF AttemptOver, Task
<1> QED
  BY <1>2, <1>3

-----------------------------------------------------------------------------
(***************************************************************************)
(* The ambient sensors.                                                    *)
(***************************************************************************)

\* The part of the invariant that is about them.
AmbientInv ==
    /\ board \in Boards /\ bus \in Bus /\ mux \in Channels /\ cache \in Channels /\ task \in Task
    /\ got \in SUBSET Channels /\ ambient \in [Sensor -> AmbientEntry]
    /\ line \in BOOLEAN /\ slipped \in BOOLEAN
    /\ SensorServed /\ CacheTrue /\ MeasuresOne /\ ReadingIsOwn

\* It is a part of it.
LEMMA AmbientPart == AcquisitionInv => AmbientInv
BY DEF AcquisitionInv, AcquisitionTypeOK, AmbientInv, Bus, Task, AmbientEntry

\* Everything but the task stays, and the task goes on to a step that measures nothing.
LEMMA MovesOn ==
    ASSUME AcquisitionInv, UNCHANGED <<board, line, mux, bus, cache, slipped, got, ambient>>,
           task' \in Task, task'.at \notin {"command", "result", "reset"},
           IF task'.at \in AmbientSteps THEN task'.sensor \in Sensor ELSE task'.sensor = 1
    PROVE  AmbientInv'
BY AmbientPart DEF AmbientInv, SensorServed, CacheTrue, MeasuresOne, ReadingIsOwn, Channels, Sensor,
   AmbientEntry, Task, Bus

\* A 1-Wire step leads to another, or begins a round.
LEMMA GoesOn ==
    ASSUME AcquisitionInv, UNCHANGED <<board, line, mux, bus, cache, slipped, got, ambient>>,
           task.at \in OneWireSteps, NEW x, x \in OneWireSteps \cup {RoundBegins},
           task' = [task EXCEPT !.at = x]
    PROVE  AmbientInv'
<1>1. task \in Task /\ task.sensor = 1 /\ board.ambients \in Nat
  BY TaskFacts DEF AcquisitionInv, At
<1>2. x \in AmbientSteps \cup OneWireSteps /\ x \notin {"command", "result", "reset"}
      /\ (x \in AmbientSteps => board.ambients # 0)
  BY DEF RoundBegins, AmbientSteps, OneWireSteps
<1>3. task' \in Task /\ task'.at = x /\ task'.sensor = 1
  BY <1>1, <1>2 DEF Task
<1>4. x \in AmbientSteps => 1 \in Sensor
  BY <1>1, <1>2 DEF Sensor
<1> QED
  BY <1>2, <1>3, <1>4, MovesOn

\* The measurement is over: its entry is written, and the task turns to the next sensor.
LEMMA StoresKeeps ==
    ASSUME AcquisitionInv, UNCHANGED <<board, line>>, task.at \in AmbientSteps,
           bus' \in Bus, mux' \in Channels, cache' \in Channels, slipped' \in BOOLEAN,
           got' \in SUBSET Channels, CacheTrue',
           NEW valid \in BOOLEAN, NEW from \in SUBSET Channels, Stores(valid, from),
           valid => slipped \/ from = {task.sensor},
           task' = NextSensor("select", "scan")
    PROVE  AmbientInv'
<1>1. AcquisitionTypeOK /\ SensorServed /\ ReadingIsOwn
  BY DEF AcquisitionInv
<1>2. /\ ambient' \in [Sensor -> AmbientEntry]
      /\ ambient'[task.sensor] = [valid |-> valid, from |-> from, slipped |-> valid /\ slipped]
      /\ \A i \in Sensor \ {task.sensor} : ambient'[i] = ambient[i]
  BY <1>1, StoresDoes
<1>3. "select" \in AmbientSteps /\ "scan" \in OneWireSteps /\ "scan" \notin AmbientSteps
  BY DEF AmbientSteps, OneWireSteps
<1>4. /\ task' \in Task /\ task'.at \in {"select", "scan"}
      /\ IF task'.at \in AmbientSteps THEN task'.sensor \in Sensor ELSE task'.sensor = 1
  BY <1>1, <1>3, NextSensorDoes
<1>5. SensorServed' /\ MeasuresOne'
  BY <1>4 DEF SensorServed, MeasuresOne, Sensor
<1>6. ReadingIsOwn'
  BY <1>1, <1>2 DEF ReadingIsOwn, Sensor
<1> QED
  BY <1>1, <1>2, <1>4, <1>5, <1>6 DEF AmbientInv, AcquisitionTypeOK, Channels, Sensor, Task,
     AmbientEntry, Bus

\* An attempt that failed is repeated, or ends the measurement.
LEMMA AttemptKeeps ==
    ASSUME AcquisitionInv, AttemptFails \/ AttemptOver, bus' \in Bus,
           task.at \in {"command", "result", "reset"},
           UNCHANGED <<board, line, mux, cache, slipped, got>>
    PROVE  AmbientInv'
<1>1. AcquisitionTypeOK /\ SensorServed /\ CacheTrue /\ AmbientInv /\ task.at \in AmbientSteps
  BY AmbientPart DEF AcquisitionInv, AmbientSteps
<1>2. CacheTrue' /\ mux' \in Channels /\ cache' \in Channels /\ slipped' \in BOOLEAN
      /\ got' \in SUBSET Channels
  BY <1>1 DEF AmbientInv, CacheTrue
<1>3. ASSUME ambient' = ambient, task' \in Task, task'.at \in AmbientSteps,
             task'.sensor = task.sensor
      PROVE  AmbientInv'
  <2>1. SensorServed' /\ MeasuresOne' /\ ReadingIsOwn'
    BY <1>1, <1>3 DEF AmbientInv, SensorServed, MeasuresOne, ReadingIsOwn, Selected, Sensor
  <2> QED
    BY <1>1, <1>2, <1>3, <2>1 DEF AmbientInv, Channels, Sensor, Task, AmbientEntry, Bus
<1>4. CASE AttemptOver
  <2>1. CASE task' = NextSensor("select", "scan") /\ Stores(FALSE, {})
    BY <1>1, <1>2, <2>1, StoresKeeps
  <2>2. CASE /\ ambient' = ambient /\ task' \in Task /\ task'.at = "command"
             /\ task'.sensor = task.sensor
    BY <1>3, <2>2 DEF AmbientSteps
  <2> QED
    BY <1>1, <1>4, <2>1, <2>2, AttemptDoes
<1>5. CASE task' = [task EXCEPT !.at = "reset"] /\ ambient' = ambient
  <2>1. task \in Task
    BY <1>1 DEF AmbientInv
  <2>2. task' \in Task /\ task'.at = "reset" /\ task'.sensor = task.sensor
    BY <1>5, <2>1 DEF Task, AmbientSteps
  <2> QED
    BY <1>3, <1>5, <2>2 DEF AmbientSteps
<1> QED
  BY <1>4, <1>5 DEF AttemptFails

\* A result that could be read is that of the sensor whose channel is selected.
LEMMA ReadsOwn ==
    ASSUME AcquisitionInv, At("result"), mux # None
    PROVE  slipped \/ got \cup {mux} = {task.sensor}
<1> SUFFICES ASSUME ~slipped PROVE mux = task.sensor /\ got \subseteq {task.sensor}
  OBVIOUS
<1>1. Selected(task.sensor) /\ got \subseteq {task.sensor} /\ CacheTrue
  BY DEF AcquisitionInv, MeasuresOne, At
<1>2. /\ task.sensor \in Sensor /\ board.ambients \in Nat /\ board.mux \in BOOLEAN
      /\ board.ambients > 1 => board.mux
  BY TaskFacts DEF AcquisitionInv, AmbientSteps
<1>3. task.sensor # None
  BY <1>2 DEF Sensor, None
<1>4. CASE board.mux
  BY <1>1, <1>3, <1>4 DEF Selected, CacheTrue
<1>5. CASE ~board.mux
  <2>1. board.ambients = 1 /\ task.sensor = 1
    BY <1>2, <1>5 DEF Sensor
  <2> QED
    BY <1>1, <1>5, <2>1 DEF CacheTrue
<1> QED
  BY <1>1, <1>2, <1>4, <1>5

\* Every step of the ambient sensors' state.
LEMMA AmbientStep == AcquisitionInv /\ [Next]_vars => AmbientInv'
<1> SUFFICES ASSUME AcquisitionInv, [Next]_vars PROVE AmbientInv'
  OBVIOUS
<1>1. /\ AcquisitionTypeOK /\ SensorServed /\ CacheTrue /\ MeasuresOne /\ ReadingIsOwn /\ AmbientInv
      /\ task \in Task /\ bus \in Bus /\ Answers \in BOOLEAN
  BY AmbientPart, TaskFacts DEF AcquisitionInv
<1>2. CASE InitSelects
  <2>1. task.at \in AmbientSteps /\ task.sensor \in Sensor /\ board' = board
    BY <1>1, <1>2, TaskFacts DEF InitSelects, At, AmbientSteps
  <2>2. PICK next : next = NextSensor("init", "firstScan")
    OBVIOUS
  <2>3. PICK c \in Sensor : c = task.sensor
    BY <2>1
  <2>4. Selects(c, next) \/ SelectFails(c, next)
    BY <1>2, <2>2, <2>3 DEF InitSelects
  <2>5. /\ task' = next /\ CacheTrue'
        /\ bus' \in Bus /\ mux' \in Channels /\ cache' \in Channels /\ slipped' \in BOOLEAN
    BY <1>1, <2>1, <2>4, SelectsDoes, SelectFailsDoes
  <2>6. /\ task' \in Task /\ task'.at \in {"init", "firstScan"}
        /\ IF task'.at \in AmbientSteps THEN task'.sensor \in Sensor ELSE task'.sensor = 1
    BY <1>1, <2>1, <2>2, <2>5, NextSensorDoes DEF AmbientSteps, OneWireSteps
  <2>7. UNCHANGED <<board, line, got, ambient>>
    BY <1>2 DEF InitSelects, sht
  <2>8. SensorServed' /\ MeasuresOne' /\ ReadingIsOwn'
    BY <1>1, <2>6, <2>7 DEF SensorServed, MeasuresOne, ReadingIsOwn, Sensor
  <2> QED
    BY <1>1, <2>5, <2>6, <2>7, <2>8 DEF AmbientInv, Channels, Sensor, Task, AmbientEntry, Bus
<1>3. CASE ReadSelects
  <2>1. task.at \in AmbientSteps /\ task.sensor \in Sensor
    BY <1>1, <1>3, TaskFacts DEF ReadSelects, At, AmbientSteps
  <2>2. PICK next : next = [task EXCEPT !.at = "command"]
    OBVIOUS
  <2>3. PICK c \in Sensor : c = task.sensor
    BY <2>1
  <2>4. UNCHANGED <<board, line, ambient>> /\ got' = {} /\ Selects(c, next)
    BY <1>3, <2>2, <2>3 DEF ReadSelects
  <2>5. /\ task' = next /\ CacheTrue' /\ Selected(c)'
        /\ bus' \in Bus /\ mux' \in Channels /\ cache' \in Channels /\ slipped' \in BOOLEAN
    BY <1>1, <2>4, SelectsDoes
  <2>6. task' \in Task /\ task'.at = "command" /\ task'.sensor = c
    BY <1>1, <2>2, <2>3, <2>5 DEF Task, AmbientSteps
  <2>7. SensorServed' /\ MeasuresOne' /\ ReadingIsOwn'
    BY <1>1, <2>4, <2>5, <2>6 DEF SensorServed, MeasuresOne, ReadingIsOwn, Sensor, Selected,
       AmbientSteps
  <2> QED
    BY <1>1, <2>4, <2>5, <2>6, <2>7 DEF AmbientInv, Channels, Sensor, Task, AmbientEntry, Bus
<1>4. CASE ReadSelectFails
  <2>1. task.at \in AmbientSteps /\ task.sensor \in Sensor
    BY <1>1, <1>4, TaskFacts DEF ReadSelectFails, At, AmbientSteps
  <2>2. PICK next : next = NextSensor("select", "scan")
    OBVIOUS
  <2>3. PICK c \in Sensor : c = task.sensor
    BY <2>1
  <2>4. UNCHANGED <<board, line, got>> /\ SelectFails(c, next) /\ Stores(FALSE, {})
    BY <1>4, <2>2, <2>3 DEF ReadSelectFails
  <2>5. /\ task' = next /\ CacheTrue'
        /\ bus' \in Bus /\ mux' \in Channels /\ cache' \in Channels /\ slipped' \in BOOLEAN
    BY <1>1, <2>4, SelectFailsDoes
  <2>6. got' \in SUBSET Channels
    BY <1>1, <2>4 DEF AmbientInv
  <2> QED
    BY <2>1, <2>2, <2>4, <2>5, <2>6, StoresKeeps
<1>5. CASE ShtCommands
  <2>1. task.at = "command" /\ UNCHANGED <<board, line, mux, cache, slipped, got>>
    BY <1>5 DEF ShtCommands, At
  <2>2. PICK t \in Transfers(Answers) :
          /\ bus' = t.bus
          /\ IF t.ok THEN task' = [task EXCEPT !.at = "result"] /\ UNCHANGED ambient
                     ELSE AttemptFails
    BY <1>5 DEF ShtCommands
  <2>3. bus' \in Bus
    BY <1>1, <2>2, TransfersType
  <2>4. CASE task' = [task EXCEPT !.at = "result"] /\ UNCHANGED ambient
    <3>1. task' \in Task /\ task'.at = "result" /\ task'.sensor = task.sensor
      BY <1>1, <2>4 DEF Task, AmbientSteps
    <3>2. SensorServed' /\ MeasuresOne' /\ ReadingIsOwn' /\ CacheTrue'
      BY <1>1, <2>1, <2>4, <3>1 DEF SensorServed, MeasuresOne, ReadingIsOwn, CacheTrue, Sensor,
         Selected, AmbientSteps
    <3> QED
      BY <1>1, <2>1, <2>3, <2>4, <3>1, <3>2 DEF AmbientInv, Channels, Sensor, Task, AmbientEntry, Bus
  <2> QED
    BY <2>1, <2>2, <2>3, <2>4, AttemptKeeps
<1>6. CASE ShtReads
  <2>1. At("result") /\ task.at \in AmbientSteps /\ UNCHANGED <<board, line, mux, cache, slipped>>
    BY <1>6 DEF ShtReads, At, AmbientSteps
  <2>2. PICK t \in Transfers(Answers) : t.ok /\ bus' = t.bus
    BY <1>6 DEF ShtReads
  <2>3. bus' \in Bus /\ mux # None
    BY <1>1, <2>2, TransfersType DEF Answers
  <2>4. slipped \/ got' = {task.sensor}
    BY <1>6, <2>1, <2>3, ReadsOwn DEF ShtReads
  <2>5. got' \in SUBSET Channels /\ CacheTrue'
    BY <1>1, <1>6, <2>1 DEF ShtReads, AmbientInv, CacheTrue
  <2>6. CASE task' = [task EXCEPT !.at = "command", !.quantity = "hum", !.attempt = 0]
             /\ UNCHANGED ambient
    <3>1. task' \in Task /\ task'.at = "command" /\ task'.sensor = task.sensor
      BY <1>1, <2>6, Sizes DEF Task, AmbientSteps, Quantities
    <3>2. SensorServed' /\ MeasuresOne' /\ ReadingIsOwn'
      BY <1>1, <2>1, <2>4, <2>6, <3>1 DEF SensorServed, MeasuresOne, ReadingIsOwn, Sensor,
         Selected, AmbientSteps, At
    <3> QED
      BY <1>1, <2>1, <2>3, <2>5, <2>6, <3>1, <3>2 DEF AmbientInv, Channels, Sensor, Task,
         AmbientEntry, Bus
  <2>7. CASE task' = NextSensor("select", "scan") /\ Stores(TRUE, got')
    <3>1. PICK from \in SUBSET Channels : from = got'
      BY <2>5 DEF AmbientInv, Channels, Sensor
    <3> QED
      BY <1>1, <2>1, <2>3, <2>4, <2>5, <2>7, <3>1, StoresKeeps DEF AmbientInv
  <2> QED
    BY <1>6, <2>6, <2>7 DEF ShtReads
<1>7. CASE ShtReadFails \/ ShtResets
  <2>1. PICK t \in Transfers(Answers) : bus' = t.bus
    BY <1>7 DEF ShtReadFails, ShtResets
  <2>2. bus' \in Bus
    BY <1>1, <2>1, TransfersType
  <2> QED
    BY <1>7, <2>2, AttemptKeeps DEF ShtReadFails, ShtResets, At
<1>8. CASE ScanNotDue \/ Scans
  <2>1. task.at \in OneWireSteps /\ AfterScan \in OneWireSteps /\ task' = [task EXCEPT !.at = AfterScan]
    BY <1>8 DEF ScanNotDue, Scans, At, AfterScan, OneWireSteps
  <2>2. UNCHANGED <<board, line, mux, bus, cache, slipped, got, ambient>>
    BY <1>8 DEF ScanNotDue, Scans, i2c, sht
  <2> QED
    BY <2>1, <2>2, GoesOn
<1>9. CASE ReadNotDue \/ ReadsTemperatures
  <2>1. task.at \in OneWireSteps /\ "kick" \in OneWireSteps /\ task' = [task EXCEPT !.at = "kick"]
    BY <1>9 DEF ReadNotDue, ReadsTemperatures, At, OneWireSteps
  <2>2. UNCHANGED <<board, line, mux, bus, cache, slipped, got, ambient>>
    BY <1>9 DEF ReadNotDue, ReadsTemperatures, i2c, sht
  <2> QED
    BY <2>1, <2>2, GoesOn
<1>10. CASE DoesNotKick \/ Kicks
  <2>1. /\ task.at \in OneWireSteps /\ AfterKick \in OneWireSteps \cup {RoundBegins}
        /\ task' = [task EXCEPT !.at = AfterKick]
    BY <1>10 DEF DoesNotKick, Kicks, At, AfterKick, OneWireSteps
  <2>2. UNCHANGED <<board, line, mux, bus, cache, slipped, got, ambient>>
    BY <1>10 DEF DoesNotKick, Kicks, i2c, sht
  <2> QED
    BY <2>1, <2>2, GoesOn
<1>11. CASE Delays
  <2>1. task.at \in OneWireSteps /\ task' = [task EXCEPT !.at = RoundBegins]
    BY <1>11 DEF Delays, At, OneWireSteps
  <2>2. UNCHANGED <<board, line, mux, bus, cache, slipped, got, ambient>>
    BY <1>11 DEF Delays, i2c, sht
  <2> QED
    BY <2>1, <2>2, GoesOn
<1>12. ASSUME bus' \in Bus, mux' \in {mux, None}, mux' # mux => board.mux, line' \in BOOLEAN,
              UNCHANGED <<board, cache, slipped, task, got, ambient>>
       PROVE  AmbientInv'
  <2>1. SensorServed' /\ CacheTrue' /\ MeasuresOne' /\ ReadingIsOwn'
    BY <1>1, <1>12 DEF SensorServed, CacheTrue, MeasuresOne, ReadingIsOwn, Sensor, Selected
  <2>2. mux' \in Channels
    BY <1>1, <1>12 DEF AmbientInv, Channels
  <2> QED
    BY <1>1, <1>12, <2>1, <2>2 DEF AmbientInv, Channels, Sensor, Task, AmbientEntry, Bus
<1>13. CASE IoTransfers
  <2>1. bus' \in Bus
    BY <1>1, <1>13, TransfersType DEF IoTransfers
  <2> QED
    BY <1>1, <1>12, <1>13, <2>1 DEF IoTransfers, sht, AmbientInv
<1>14. CASE LineFails \/ LineRecovers
  BY <1>1, <1>12, <1>14 DEF LineFails, LineRecovers, sht, AmbientInv
<1>15. CASE MuxResets
  BY <1>1, <1>12, <1>15 DEF MuxResets, sht, AmbientInv
<1>16. CASE WireFails \/ WireRecovers \/ \E r \in board.roms : Plugs(r)
  BY <1>1, <1>12, <1>16 DEF WireFails, WireRecovers, Plugs, i2c, sht, AmbientInv
<1>17. CASE UNCHANGED vars
  BY <1>1, <1>12, <1>17 DEF vars, i2c, sht, AmbientInv
<1> QED
  BY <1>2, <1>3, <1>4, <1>5, <1>6, <1>7, <1>8, <1>9, <1>10, <1>11, <1>13, <1>14, <1>15, <1>16, <1>17
     DEF Next, SensorsTask, Environment

-----------------------------------------------------------------------------
(***************************************************************************)
(* The 1-Wire bus.                                                         *)
(***************************************************************************)

\* The types that are about it, and what is invariant of the conversion that is pending.
OneWireTypes ==
    /\ IsList(list)
    /\ tick \in 0 .. (TickWrap - 1) /\ ready \in 0 .. (TickWrap - 1)
    /\ nextScan \in 0 .. (TickWrap - 1)
    /\ converting \cup fresh \subseteq attached /\ attached \subseteq Range(Roms)
    /\ DOMAIN entries \subseteq 1 .. MaxDevices
    /\ wire \in BOOLEAN /\ polls \in BOOLEAN
    /\ pending \in BOOLEAN /\ scanDue \in BOOLEAN /\ disturbed \in BOOLEAN
    /\ faults \in 0 .. MaxFaults

\* They are a part of the invariant.
LEMMA OneWirePart ==
    AcquisitionInv =>
        OneWireTypes /\ ConversionWatched /\ ConversionTimed /\ ReadingIsConverted
BY DEF AcquisitionInv, AcquisitionTypeOK, OneWireTypes, IsList

\* The waiting time of a conversion is over only when no device is converting any more.
LEMMA TimeIsUpMeansDone ==
    ASSUME OneWireTypes, ConversionTimed, pending, TimeIsUp
    PROVE  converting = {}
<1> SUFFICES ASSUME converting # {} PROVE FALSE
  OBVIOUS
<1>1. PICK r \in Nat : r = ConvTicks - age /\ r >= 1 /\ r <= ConvTicks
  <2>1. age \in 0 .. (ConvTicks - 1)
    BY DEF ConversionTimed
  <2> QED
    BY <2>1, Durations
<1>2. ready = (tick + r) % TickWrap
  BY <1>1 DEF ConversionTimed
<1>3. tick \in 0 .. (TickWrap - 1) /\ 2 * r <= TickWrap /\ TickWrap \in Nat \ {0}
  <2>1. 2 * r <= TickWrap
    BY <1>1, Durations
  <2> QED
    BY <2>1, Durations DEF OneWireTypes
<1>4. ~((tick - ready) % TickWrap < TickWrap \div 2)
  BY <1>1, <1>2, <1>3, NotYet
<1> QED
  BY <1>4 DEF TimeIsUp

\* What is read when the wait is over is never what a device held before its conversion.
LEMMA NothingStale ==
    ASSUME OneWireTypes, ConversionWatched, ConversionTimed, pending, TimeIsUp \/ SlotReads1, NEW r
    PROVE  "stale" \notin Obtained(r)
<1>1. CASE r \in fresh \/ r \notin attached \/ disturbed
  BY <1>1 DEF Obtained
<1>2. CASE r \notin fresh /\ r \in attached /\ ~disturbed
  <2>1. polls /\ wire /\ r \in converting
    BY <1>2 DEF ConversionWatched
  <2>2. converting = {}
    BY <2>1, TimeIsUpMeansDone DEF SlotReads1
  <2> QED
    BY <2>1, <2>2
<1> QED
  BY <1>1, <1>2

\* A scan replaces the list by another.
LEMMA ScansType ==
    ASSUME OneWireTypes, Scans
    PROVE  IsList(list') /\ nextScan' \in 0 .. (TickWrap - 1)
<1>1. IsList(list')
  <2>1. list' \in {Search} \cup Prefixes(Search) \cup {list}
    BY DEF Scans
  <2> QED
    BY <2>1, SearchFinds, PrefixIsList DEF OneWireTypes
<1>2. tick + ScanTicks \in Nat /\ TickWrap \in Nat \ {0}
  BY Durations DEF OneWireTypes
<1>3. nextScan' = (tick + ScanTicks) % TickWrap
  BY DEF Scans
<1> QED
  BY <1>1, <1>2, <1>3, TickSum

\* The types of every step.
LEMMA OneWireTypesStep == AcquisitionInv /\ [Next]_vars => OneWireTypes'
<1> SUFFICES ASSUME AcquisitionInv, [Next]_vars PROVE OneWireTypes'
  OBVIOUS
<1>1. OneWireTypes /\ board \in Boards /\ MaxFaults \in Nat
  BY OneWirePart, Sizes DEF AcquisitionInv, AcquisitionTypeOK
<1>2. CASE UNCHANGED onewire /\ faults' \in 0 .. MaxFaults
  BY <1>1, <1>2 DEF onewire, model, devices, history, OneWireTypes
<1>3. CASE \/ InitSelects \/ ReadSelects \/ ReadSelectFails
           \/ ShtCommands \/ ShtReads \/ ShtReadFails \/ ShtResets
           \/ ScanNotDue \/ ReadNotDue \/ IoTransfers \/ LineRecovers \/ UNCHANGED vars
  BY <1>1, <1>2, <1>3 DEF InitSelects, ReadSelects, ReadSelectFails, ShtCommands, ShtReads,
     ShtReadFails, ShtResets, ScanNotDue, ReadNotDue, IoTransfers, LineRecovers, vars, OneWireTypes
<1>4. ASSUME faults < MaxFaults, faults' = faults + 1 PROVE faults' \in 0 .. MaxFaults
  BY <1>1, <1>4 DEF OneWireTypes
<1>5. CASE LineFails \/ MuxResets
  BY <1>2, <1>4, <1>5 DEF LineFails, MuxResets
<1>6. CASE Scans
  <2>1. IsList(list') /\ nextScan' \in 0 .. (TickWrap - 1)
    BY <1>1, <1>6, ScansType
  <2> QED
    BY <1>1, <1>6, <2>1 DEF Scans, OneWireTypes
<1>7. CASE ReadsTemperatures
  <2>1. DOMAIN list \subseteq 1 .. MaxDevices
    <3>1. list \in Seq(Range(Roms)) /\ Len(list) <= MaxDevices
      BY <1>1 DEF OneWireTypes, IsList
    <3>2. DOMAIN list = 1 .. Len(list) /\ Len(list) \in Nat
      BY <3>1, LenProperties
    <3> QED
      BY <3>1, <3>2, Sizes
  <2>2. DOMAIN entries' = DOMAIN list \cup DOMAIN entries
    BY <1>7 DEF ReadsTemperatures
  <2> QED
    BY <1>1, <1>7, <2>1, <2>2 DEF ReadsTemperatures, OneWireTypes
<1>8. CASE DoesNotKick
  BY <1>1, <1>8 DEF DoesNotKick, OneWireTypes, model, history
<1>9. CASE Kicks
  <2>1. tick + Wait \in Nat /\ TickWrap \in Nat \ {0}
    BY <1>1, Durations DEF OneWireTypes, Wait
  <2>2. ready' \in 0 .. (TickWrap - 1)
    BY <1>9, <2>1, TickSum DEF Kicks
  <2> QED
    BY <1>1, <1>9, <2>2 DEF Kicks, OneWireTypes
<1>10. CASE Delays
  <2>1. PICK d \in 1 .. MaxRound :
          /\ tick' = (tick + d) % TickWrap
          /\ scanDue' = (scanDue \/ d >= (nextScan - tick) % TickWrap)
          /\ \E done \in SUBSET converting :
               converting' = converting \ done /\ fresh' = fresh \cup done
    BY <1>10 DEF Delays
  <2>2. tick + d \in Nat /\ TickWrap \in Nat \ {0}
    BY <1>1, Durations DEF OneWireTypes
  <2>3. tick' \in 0 .. (TickWrap - 1)
    BY <2>1, <2>2, TickSum
  <2>4. scanDue' \in BOOLEAN
    BY <1>1, <2>1 DEF OneWireTypes
  <2>5. converting' \cup fresh' \subseteq attached
    BY <1>1, <2>1 DEF OneWireTypes
  <2>6. UNCHANGED <<model, wire, attached, polls, disturbed, faults>>
    BY <1>10 DEF Delays
  <2> QED
    BY <1>1, <2>3, <2>4, <2>5, <2>6 DEF OneWireTypes, model
<1>11. CASE WireFails \/ WireRecovers
  BY <1>1, <1>4, <1>11 DEF WireFails, WireRecovers, OneWireTypes, model, history
<1>12. ASSUME NEW r \in board.roms, Plugs(r) PROVE OneWireTypes'
  <2>1. r \in Range(Roms)
    BY <1>1, Sizes
  <2>2. attached' \subseteq Range(Roms) /\ converting' \cup fresh' \subseteq attached'
    BY <1>1, <1>12, <2>1 DEF Plugs, OneWireTypes
  <2> QED
    BY <1>1, <1>4, <1>12, <2>2 DEF Plugs, OneWireTypes, model
<1> QED
  BY <1>3, <1>5, <1>6, <1>7, <1>8, <1>9, <1>10, <1>11, <1>12 DEF Next, SensorsTask, Environment

\* While a conversion is pending and undisturbed, its devices are watched.
LEMMA WatchedStep == AcquisitionInv /\ [Next]_vars => ConversionWatched'
<1> SUFFICES ASSUME AcquisitionInv, [Next]_vars PROVE ConversionWatched'
  OBVIOUS
<1>1. OneWireTypes /\ ConversionWatched
  BY OneWirePart
<1> USE <1>1 DEF ConversionWatched
<1>2. CASE UNCHANGED onewire
  BY <1>2 DEF onewire, model, devices, history
<1>3. CASE \/ InitSelects \/ ReadSelects \/ ReadSelectFails
           \/ ShtCommands \/ ShtReads \/ ShtReadFails \/ ShtResets
           \/ ScanNotDue \/ ReadNotDue \/ IoTransfers \/ LineRecovers \/ UNCHANGED vars
           \/ LineFails \/ MuxResets
  BY <1>2, <1>3 DEF InitSelects, ReadSelects, ReadSelectFails, ShtCommands, ShtReads,
     ShtReadFails, ShtResets, ScanNotDue, ReadNotDue, IoTransfers, LineRecovers, LineFails, MuxResets,
     vars
<1>4. CASE Scans
  BY <1>4 DEF Scans
<1>5. CASE ReadsTemperatures
  BY <1>5 DEF ReadsTemperatures
<1>6. CASE DoesNotKick
  BY <1>6 DEF DoesNotKick, model, history
<1>7. CASE Kicks
  BY <1>7 DEF Kicks, OneWireTypes
<1>8. CASE Delays
  <2>1. converting' \cup fresh' = converting \cup fresh
    BY <1>8 DEF Delays
  <2> QED
    BY <1>8, <2>1 DEF Delays, model
<1>9. CASE WireFails \/ WireRecovers
  BY <1>9 DEF WireFails, WireRecovers, model, history
<1>10. CASE \E r \in board.roms : Plugs(r)
  <2>1. disturbed' = (disturbed \/ pending) /\ pending' = pending
    BY <1>10 DEF Plugs, model
  <2> QED
    BY <2>1
<1> QED
  BY <1>3, <1>4, <1>5, <1>6, <1>7, <1>8, <1>9, <1>10 DEF Next, SensorsTask, Environment

\* The time that is waited for stays ahead of the conversion.
LEMMA TimedStep == AcquisitionInv /\ [Next]_vars => ConversionTimed'
<1> SUFFICES ASSUME AcquisitionInv, [Next]_vars PROVE ConversionTimed'
  OBVIOUS
<1>1. OneWireTypes /\ ConversionTimed /\ age \in 0 .. (ConvTicks - 1)
  BY OneWirePart DEF ConversionTimed
<1>2. CASE UNCHANGED onewire
  BY <1>1, <1>2 DEF onewire, model, devices, history, ConversionTimed
<1>3. CASE \/ InitSelects \/ ReadSelects \/ ReadSelectFails
           \/ ShtCommands \/ ShtReads \/ ShtReadFails \/ ShtResets
           \/ ScanNotDue \/ ReadNotDue \/ IoTransfers \/ LineRecovers \/ UNCHANGED vars
           \/ LineFails \/ MuxResets
  BY <1>2, <1>3 DEF InitSelects, ReadSelects, ReadSelectFails, ShtCommands, ShtReads,
     ShtReadFails, ShtResets, ScanNotDue, ReadNotDue, IoTransfers, LineRecovers, LineFails, MuxResets,
     vars
<1>4. ASSUME UNCHANGED <<age, tick, ready>>, converting' \subseteq converting, pending' => pending
      PROVE  ConversionTimed'
  BY <1>1, <1>4 DEF ConversionTimed
<1>5. CASE Scans
  BY <1>4, <1>5 DEF Scans
<1>6. CASE ReadsTemperatures
  BY <1>4, <1>6 DEF ReadsTemperatures
<1>7. CASE DoesNotKick
  BY <1>4, <1>7 DEF DoesNotKick, model, history
<1>8. CASE Kicks
  <2>1. age' = 0 /\ ready' = (tick + ConvTicks) % TickWrap /\ tick' = tick
    BY <1>8 DEF Kicks, Wait
  <2>2. ConvTicks - 0 = ConvTicks /\ 0 \in 0 .. (ConvTicks - 1)
    BY Durations
  <2> QED
    BY <2>1, <2>2 DEF ConversionTimed
<1>9. CASE Delays
  <2>1. PICK d \in 1 .. MaxRound :
          /\ tick' = (tick + d) % TickWrap
          /\ \E done \in SUBSET converting :
               /\ age + d >= ConvTicks => done = converting
               /\ converting' = converting \ done
          /\ age' = IF converting' = {} THEN 0 ELSE age + d
    BY <1>9 DEF Delays
  <2>2. pending' = pending /\ ready' = ready /\ 0 \in 0 .. (ConvTicks - 1)
    BY <1>9, Durations DEF Delays, model
  <2>3. CASE converting' = {}
    BY <2>1, <2>2, <2>3 DEF ConversionTimed
  <2>4. CASE converting' # {}
    <3>1. converting # {} /\ ~(age + d >= ConvTicks) /\ age' = age + d
      BY <2>1, <2>4
    <3>2. PICK r \in Nat : r = ConvTicks - age /\ d <= r /\ r < TickWrap
      <4>1. ConvTicks - age \in Nat /\ d <= ConvTicks - age /\ ConvTicks - age < TickWrap
        BY <1>1, <3>1, Durations
      <4> QED
        BY <4>1
    <3>3. age' \in 0 .. (ConvTicks - 1) /\ r - d = ConvTicks - age'
      BY <1>1, <3>1, <3>2, Durations
    <3>4. (((tick + d) % TickWrap) + (r - d)) % TickWrap = (tick + r) % TickWrap
      <4>1. tick \in 0 .. (TickWrap - 1) /\ TickWrap \in Nat \ {0} /\ d \in Nat
        BY <1>1, Durations DEF OneWireTypes
      <4> QED
        BY <3>2, <4>1, TicksLeft
    <3>5. pending => ready = (tick + r) % TickWrap
      BY <1>1, <3>1, <3>2 DEF ConversionTimed
    <3>6. pending => ready' = (tick' + (ConvTicks - age')) % TickWrap
      BY <2>1, <2>2, <3>3, <3>4, <3>5
    <3> QED
      BY <2>2, <3>3, <3>6 DEF ConversionTimed
  <2> QED
    BY <2>3, <2>4
<1>10. CASE WireFails \/ WireRecovers
  BY <1>4, <1>10 DEF WireFails, WireRecovers, model, history
<1>11. CASE \E r \in board.roms : Plugs(r)
  BY <1>4, <1>11 DEF Plugs, model
<1> QED
  BY <1>3, <1>5, <1>6, <1>7, <1>8, <1>9, <1>10, <1>11 DEF Next, SensorsTask, Environment

\* Only ReadsTemperatures writes an entry.
LEMMA ConvertedStep == AcquisitionInv /\ [Next]_vars => ReadingIsConverted'
<1> SUFFICES ASSUME AcquisitionInv, [Next]_vars PROVE ReadingIsConverted'
  OBVIOUS
<1>1. OneWireTypes /\ ConversionWatched /\ ConversionTimed /\ ReadingIsConverted
  BY OneWirePart
<1>2. CASE ReadsTemperatures
  <2>1. pending /\ (TimeIsUp \/ SlotReads1)
    BY <1>2 DEF ReadsTemperatures
  <2>2. PICK what \in [DOMAIN list -> {"fresh", "stale", "other"}] :
          /\ \A i \in DOMAIN list : what[i] \in Obtained(list[i])
          /\ entries' = [i \in DOMAIN list \cup DOMAIN entries |->
                           IF i \in DOMAIN list
                           THEN [rom |-> list[i], what |-> what[i]]
                           ELSE entries[i]]
    BY <1>2 DEF ReadsTemperatures
  <2>3. \A i \in DOMAIN list : what[i] # "stale"
    BY <1>1, <2>1, <2>2, NothingStale
  <2> QED
    BY <1>1, <2>2, <2>3 DEF ReadingIsConverted
<1>3. CASE UNCHANGED entries
  BY <1>1, <1>3 DEF ReadingIsConverted
<1>4. CASE ~ReadsTemperatures
  <2>1. UNCHANGED entries
    BY <1>4 DEF Next, SensorsTask, Environment, InitSelects, ReadSelects, ReadSelectFails,
       ShtCommands, ShtReads, ShtReadFails, ShtResets, ScanNotDue, Scans, ReadNotDue, DoesNotKick,
       Kicks, Delays, IoTransfers, LineFails, LineRecovers, MuxResets, WireFails, WireRecovers, Plugs,
       onewire, model, vars
  <2> QED
    BY <1>3, <2>1
<1> QED
  BY <1>2, <1>4

-----------------------------------------------------------------------------
\* What sensors_task finds when it starts satisfies the invariant.
LEMMA InitAcquisition == Init => AcquisitionInv
<1> SUFFICES ASSUME Init PROVE AcquisitionInv
  OBVIOUS
<1>1. /\ board \in Boards /\ board.ambients \in Nat /\ board.roms \subseteq Range(Roms)
      /\ board.ambients > 1 => board.mux
  <2>1. board \in Boards
    BY DEF Init
  <2> QED
    BY <2>1, Sizes
<1>2. board.ambients # 0 => 1 \in Sensor
  BY <1>1 DEF Sensor
<1>3. /\ mux \in Channels /\ cache \in Channels /\ cache = None
      /\ ~board.mux /\ board.ambients > 0 => mux = 1
  BY <1>1, <1>2 DEF Init, Channels, Sensor
<1>4. /\ task \in Task /\ task.at \in {"firstScan", "init"} /\ SensorServed
  BY <1>1, <1>2, Sizes DEF Init, Task, SensorServed, AmbientSteps, OneWireSteps, Quantities
<1>5. /\ ambient \in [Sensor -> AmbientEntry] /\ \A i \in Sensor : ~ambient[i].valid
      /\ got \in SUBSET Channels
  <2>1. [valid |-> FALSE, from |-> {}, slipped |-> FALSE] \in AmbientEntry
    BY DEF AmbientEntry
  <2> QED
    BY <2>1 DEF Init
<1>6. /\ list \in Seq(Range(Roms)) /\ Len(list) <= MaxDevices /\ IsInjective(list)
      /\ entries = <<>> /\ DOMAIN entries = {}
  BY Sizes DEF Init, IsInjective
<1>7. bus \in [driver : BOOLEAN, failures : 0 .. (FailureWrap - 1)]
  <2>1. 0 \in 0 .. (FailureWrap - 1)
    BY Sizes
  <2> QED
    BY <2>1 DEF Init
<1>8. /\ tick \in 0 .. (TickWrap - 1) /\ ready \in 0 .. (TickWrap - 1)
      /\ nextScan \in 0 .. (TickWrap - 1) /\ faults \in 0 .. MaxFaults /\ age \in 0 .. (ConvTicks - 1)
  BY Durations, Sizes DEF Init
<1>9. AcquisitionTypeOK
  BY <1>1, <1>3, <1>4, <1>5, <1>6, <1>7, <1>8 DEF Init, AcquisitionTypeOK, Task, AmbientEntry
<1>10. CacheTrue /\ MeasuresOne
  BY <1>3, <1>4 DEF CacheTrue, MeasuresOne
<1>11. ConversionWatched /\ ConversionTimed
  BY <1>8 DEF Init, ConversionWatched, ConversionTimed
<1>12. ReadingIsOwn /\ ReadingIsConverted
  BY <1>5, <1>6 DEF ReadingIsOwn, ReadingIsConverted
<1> QED
  BY <1>4, <1>9, <1>10, <1>11, <1>12 DEF AcquisitionInv

\* Every step preserves the invariant.
LEMMA NextAcquisition == AcquisitionInv /\ [Next]_vars => AcquisitionInv'
<1> SUFFICES ASSUME AcquisitionInv, [Next]_vars PROVE AcquisitionInv'
  OBVIOUS
<1>1. AmbientInv' /\ OneWireTypes'
  BY AmbientStep, OneWireTypesStep
<1>2. AcquisitionTypeOK'
  BY <1>1 DEF AmbientInv, OneWireTypes, AcquisitionTypeOK, IsList, Bus, Task, AmbientEntry
<1> QED
  BY <1>1, <1>2, WatchedStep, TimedStep, ConvertedStep DEF AmbientInv, AcquisitionInv

\* The sensors task, the buses it shares and what it believes of them agree.
THEOREM AcquisitionInvariant == Spec => []AcquisitionInv
<1> QED
  BY InitAcquisition, NextAcquisition, PTL DEF Spec

\* The counters of failures and attempts and the list of devices keep their bounds, and the list
\* names no device twice.
THEOREM AcquisitionTyped == Spec => []AcquisitionTypeOK
<1>1. AcquisitionInv => AcquisitionTypeOK
  BY DEF AcquisitionInv
<1> QED
  BY <1>1, AcquisitionInvariant, PTL

\* A valid ambient entry is a reading of its own sensor, unless a select that was reported as failed
\* had switched the multiplexer.
THEOREM AcquisitionOwn == Spec => []ReadingIsOwn
<1>1. AcquisitionInv => ReadingIsOwn
  BY DEF AcquisitionInv
<1> QED
  BY <1>1, AcquisitionInvariant, PTL

\* No entry holds what its device held before the conversion that was waited for, unless the wait was
\* disturbed.
THEOREM AcquisitionConverted == Spec => []ReadingIsConverted
<1>1. AcquisitionInv => ReadingIsConverted
  BY DEF AcquisitionInv
<1> QED
  BY <1>1, AcquisitionInvariant, PTL
=============================================================================
