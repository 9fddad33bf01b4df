---------------------------- MODULE WsAuthProofs -----------------------------
(***************************************************************************)
(* Proofs about WsAuth, for any number of nonces, any size of the cache,   *)
(* any replay window, any width of the tick counter that holds it and the  *)
(* longest time between two passes over the cache, any TOTP period and     *)
(* window.                                                                 *)
(***************************************************************************)
EXTENDS WsAuth, DoublingProofs, FiniteSetTheorems, SequenceTheorems, TLAPS

\* Entry i still refuses its nonce.
Live(i) == cache[i].valid /\ ~Expired(cache[i])

\* The types of the cache and of the log.
Entry == [valid : BOOLEAN, timestamp : 0 .. (TickMod - 1), nonce : Nonces \cup {NoNonce}]
Stored == [nonce : Nonces, age : 0 .. TTL]

-----------------------------------------------------------------------------
\* A difference of two ticks in a counter of M values.
LEMMA TickDifference ==
    ASSUME NEW M \in Nat \ {0}, NEW a \in 0 .. (M - 1), NEW b \in 0 .. (M - 1)
    PROVE  (a - b) % M = IF a >= b THEN a - b ELSE a - b + M
OBVIOUS

\* The tick after a tick, in a counter of M values.
LEMMA TickAfter ==
    ASSUME NEW M \in Nat \ {0}, NEW a \in 0 .. (M - 1)
    PROVE  (a + 1) % M = IF a + 1 = M THEN 0 ELSE a + 1
OBVIOUS

\* The constants.
LEMMA Sizes ==
    /\ NoNonce \notin Nonces
    /\ CacheSize \in Nat /\ CacheSize >= 1 /\ TTL \in Nat
    /\ MaxIdle \in Nat /\ TickMod \in Nat \ {0} /\ TickMod > MaxIdle + TTL
    /\ 0 \in 0 .. (TickMod - 1) /\ 0 \in 0 .. TTL /\ 0 \in 0 .. MaxIdle
BY WsAuthAssumption

\* An offset of whole periods moves the time step by as many, and below zero with it.
LEMMA StepOffset ==
    ASSUME NEW P \in Nat \ {0}, NEW now \in Nat, NEW offset \in Int
    PROVE  /\ now + offset * P >= 0 <=> (now \div P) + offset >= 0
           /\ now + offset * P >= 0 => (now + offset * P) \div P = (now \div P) + offset
<1>1. now + offset * P >= 0 <=> (now \div P) + offset >= 0
  OBVIOUS
<1>2. ASSUME now + offset * P >= 0 PROVE (now + offset * P) \div P = (now \div P) + offset
  BY <1>2
<1> QED
  BY <1>1, <1>2

\* totp_verify accepts the codes of the time steps at most Window from the current one.
LEMMA TotpWindow ==
    ASSUME NEW now \in Nat, NEW code \in Nat
    PROVE  TotpMatches(now, code) <=> code - (now \div Period) \in -Window .. Window
<1> USE DEF TotpMatches
<1>1. Period \in Nat \ {0} /\ Window \in Nat
  BY WsAuthAssumption
<1> DEFINE q == now \div Period
<1>2. q \in Nat
  BY <1>1
<1>3. ASSUME NEW offset \in -Window .. Window
      PROVE  (now + offset * Period >= 0 /\ code = (now + offset * Period) \div Period)
               <=> code = q + offset
  <2>1. offset \in Int
    BY <1>1
  <2>2. now + offset * Period >= 0 <=> q + offset >= 0
    BY <1>1, <2>1, StepOffset
  <2>3. now + offset * Period >= 0 => (now + offset * Period) \div Period = q + offset
    BY <1>1, <2>1, StepOffset
  <2> HIDE DEF q
  <2> QED
    BY <1>2, <2>1, <2>2, <2>3
<1>4. TotpMatches(now, code) <=> \E offset \in -Window .. Window : code = q + offset
  BY <1>3
<1> HIDE DEF q, TotpMatches
<1>5. (\E offset \in -Window .. Window : code = q + offset) <=> code - q \in -Window .. Window
  <2>1. ASSUME NEW offset \in -Window .. Window, code = q + offset PROVE code - q \in -Window .. Window
    BY <1>1, <1>2, <2>1
  <2>2. ASSUME code - q \in -Window .. Window PROVE code = q + (code - q)
    BY <1>1, <1>2
  <2> QED
    BY <2>1, <2>2
<1> QED
  BY <1>4, <1>5 DEF q

-----------------------------------------------------------------------------
\* The types, by name.
LEMMA AuthTypes ==
    AuthTypeOK => /\ cache \in [Entries -> Entry] /\ log \in Seq(Stored)
                  /\ tick \in 0 .. (TickMod - 1) /\ idle \in 0 .. MaxIdle
                  /\ Len(log) \in Nat /\ DOMAIN log = 1 .. Len(log)
                  /\ \A k \in 1 .. Len(log) : log[k] \in Stored
<1> SUFFICES ASSUME AuthTypeOK PROVE cache \in [Entries -> Entry] /\ log \in Seq(Stored)
  BY ElementOfSeq, LenProperties DEF AuthTypeOK
<1> QED
  BY DEF AuthTypeOK, Entry, Stored

\* The age of an entry is a number of ticks.
LEMMA AgeType ==
    ASSUME AuthTypeOK, NEW i \in Entries
    PROVE  Age(cache[i]) \in 0 .. (TickMod - 1)
<1>1. tick \in 0 .. (TickMod - 1) /\ cache[i].timestamp \in 0 .. (TickMod - 1)
  BY AuthTypes DEF Entry
<1> QED
  BY <1>1, Sizes, TickDifference DEF Age

\* A tick makes a valid entry a tick older: its age does not wrap.
LEMMA AgeAfterTick ==
    ASSUME AuthTypeOK, AgesUnwrapped, Tick, NEW i \in Entries, cache[i].valid
    PROVE  Age(cache[i])' = Age(cache[i]) + 1
<1>1. tick \in 0 .. (TickMod - 1) /\ cache[i].timestamp \in 0 .. (TickMod - 1)
  BY AuthTypes DEF Entry
<1>2. Age(cache[i]) <= TTL + idle /\ idle < MaxIdle /\ idle \in 0 .. MaxIdle
  BY AuthTypes DEF AgesUnwrapped, Tick
<1>3. Age(cache[i]) + 1 < TickMod
  BY <1>2, AgeType, Sizes
<1>4. tick' = (IF tick + 1 = TickMod THEN 0 ELSE tick + 1) /\ cache' = cache
  BY <1>1, Sizes, TickAfter DEF Tick
<1>5. tick' \in 0 .. (TickMod - 1)
  BY <1>1, <1>4, Sizes
<1>6. /\ Age(cache[i])' = IF tick' >= cache[i].timestamp THEN tick' - cache[i].timestamp
                          ELSE tick' - cache[i].timestamp + TickMod
      /\ Age(cache[i]) = IF tick >= cache[i].timestamp THEN tick - cache[i].timestamp
                         ELSE tick - cache[i].timestamp + TickMod
  BY <1>1, <1>4, <1>5, Sizes, TickDifference DEF Age
<1> HIDE DEF Age
<1> QED
  BY <1>1, <1>3, <1>4, <1>6, Sizes

\* What nonce_is_duplicate leaves: the entries, some of them no longer valid, but none of the live
\* ones, and no expired one unless it has found n.
LEMMA PurgeKeeps ==
    ASSUME AuthTypeOK, NEW n \in Nonces
    PROVE  /\ Purged(n) \in [Entries -> Entry]
           /\ \A i \in Entries :
                /\ Purged(n)[i].timestamp = cache[i].timestamp /\ Purged(n)[i].nonce = cache[i].nonce
                /\ Purged(n)[i].valid => cache[i].valid
                /\ Live(i) => Purged(n)[i].valid
                /\ ~IsDuplicate(n) /\ Purged(n)[i].valid => Live(i)
<1>1. cache \in [Entries -> Entry]
  BY AuthTypes
<1>2. \A i \in Entries : Expired(cache[i]) \in BOOLEAN
  BY DEF Expired
<1>3. ASSUME NEW i \in Entries
      PROVE  /\ Purged(n)[i] = [cache[i] EXCEPT !.valid = cache[i].valid
                    /\ (Expired(cache[i]) => \E j \in Entries : j < i /\ Match(j, n))]
             /\ Purged(n)[i] \in Entry
  BY <1>1, <1>2 DEF Purged, Entry
<1>4. ASSUME NEW i \in Entries
      PROVE  /\ Purged(n)[i].timestamp = cache[i].timestamp /\ Purged(n)[i].nonce = cache[i].nonce
             /\ Purged(n)[i].valid =
                  (cache[i].valid /\ (Expired(cache[i]) => \E j \in Entries : j < i /\ Match(j, n)))
  BY <1>1, <1>3 DEF Entry
<1>5. Purged(n) \in [Entries -> Entry]
  BY <1>3 DEF Purged
<1> QED
  BY <1>4, <1>5 DEF Live, IsDuplicate

\* Every entry of a cache that holds the timestamps of this one is as old.
LEMMA SameAge ==
    ASSUME NEW c, NEW i \in Entries, c[i].timestamp = cache[i].timestamp
    PROVE  Age(c[i]) = Age(cache[i])
BY DEF Age

-----------------------------------------------------------------------------
\* Every set of indices up to m is finite.
LEMMA PartOfInterval ==
    ASSUME NEW m \in Int, NEW T \in SUBSET (1 .. m)
    PROVE  IsFiniteSet(T) /\ Cardinality(T) \in Nat
<1>1. 1 \in Int
  OBVIOUS
<1>2. IsFiniteSet(1 .. m)
  BY <1>1, FS_Interval, Zenon
<1>3. IsFiniteSet(T)
  BY <1>2, FS_Subset, Zenon
<1> QED
  BY <1>3, FS_CardinalityType

\* A crowd is finite.
LEMMA CrowdSize ==
    ASSUME NEW k, NEW m \in Int
    PROVE  IsFiniteSet(Crowd(k, m)) /\ Cardinality(Crowd(k, m)) \in Nat
<1>1. Crowd(k, m) \in SUBSET (1 .. m)
  BY DEF Crowd
<1> QED
  BY <1>1, PartOfInterval

\* A nonce that is stored joins the crowd of those before it.
LEMMA CrowdAfterAppend ==
    ASSUME AuthTypeOK, NEW e \in Stored, log' = Append(log, e), e.age = 0,
           NEW k \in 1 .. Len(log), NEW m \in 0 .. Len(log)
    PROVE  /\ Crowd(k, m)' = Crowd(k, m)
           /\ m = Len(log) => Crowd(k, m + 1)' = Crowd(k, m) \cup {m + 1}
<1>1. Len(log) \in Nat /\ log \in Seq(Stored)
  BY AuthTypes
<1>2. log'[Len(log) + 1] = e /\ \A j \in 1 .. Len(log) : log'[j] = log[j]
  BY <1>1, AppendProperties
<1>3. log[k].age \in Nat
  BY AuthTypes, Sizes DEF Stored
<1>4. Crowd(k, m)' = Crowd(k, m)
  BY <1>1, <1>2 DEF Crowd
<1>5. ASSUME m = Len(log) PROVE Crowd(k, m + 1)' = Crowd(k, m) \cup {m + 1}
  BY <1>1, <1>2, <1>3, <1>5 DEF Crowd
<1> QED
  BY <1>4, <1>5

\* A tick loses none of the crowd of a nonce that stays in the log.
LEMMA CrowdAfterTick ==
    ASSUME AuthTypeOK, NEW d \in 0 .. Len(log),
           \A k \in DOMAIN log : k <= d <=> log[k].age = TTL,
           log' = [k \in 1 .. (Len(log) - d) |-> [log[k + d] EXCEPT !.age = @ + 1]],
           NEW k \in 1 .. (Len(log) - d), NEW m \in 0 .. (Len(log) - d)
    PROVE  Cardinality(Crowd(k + d, m + d)) <= Cardinality(Crowd(k, m)')
<1>1. Len(log) \in Nat /\ DOMAIN log = 1 .. Len(log) /\ \A j \in 1 .. Len(log) : log[j] \in Stored
  BY AuthTypes
<1>2. \A j \in 1 .. Len(log) : log[j].age \in 0 .. TTL
  BY <1>1 DEF Stored
<1>3. \A j \in 1 .. (Len(log) - d) : j + d \in 1 .. Len(log)
  BY <1>1
<1>4. \A j \in 1 .. (Len(log) - d) : log'[j].age = log[j + d].age + 1
  BY <1>1, <1>3 DEF Stored
<1>5. ASSUME NEW j \in Crowd(k + d, m + d) PROVE j - d \in Crowd(k, m)'
  <2>1. j \in 1 .. (m + d) /\ j # k + d /\ log[j].age <= log[k + d].age
    BY <1>5 DEF Crowd
  <2>2. j \in 1 .. Len(log) /\ k + d \in 1 .. Len(log) /\ k + d > d
    BY <1>1, <2>1
  <2>3. log[k + d].age # TTL
    BY <1>1, <2>2
  <2>4. log[j].age # TTL
    <3>1. log[j].age \in 0 .. TTL /\ log[k + d].age \in 0 .. TTL
      BY <1>2, <2>2
    <3>2. log[j].age <= log[k + d].age
      BY <2>1
    <3>3. TTL \in Nat
      BY Sizes
    <3> QED
      BY <2>3, <3>1, <3>2, <3>3
  <2>5. j > d
    BY <1>1, <2>2, <2>4
  <2>6. j - d \in 1 .. m /\ j - d # k /\ j - d \in 1 .. (Len(log) - d) /\ (j - d) + d = j
    BY <1>1, <2>1, <2>2, <2>5
  <2>7. log'[j - d].age = log[j].age + 1 /\ log'[k].age = log[k + d].age + 1
    BY <1>4, <2>6
  <2>8. log'[j - d].age <= log'[k].age
    <3>1. log[j].age \in 0 .. TTL /\ log[k + d].age \in 0 .. TTL
      BY <1>2, <2>2
    <3>2. log[j].age <= log[k + d].age
      BY <2>1
    <3>3. log[j].age + 1 <= log[k + d].age + 1
      BY <3>1, <3>2
    <3> QED
      BY <2>7, <3>3
  <2> QED
    BY <2>6, <2>8 DEF Crowd
<1> DEFINE f == [j \in Crowd(k + d, m + d) |-> j - d]
<1>6. f \in Injection(Crowd(k + d, m + d), Crowd(k, m)')
  <2>1. Crowd(k + d, m + d) \subseteq Int /\ d \in Int
    BY <1>1 DEF Crowd
  <2>2. f \in [Crowd(k + d, m + d) -> Crowd(k, m)']
    BY <1>5
  <2>3. \A a, b \in Crowd(k + d, m + d) : f[a] = f[b] => a = b
    BY <2>1
  <2> QED
    BY <2>2, <2>3 DEF Injection, IsInjective
<1>7. IsFiniteSet(Crowd(k, m)')
  <2>1. Crowd(k, m)' \in SUBSET (1 .. m) /\ m \in Int
    BY <1>1 DEF Crowd
  <2> QED
    BY <2>1, PartOfInterval
<1> QED
  BY <1>6, <1>7, FS_Injection

-----------------------------------------------------------------------------
\* ws_server_start's empty cache satisfies the invariant.
LEMMA InitAuth == Init => AuthInv
<1> SUFFICES ASSUME Init PROVE AuthInv
  OBVIOUS
<1> USE Sizes
<1>1. \A i \in Entries : cache[i] = [valid |-> FALSE, timestamp |-> 0, nonce |-> NoNonce]
  BY DEF Init
<1>2. \A i \in Entries : ~cache[i].valid
  BY <1>1
<1>3. log = <<>> /\ DOMAIN log = {}
  BY DEF Init
<1>4. AuthTypeOK
  <2>1. cache \in [Entries -> [valid : BOOLEAN, timestamp : 0 .. (TickMod - 1),
                              nonce : Nonces \cup {NoNonce}]]
    BY DEF Init
  <2>2. log \in Seq([nonce : Nonces, age : 0 .. TTL])
    BY <1>3
  <2>3. req.nonce = NoNonce /\ req.verdict = "none" /\ tick = 0 /\ idle = 0
    BY DEF Init, NoRequest
  <2>4. \A n \in Nonces, i, j \in Entries : Match(i, n) /\ Match(j, n) => i = j
    BY <1>2 DEF Match
  <2> QED
    BY <2>1, <2>2, <2>3, <2>4 DEF AuthTypeOK
<1>5. AgesUnwrapped /\ LiveIsLogged
  BY <1>2 DEF AgesUnwrapped, LiveIsLogged
<1>6. LoggedIsLive /\ LogInOrder /\ ReplayNeedsFullCache
  BY <1>3 DEF LoggedIsLive, LogInOrder, ReplayNeedsFullCache
<1>7. TotpTolerance
  BY DEF Init, NoRequest, TotpTolerance
<1> QED
  BY <1>4, <1>5, <1>6, <1>7 DEF AuthInv

\* A step that keeps the clock, the log and the live entries keeps what is said of them.
LEMMA SameLive ==
    ASSUME AuthInv, UNCHANGED <<tick, log>>,
           \A i \in Entries : /\ cache'[i].timestamp = cache[i].timestamp
                              /\ cache'[i].nonce = cache[i].nonce
                              /\ cache'[i].valid => cache[i].valid
                              /\ Live(i) => cache'[i].valid
    PROVE  /\ (\A n \in Nonces, i, j \in Entries : Match(i, n) /\ Match(j, n) => i = j)'
           /\ LiveIsLogged' /\ LoggedIsLive' /\ LogInOrder' /\ ReplayNeedsFullCache'
<1>1. ASSUME NEW i \in Entries
      PROVE  Age(cache[i])' = Age(cache[i]) /\ Expired(cache[i])' = Expired(cache[i])
  BY DEF Age, Expired
<1>2. ASSUME NEW i \in Entries, NEW n \in Nonces PROVE Match(i, n)' = Match(i, n)
  BY <1>1 DEF Match, Live
<1>3. (\A n \in Nonces, i, j \in Entries : Match(i, n) /\ Match(j, n) => i = j)'
  BY <1>2 DEF AuthInv, AuthTypeOK
<1>4. LiveIsLogged'
  BY <1>1 DEF AuthInv, LiveIsLogged
<1>5. LoggedIsLive'
  <2> SUFFICES ASSUME NEW k \in DOMAIN log
      PROVE  \/ \E i \in Entries : Match(i, log[k].nonce)' /\ Age(cache[i])' = log[k].age
             \/ Cardinality(Crowd(k, Len(log))) >= CacheSize
    BY DEF LoggedIsLive, Crowd
  <2>1. log[k].nonce \in Nonces
    BY AuthTypes DEF AuthInv, Stored
  <2> QED
    BY <1>1, <1>2, <2>1 DEF AuthInv, LoggedIsLive
<1>6. LogInOrder' /\ ReplayNeedsFullCache'
  BY DEF AuthInv, LogInOrder, ReplayNeedsFullCache, Crowd
<1> QED
  BY <1>3, <1>4, <1>5, <1>6

\* A request that is refused leaves the live entries as they are.
LEMMA RefusalKeeps ==
    ASSUME AuthInv, NEW n \in Nonces, RefuseDuplicate(n) \/ RefuseSignature(n)
    PROVE  AuthInv'
<1>1. cache' = Purged(n) /\ UNCHANGED <<tick, log>>
  BY DEF RefuseDuplicate, RefuseSignature
<1>2. AuthTypeOK /\ cache \in [Entries -> Entry]
  BY AuthTypes DEF AuthInv
<1>3. \A i \in Entries : /\ cache'[i].timestamp = cache[i].timestamp
                         /\ cache'[i].nonce = cache[i].nonce
                         /\ cache'[i].valid => cache[i].valid
                         /\ Live(i) => cache'[i].valid
  BY <1>1, <1>2, PurgeKeeps
<1>4. /\ (\A m \in Nonces, i, j \in Entries : Match(i, m) /\ Match(j, m) => i = j)'
      /\ LiveIsLogged' /\ LoggedIsLive' /\ LogInOrder' /\ ReplayNeedsFullCache'
  BY <1>1, <1>3, SameLive
<1>5. req'.nonce = n /\ req'.verdict \in {"duplicate", "signature"}
  BY DEF RefuseDuplicate, RefuseSignature, Answer
<1>6. idle' \in 0 .. MaxIdle
  BY <1>2, Sizes, AuthTypes DEF RefuseDuplicate, RefuseSignature
<1>7. cache' \in [Entries -> Entry]
  BY <1>1, <1>2, PurgeKeeps
<1>8. AuthTypeOK'
  BY <1>1, <1>2, <1>4, <1>5, <1>6, <1>7 DEF AuthTypeOK, Entry
<1>9. AgesUnwrapped'
  <2> SUFFICES ASSUME NEW i \in Entries, cache'[i].valid
               PROVE  Age(cache[i])' <= TTL + idle'
    BY DEF AgesUnwrapped
  <2>1. Age(cache[i])' = Age(cache[i])
    BY <1>1, <1>3 DEF Age
  <2>2. Age(cache[i]) <= TTL + idle
    BY <1>3 DEF AuthInv, AgesUnwrapped
  <2>3. CASE RefuseDuplicate(n)
    BY <2>1, <2>2, <2>3 DEF RefuseDuplicate
  <2>4. CASE RefuseSignature(n)
    <3>1. ~Expired(cache[i]) /\ idle' = 0
      BY <1>1, <1>2, <2>4, PurgeKeeps DEF RefuseSignature, Live
    <3>2. ~(Age(cache[i]) > TTL)
      BY <3>1 DEF Expired
    <3> QED
      BY <1>2, <2>1, <3>1, <3>2, AgeType, Sizes
  <2> QED
    BY <2>3, <2>4
<1>10. TotpTolerance'
  BY <1>5 DEF TotpTolerance
<1> QED
  BY <1>4, <1>8, <1>9, <1>10 DEF AuthInv

\* A tick drops from the log what leaves the replay window, and no more from the cache.
LEMMA TickKeeps ==
    ASSUME AuthInv, Tick
    PROVE  AuthInv'
<1>1. AuthTypeOK /\ AgesUnwrapped
  BY DEF AuthInv
<1>2. /\ Len(log) \in Nat /\ DOMAIN log = 1 .. Len(log) /\ \A j \in 1 .. Len(log) : log[j] \in Stored
      /\ tick \in 0 .. (TickMod - 1) /\ idle \in 0 .. MaxIdle
  BY <1>1, AuthTypes
<1>3. PICK d \in 0 .. Len(log) :
        /\ \A k \in DOMAIN log : k <= d <=> log[k].age = TTL
        /\ log' = [k \in 1 .. (Len(log) - d) |-> [log[k + d] EXCEPT !.age = @ + 1]]
  BY DEF Tick
<1>4. cache' = cache /\ tick' \in 0 .. (TickMod - 1) /\ idle' = idle + 1 /\ idle' \in 0 .. MaxIdle
  <2>1. tick' \in 0 .. (TickMod - 1)
    BY <1>2, Sizes, TickAfter DEF Tick
  <2> QED
    BY <1>2, <2>1, Sizes DEF Tick
<1>0. PICK L \in Nat : L = Len(log) - d
  <2>1. Len(log) - d \in Nat
    BY <1>2
  <2> QED
    BY <2>1
<1>5. /\ \A k \in 1 .. L : k + d \in 1 .. Len(log) /\ k + d > d
      /\ \A k \in 1 .. Len(log) : k > d => k - d \in 1 .. L /\ (k - d) + d = k
  BY <1>0, <1>2
<1>6. ASSUME NEW k \in 1 .. L
      PROVE  /\ log'[k] = [log[k + d] EXCEPT !.age = @ + 1]
             /\ log[k + d].age \in 0 .. TTL /\ log[k + d].age # TTL /\ log[k + d].age \in Int
             /\ log[k + d].nonce \in Nonces
  <2>1. log[k + d] \in Stored /\ log[k + d].age # TTL
    BY <1>2, <1>3, <1>5
  <2> QED
    BY <1>0, <1>3, <2>1 DEF Stored
<1>7. ASSUME NEW k \in 1 .. L
      PROVE  /\ log'[k].nonce = log[k + d].nonce /\ log'[k].age = log[k + d].age + 1
             /\ log'[k] \in Stored
  <2>1. log[k + d].age + 1 \in 0 .. TTL
    <3>1. log[k + d].age \in 0 .. TTL /\ log[k + d].age # TTL
      BY <1>6
    <3> QED
      BY <3>1, Sizes
  <2>2. log[k + d] \in Stored
    BY <1>2, <1>5
  <2> QED
    BY <1>6, <2>1, <2>2 DEF Stored
<1>8. log' \in Seq(Stored) /\ Len(log') = L /\ DOMAIN log' = 1 .. L
  <2>1. log' = [k \in 1 .. L |-> log'[k]]
    BY <1>0, <1>3
  <2>2. log' \in [1 .. L -> Stored]
    BY <1>7, <2>1
  <2> QED
    BY <1>5, <2>2
<1>9. ASSUME NEW i \in Entries, cache[i].valid
      PROVE  /\ Age(cache[i])' = Age(cache[i]) + 1 /\ Age(cache[i]) \in Nat
             /\ Expired(cache[i]) <=> Age(cache[i]) > TTL
             /\ Expired(cache[i])' <=> Age(cache[i]) + 1 > TTL
  <2>1. Age(cache[i])' = Age(cache[i]) + 1
    BY <1>1, <1>9, AgeAfterTick
  <2>2. Age(cache[i]) \in Nat
    BY <1>1, AgeType, Sizes
  <2> QED
    BY <2>1, <2>2 DEF Expired
<1>10. (\A n \in Nonces, i, j \in Entries : Match(i, n) /\ Match(j, n) => i = j)'
  <2>1. ASSUME NEW n \in Nonces, NEW i \in Entries, Match(i, n)' PROVE Match(i, n)
    <3>1. cache[i].valid /\ ~Expired(cache[i])' /\ cache[i].nonce = n
      BY <1>4, <2>1 DEF Match
    <3>2. ~Expired(cache[i])
      BY <1>9, <3>1, Sizes
    <3> QED
      BY <3>1, <3>2 DEF Match
  <2> QED
    BY <1>1, <2>1 DEF AuthTypeOK
<1>11. AuthTypeOK'
  <2>1. req'.nonce = NoNonce /\ req'.verdict = "none"
    BY DEF Tick, NoRequest
  <2> QED
    BY <1>1, <1>4, <1>8, <1>10, <2>1 DEF AuthTypeOK, Stored
<1>12. AgesUnwrapped'
  <2> SUFFICES ASSUME NEW i \in Entries, cache[i].valid PROVE Age(cache[i])' <= TTL + idle'
    BY <1>4 DEF AgesUnwrapped
  <2>1. Age(cache[i]) <= TTL + idle
    BY <1>1 DEF AgesUnwrapped
  <2> QED
    BY <1>2, <1>4, <1>9, <2>1, Sizes
<1>13. LiveIsLogged'
  <2> SUFFICES ASSUME NEW i \in Entries, cache[i].valid, ~Expired(cache[i])'
               PROVE  \E k \in 1 .. L : log'[k].nonce = cache[i].nonce /\ log'[k].age = Age(cache[i])'
    BY <1>4, <1>8 DEF LiveIsLogged
  <2>1. ~Expired(cache[i]) /\ Age(cache[i]) < TTL
    BY <1>9, Sizes
  <2>2. PICK q \in 1 .. Len(log) : log[q].nonce = cache[i].nonce /\ log[q].age = Age(cache[i])
    BY <1>2, <2>1 DEF AuthInv, LiveIsLogged
  <2>3. q > d
    BY <1>2, <1>3, <2>1, <2>2, <1>9, Sizes
  <2>4. q - d \in 1 .. L /\ (q - d) + d = q
    BY <1>5, <2>3
  <2>5. log'[q - d].nonce = log[q].nonce /\ log'[q - d].age = log[q].age + 1
    BY <1>7, <2>4
  <2>6. Age(cache[i])' = Age(cache[i]) + 1
    BY <1>9
  <2>7. log'[q - d].nonce = cache[i].nonce /\ log'[q - d].age = Age(cache[i])'
    BY <2>2, <2>5, <2>6
  <2> QED
    BY <2>4, <2>7
<1>14. LoggedIsLive'
  <2>1. ASSUME NEW k \in 1 .. L
        PROVE  \/ \E i \in Entries : /\ cache'[i].valid /\ ~Expired(cache[i])'
                                     /\ cache'[i].nonce = log'[k].nonce
                                     /\ Age(cache[i])' = log'[k].age
               \/ Cardinality(Crowd(k, L)') >= CacheSize
    <3>1. k + d \in 1 .. Len(log) /\ L + d = Len(log) /\ L \in 0 .. L
      BY <1>0, <1>2, <1>5
    <3>2. CASE \E i \in Entries : Match(i, log[k + d].nonce) /\ Age(cache[i]) = log[k + d].age
      <4>1. PICK i \in Entries : /\ cache[i].valid /\ cache[i].nonce = log[k + d].nonce
                                 /\ Age(cache[i]) = log[k + d].age
        BY <3>2 DEF Match
      <4>2. log[k + d].age \in 0 .. TTL /\ log[k + d].age # TTL
        BY <1>6
      <4>3. Age(cache[i])' = log[k + d].age + 1 /\ ~Expired(cache[i])'
        BY <1>9, <4>1, <4>2, Sizes
      <4> QED
        BY <1>4, <1>7, <4>1, <4>3
    <3>3. CASE Cardinality(Crowd(k + d, Len(log))) >= CacheSize
      <4>1. Cardinality(Crowd(k + d, L + d)) <= Cardinality(Crowd(k, L)')
        BY <1>0, <1>1, <1>3, <3>1, CrowdAfterTick
      <4>2. Cardinality(Crowd(k, L)') \in Nat /\ Cardinality(Crowd(k + d, L + d)) \in Nat
        <5>1. Crowd(k, L)' \in SUBSET (1 .. L) /\ L \in Int /\ L + d \in Int
          BY <1>0 DEF Crowd
        <5> QED
          BY <5>1, PartOfInterval, CrowdSize
      <4> QED
        BY <3>1, <3>3, <4>1, <4>2, Sizes
    <3> QED
      BY <1>2, <3>1, <3>2, <3>3 DEF AuthInv, LoggedIsLive
  <2> QED
    BY <1>8, <2>1 DEF LoggedIsLive, Match, Crowd
<1>15. LogInOrder'
  <2> SUFFICES ASSUME NEW k \in 1 .. L, NEW m \in 1 .. L, k < m
               PROVE  log'[k].age >= log'[m].age
    BY <1>8 DEF LogInOrder
  <2>1. k + d \in 1 .. Len(log) /\ m + d \in 1 .. Len(log) /\ k + d < m + d
    BY <1>2, <1>5
  <2>2. log[k + d].age >= log[m + d].age
    BY <1>2, <2>1 DEF AuthInv, LogInOrder
  <2>3. log[k + d].age \in Int /\ log[m + d].age \in Int
    BY <1>6
  <2> QED
    BY <1>7, <2>2, <2>3
<1>16. ReplayNeedsFullCache'
  <2>1. ASSUME NEW k \in 1 .. L, NEW m \in 1 .. L, k < m, log'[k].nonce = log'[m].nonce
        PROVE  Cardinality(Crowd(k, m - 1)') >= CacheSize
    <3>1. /\ k + d \in 1 .. Len(log) /\ m + d \in 1 .. Len(log) /\ k + d < m + d
          /\ m - 1 \in 0 .. L /\ (m - 1) + d = (m + d) - 1
      BY <1>2, <1>5, <2>1
    <3>2. Cardinality(Crowd(k + d, (m - 1) + d)) >= CacheSize
      BY <1>2, <1>7, <2>1, <3>1 DEF AuthInv, ReplayNeedsFullCache
    <3>3. Cardinality(Crowd(k + d, (m - 1) + d)) <= Cardinality(Crowd(k, m - 1)')
      BY <1>0, <1>1, <1>3, <3>1, CrowdAfterTick
    <3>4. Cardinality(Crowd(k, m - 1)') \in Nat /\ Cardinality(Crowd(k + d, (m - 1) + d)) \in Nat
      <4>1. Crowd(k, m - 1)' \in SUBSET (1 .. (m - 1)) /\ m - 1 \in Int /\ (m - 1) + d \in Int
        BY <1>0 DEF Crowd
      <4> QED
        BY <4>1, PartOfInterval, CrowdSize
    <3> QED
      BY <3>2, <3>3, <3>4, Sizes
  <2> QED
    BY <1>8, <2>1 DEF ReplayNeedsFullCache
<1>17. TotpTolerance'
  BY DEF Tick, NoRequest, TotpTolerance
<1> QED
  BY <1>11, <1>12, <1>13, <1>14, <1>15, <1>16, <1>17 DEF AuthInv

\* When a full cache gives up its oldest entry, the other entries and the new nonce are the crowd of
\* the nonce that is lost.
LEMMA Crowded ==
    ASSUME AuthInv, NEW i \in Entries, NEW k \in 1 .. Len(log), NEW S,
           \A j \in Entries : Live(j) /\ Age(cache[j]) <= Age(cache[i]),
           Match(i, log[k].nonce), Age(cache[i]) = log[k].age,
           S = Crowd(k, Len(log)) \cup {Len(log) + 1}
    PROVE  Cardinality(S) >= CacheSize
<1>1. AuthTypeOK /\ Len(log) \in Nat /\ DOMAIN log = 1 .. Len(log)
  BY AuthTypes DEF AuthInv
<1>2. \A q \in 1 .. Len(log) : log[q].nonce \in Nonces
  BY AuthTypes, <1>1 DEF Stored
<1> DEFINE Of(j) == CHOOSE q \in 1 .. Len(log) :
                        log[q].nonce = cache[j].nonce /\ log[q].age = Age(cache[j])
<1>3. ASSUME NEW j \in Entries
      PROVE  Of(j) \in 1 .. Len(log) /\ log[Of(j)].nonce = cache[j].nonce
             /\ log[Of(j)].age = Age(cache[j])
  <2>1. \E q \in 1 .. Len(log) : log[q].nonce = cache[j].nonce /\ log[q].age = Age(cache[j])
    BY <1>1 DEF AuthInv, LiveIsLogged, Live
  <2> QED
    BY <2>1
<1> HIDE DEF Of
<1>4. ASSUME NEW a \in Entries, NEW b \in Entries, cache[a].nonce = cache[b].nonce PROVE a = b
  <2>1. cache[a].nonce \in Nonces
    BY <1>2, <1>3
  <2>2. Match(a, cache[a].nonce) /\ Match(b, cache[a].nonce)
    BY <1>4 DEF Match, Live
  <2> QED
    BY <1>1, <2>1, <2>2 DEF AuthTypeOK
<1>5. ASSUME NEW j \in Entries, j # i PROVE Of(j) \in Crowd(k, Len(log))
  <2>1. cache[i].nonce = log[k].nonce
    BY DEF Match
  <2>2. Of(j) # k
    BY <1>3, <1>4, <1>5, <2>1
  <2>3. log[Of(j)].age <= log[k].age
    BY <1>3
  <2> QED
    BY <1>3, <2>2, <2>3 DEF Crowd
<1> DEFINE f == [j \in Entries |-> IF j = i THEN Len(log) + 1 ELSE Of(j)]
<1>6. f \in Injection(Entries, S)
  <2>1. f \in [Entries -> S]
    BY <1>5
  <2>2. ASSUME NEW a \in Entries, NEW b \in Entries, f[a] = f[b] PROVE a = b
    <3>1. \A j \in Entries : Of(j) # Len(log) + 1
      BY <1>1, <1>3
    <3>2. CASE a = i \/ b = i
      BY <2>2, <3>1, <3>2
    <3>3. CASE a # i /\ b # i
      <4>1. Of(a) = Of(b)
        BY <2>2, <3>3
      <4> QED
        BY <1>3, <1>4, <4>1
    <3> QED
      BY <3>2, <3>3
  <2> QED
    BY <2>1, <2>2 DEF Injection, IsInjective
<1>7. IsFiniteSet(S) /\ Cardinality(S) \in Nat
  <2>1. IsFiniteSet(Crowd(k, Len(log)))
    BY <1>1, CrowdSize
  <2> QED
    BY <2>1, FS_AddElement, FS_CardinalityType
<1>8. Cardinality(Entries) <= Cardinality(S)
  BY <1>6, <1>7, FS_Injection
<1>9. Cardinality(Entries) = CacheSize
  BY Sizes, FS_Interval DEF Entries
<1> QED
  BY <1>7, <1>8, <1>9, Sizes

\* A signature that is right stores its nonce, in an invalid entry or that of the oldest one.
LEMMA StoreKeeps ==
    ASSUME AuthInv, NEW n \in Nonces, NEW now \in 0 .. MaxTime, NEW code \in Steps,
           VerifySignature(n, now, code)
    PROVE  AuthInv'
<1>1. /\ AuthTypeOK /\ Len(log) \in Nat /\ DOMAIN log = 1 .. Len(log) /\ log \in Seq(Stored)
      /\ \A j \in 1 .. Len(log) : log[j] \in Stored
      /\ tick \in 0 .. (TickMod - 1) /\ cache \in [Entries -> Entry]
  BY AuthTypes DEF AuthInv
<1>2. PICK i \in Entries :
        /\ StoreSlot(Purged(n), i)
        /\ cache' = [Purged(n) EXCEPT ![i] = [valid |-> TRUE, timestamp |-> tick, nonce |-> n]]
  BY DEF VerifySignature
<1>3. ~IsDuplicate(n) /\ idle' = 0 /\ tick' = tick
  BY DEF VerifySignature
<1> DEFINE e == [nonce |-> n, age |-> 0]
<1>4. e \in Stored /\ e.age = 0 /\ e.nonce = n /\ log' = Append(log, e)
  BY Sizes DEF VerifySignature, Stored
<1> HIDE DEF e
<1>5. PICK L \in Nat : L = Len(log)
  BY <1>1
<1>6. /\ log' \in Seq(Stored) /\ Len(log') = L + 1 /\ DOMAIN log' = 1 .. (L + 1)
      /\ log'[L + 1] = e /\ \A k \in 1 .. L : log'[k] = log[k]
  BY <1>1, <1>4, <1>5, AppendProperties
<1>7. /\ Purged(n) \in [Entries -> Entry]
      /\ \A j \in Entries : /\ Purged(n)[j].timestamp = cache[j].timestamp
                            /\ Purged(n)[j].nonce = cache[j].nonce
                            /\ Purged(n)[j].valid <=> Live(j)
  BY <1>1, <1>3, PurgeKeeps
<1>8. /\ cache' \in [Entries -> Entry]
      /\ cache'[i] = [valid |-> TRUE, timestamp |-> tick, nonce |-> n]
      /\ \A j \in Entries : j # i => cache'[j] = Purged(n)[j]
  <2>1. [valid |-> TRUE, timestamp |-> tick, nonce |-> n] \in Entry
    BY <1>1 DEF Entry
  <2> QED
    BY <1>2, <1>7, <2>1
<1>9. Age(cache[i])' = 0 /\ cache'[i].valid /\ cache'[i].nonce = n /\ ~Expired(cache[i])'
  <2>1. (tick - tick) % TickMod = 0
    BY <1>1, Sizes, TickDifference
  <2>2. Age(cache[i])' = 0
    BY <1>3, <1>8, <2>1 DEF Age
  <2> QED
    BY <1>8, <2>2, Sizes DEF Expired
<1>10. ASSUME NEW j \in Entries, j # i
       PROVE  /\ Age(cache[j])' = Age(cache[j]) /\ Expired(cache[j])' = Expired(cache[j])
              /\ cache'[j].nonce = cache[j].nonce
              /\ cache'[j].valid <=> Live(j)
  BY <1>3, <1>7, <1>8, <1>10 DEF Age, Expired
<1>11. \A j \in Entries : ~Match(j, n)
  BY <1>3 DEF IsDuplicate
<1>12. ASSUME NEW m \in Nonces, NEW j \in Entries
       PROVE  Match(j, m)' <=> IF j = i THEN m = n ELSE Match(j, m)
  BY <1>9, <1>10 DEF Match, Live
<1>13. (\A m \in Nonces, a, b \in Entries : Match(a, m) /\ Match(b, m) => a = b)'
  BY <1>1, <1>11, <1>12 DEF AuthTypeOK
<1>14. AuthTypeOK'
  <2>1. req'.nonce = n /\ req'.verdict \in {"accepted", "totp"}
    BY DEF VerifySignature, Answer
  <2> QED
    BY <1>1, <1>3, <1>6, <1>8, <1>13, <2>1, Sizes DEF AuthTypeOK, Entry, Stored
<1>15. AgesUnwrapped'
  <2> SUFFICES ASSUME NEW j \in Entries, cache'[j].valid PROVE Age(cache[j])' <= TTL
    <3>1. TTL + idle' = TTL
      BY <1>3, Sizes
    <3> QED
      BY <3>1 DEF AgesUnwrapped
  <2>1. CASE j = i
    BY <1>9, <2>1, Sizes
  <2>2. CASE j # i
    <3>1. Age(cache[j])' = Age(cache[j]) /\ ~(Age(cache[j]) > TTL)
      BY <1>10, <2>2 DEF Live, Expired
    <3> QED
      BY <1>1, <3>1, AgeType, Sizes
  <2> QED
    BY <2>1, <2>2
<1>16. LiveIsLogged'
  <2> SUFFICES ASSUME NEW j \in Entries, cache'[j].valid, ~Expired(cache[j])'
               PROVE  \E k \in 1 .. (L + 1) : log'[k].nonce = cache'[j].nonce
                                              /\ log'[k].age = Age(cache[j])'
    BY <1>6 DEF LiveIsLogged
  <2>1. CASE j = i
    BY <1>4, <1>6, <1>9, <2>1
  <2>2. CASE j # i
    <3>1. PICK k \in 1 .. L : log[k].nonce = cache[j].nonce /\ log[k].age = Age(cache[j])
      BY <1>1, <1>5, <1>10, <2>2 DEF AuthInv, LiveIsLogged, Live
    <3>2. k \in 1 .. (L + 1)
      OBVIOUS
    <3> QED
      BY <1>6, <1>10, <2>2, <3>1, <3>2
  <2> QED
    BY <2>1, <2>2
<1>17. LoggedIsLive'
  <2>1. ASSUME NEW k \in 1 .. (L + 1)
        PROVE  \/ \E j \in Entries : /\ cache'[j].valid /\ ~Expired(cache[j])'
                                     /\ cache'[j].nonce = log'[k].nonce
                                     /\ Age(cache[j])' = log'[k].age
               \/ Cardinality(Crowd(k, L + 1)') >= CacheSize
    <3>1. CASE k = L + 1
      BY <1>4, <1>6, <1>9, <3>1
    <3>2. CASE k # L + 1
      <4>1. k \in 1 .. L /\ log'[k] = log[k] /\ log[k].nonce \in Nonces
        <5>1. k \in 1 .. L
          BY <3>2
        <5> QED
          BY <1>1, <1>5, <1>6, <5>1 DEF Stored
      <4>2. Crowd(k, L + 1)' = Crowd(k, L) \cup {L + 1}
        <5>1. L \in 0 .. Len(log) /\ k \in 1 .. Len(log)
          BY <1>5, <4>1
        <5> QED
          BY <1>1, <1>4, <1>5, <5>1, CrowdAfterAppend
      <4>3. CASE Cardinality(Crowd(k, L)) >= CacheSize
        <5>1. IsFiniteSet(Crowd(k, L)) /\ Cardinality(Crowd(k, L)) \in Nat
          BY CrowdSize
        <5>2. IsFiniteSet(Crowd(k, L) \cup {L + 1})
          BY <5>1, FS_AddElement
        <5>3. /\ Cardinality(Crowd(k, L)) <= Cardinality(Crowd(k, L) \cup {L + 1})
              /\ Cardinality(Crowd(k, L) \cup {L + 1}) \in Nat
          BY <5>2, FS_Subset, FS_CardinalityType
        <5>4. CacheSize \in Nat
          BY Sizes
        <5>5. Cardinality(Crowd(k, L) \cup {L + 1}) >= CacheSize
          BY <4>3, <5>1, <5>3, <5>4
        <5> QED
          BY <4>2, <5>5
      <4>4. ASSUME NEW j \in Entries, Match(j, log[k].nonce), Age(cache[j]) = log[k].age, j # i
            PROVE  /\ cache'[j].valid /\ ~Expired(cache[j])'
                   /\ cache'[j].nonce = log'[k].nonce
                   /\ Age(cache[j])' = log'[k].age
        BY <1>10, <4>1, <4>4 DEF Match, Live
      <4>5. CASE Match(i, log[k].nonce) /\ Age(cache[i]) = log[k].age
        <5>1. Purged(n)[i].valid
          BY <1>7, <4>5 DEF Match, Live
        <5>2. \A j \in Entries : Purged(n)[j].valid /\ Age(Purged(n)[j]) <= Age(Purged(n)[i])
          BY <1>2, <5>1 DEF StoreSlot
        <5>3. \A j \in Entries : Age(Purged(n)[j]) = Age(cache[j])
          BY <1>7, SameAge
        <5>4. \A j \in Entries : Live(j) /\ Age(cache[j]) <= Age(cache[i])
          BY <1>7, <5>2, <5>3
        <5>5. Cardinality(Crowd(k, L) \cup {L + 1}) >= CacheSize
          BY <1>5, <4>1, <4>5, <5>4, Crowded
        <5> QED
          BY <4>2, <5>5
      <4>6. \/ \E j \in Entries : Match(j, log[k].nonce) /\ Age(cache[j]) = log[k].age
            \/ Cardinality(Crowd(k, L)) >= CacheSize
        BY <1>1, <1>5, <4>1 DEF AuthInv, LoggedIsLive
      <4> QED
        BY <4>3, <4>4, <4>5, <4>6
    <3> QED
      BY <3>1, <3>2
  <2> QED
    BY <1>6, <2>1 DEF LoggedIsLive, Match, Crowd
<1>18. LogInOrder'
  <2> SUFFICES ASSUME NEW k \in 1 .. (L + 1), NEW m \in 1 .. (L + 1), k < m
               PROVE  log'[k].age >= log'[m].age
    BY <1>6 DEF LogInOrder
  <2>1. k \in 1 .. L /\ log'[k] = log[k] /\ log[k].age \in Nat
    <3>1. k \in 1 .. L
      OBVIOUS
    <3> QED
      BY <1>1, <1>5, <1>6, <3>1, Sizes DEF Stored
  <2>2. CASE m = L + 1
    BY <1>4, <1>6, <2>1, <2>2
  <2>3. CASE m # L + 1
    <3>1. m \in 1 .. L
      BY <2>3
    <3> QED
      BY <1>1, <1>5, <1>6, <2>1, <3>1 DEF AuthInv, LogInOrder
  <2> QED
    BY <2>2, <2>3
<1>19. ReplayNeedsFullCache'
  <2>1. ASSUME NEW k \in 1 .. (L + 1), NEW m \in 1 .. (L + 1), k < m,
               log'[k].nonce = log'[m].nonce
        PROVE  Cardinality(Crowd(k, m - 1)') >= CacheSize
    <3>1. /\ k \in 1 .. L /\ k \in 1 .. Len(log) /\ log'[k] = log[k] /\ m - 1 \in 0 .. L
          /\ m - 1 \in 0 .. Len(log)
      <4>1. k \in 1 .. L /\ m - 1 \in 0 .. L
        BY <2>1
      <4> QED
        BY <1>5, <1>6, <4>1
    <3>2. Crowd(k, m - 1)' = Crowd(k, m - 1)
      BY <1>1, <1>4, <3>1, CrowdAfterAppend
    <3>3. CASE m = L + 1
      <4>1. log[k].nonce = n
        BY <1>4, <1>6, <2>1, <3>1, <3>3
      <4>2. Cardinality(Crowd(k, Len(log))) >= CacheSize
        BY <1>1, <1>11, <3>1, <4>1 DEF AuthInv, LoggedIsLive
      <4>3. m - 1 = Len(log)
        BY <1>5, <3>3
      <4> QED
        BY <3>2, <4>2, <4>3
    <3>4. CASE m # L + 1
      <4>1. m \in 1 .. L
        BY <3>4
      <4> QED
        BY <1>1, <1>5, <1>6, <2>1, <3>1, <3>2, <4>1 DEF AuthInv, ReplayNeedsFullCache
    <3> QED
      BY <3>3, <3>4
  <2> QED
    BY <1>6, <2>1 DEF ReplayNeedsFullCache
<1>20. TotpTolerance'
  <2>1. now \in Nat /\ code \in Nat
    BY WsAuthAssumption DEF Steps
  <2>2. /\ req'.now = now /\ req'.code = code
        /\ req'.verdict = IF TotpMatches(now, code) THEN "accepted" ELSE "totp"
    BY DEF VerifySignature, Answer
  <2>3. TotpMatches(now, code) <=> code - (now \div Period) \in -Window .. Window
    BY <2>1, TotpWindow
  <2> QED
    BY <2>2, <2>3 DEF TotpTolerance
<1> QED
  BY <1>14, <1>15, <1>16, <1>17, <1>18, <1>19, <1>20 DEF AuthInv

-----------------------------------------------------------------------------
\* Every step preserves the invariant.
LEMMA NextAuth == AuthInv /\ [Next]_vars => AuthInv'
<1> SUFFICES ASSUME AuthInv, [Next]_vars PROVE AuthInv'
  OBVIOUS
<1>1. CASE Tick
  BY <1>1, TickKeeps
<1>2. ASSUME NEW n \in Nonces, RefuseDuplicate(n) \/ RefuseSignature(n) PROVE AuthInv'
  BY <1>2, RefusalKeeps
<1>3. ASSUME NEW n \in Nonces, NEW now \in 0 .. MaxTime, NEW code \in Steps,
             VerifySignature(n, now, code)
      PROVE  AuthInv'
  BY <1>3, StoreKeeps
<1>4. CASE UNCHANGED vars
  <2>1. UNCHANGED <<cache, tick, idle, req, log>>
    BY <1>4 DEF vars
  <2>2. /\ AuthTypeOK /\ AgesUnwrapped /\ LiveIsLogged /\ LoggedIsLive /\ LogInOrder
        /\ ReplayNeedsFullCache /\ TotpTolerance
    BY DEF AuthInv
  <2>3. AuthTypeOK'
    BY <2>1, <2>2 DEF AuthTypeOK, Match, Expired, Age
  <2>4. AgesUnwrapped'
    BY <2>1, <2>2 DEF AgesUnwrapped, Age
  <2>5. LiveIsLogged'
    BY <2>1, <2>2 DEF LiveIsLogged, Expired, Age
  <2>6. LoggedIsLive'
    BY <2>1, <2>2 DEF LoggedIsLive, Crowd, Match, Expired, Age
  <2>7. LogInOrder'
    BY <2>1, <2>2 DEF LogInOrder
  <2>8. ReplayNeedsFullCache'
    BY <2>1, <2>2 DEF ReplayNeedsFullCache, Crowd
  <2>9. TotpTolerance'
    BY <2>1, <2>2 DEF TotpTolerance
  <2> QED
    BY <2>3, <2>4, <2>5, <2>6, <2>7, <2>8, <2>9 DEF AuthInv
<1> QED
  BY <1>1, <1>2, <1>3, <1>4 DEF Next

\* The cache of nonces, the ticks it is dated with and the requests that went through it agree.
THEOREM AuthInvariant == Spec => []AuthInv
<1> QED
  BY InitAuth, NextAuth, PTL DEF Spec

\* The cache keeps its type and holds no nonce twice.
THEOREM AuthTyped == Spec => []AuthTypeOK
<1>1. AuthInv => AuthTypeOK
  BY DEF AuthInv
<1> QED
  BY <1>1, AuthInvariant, PTL

\* A nonce passes twice within the replay window only if a cache's worth of nonces came in between:
\* neither lazy expiry nor a wrap of the tick counter forgets one earlier.
THEOREM AuthReplays == Spec => []ReplayNeedsFullCache
<1>1. AuthInv => ReplayNeedsFullCache
  BY DEF AuthInv
<1> QED
  BY <1>1, AuthInvariant, PTL

\* totp_verify accepts exactly the codes of the 2 * Window + 1 time steps around the current one.
THEOREM AuthTotp == Spec => []TotpTolerance
<1>1. AuthInv => TotpTolerance
  BY DEF AuthInv
<1> QED
  BY <1>1, AuthInvariant, PTL

\* nonce_is_duplicate refuses no nonce that did not pass the handshake within the replay window.
THEOREM AuthRefusals == Spec => OnlyReplaysRefused
<1>1. ASSUME AuthInv, [Next]_vars
      PROVE  [req' # req /\ req'.verdict = "duplicate" =>
                \E k \in DOMAIN log : log[k].nonce = req'.nonce]_vars
  <2> SUFFICES ASSUME req' # req, req'.verdict = "duplicate"
               PROVE  \E k \in DOMAIN log : log[k].nonce = req'.nonce
    OBVIOUS
  <2>1. PICK n \in Nonces : RefuseDuplicate(n)
    <3>1. ~Tick /\ ~UNCHANGED vars
      BY DEF Tick, NoRequest, vars
    <3>2. \A n \in Nonces : ~RefuseSignature(n)
      BY DEF RefuseSignature, Answer
    <3>3. \A n \in Nonces, now \in 0 .. MaxTime, code \in Steps : ~VerifySignature(n, now, code)
      BY DEF VerifySignature, Answer
    <3> QED
      BY <1>1, <3>1, <3>2, <3>3 DEF Next
  <2>2. req'.nonce = n
    BY <2>1 DEF RefuseDuplicate, Answer
  <2>3. PICK i \in Entries : Match(i, n)
    BY <2>1 DEF RefuseDuplicate, IsDuplicate
  <2> QED
    BY <1>1, <2>2, <2>3 DEF AuthInv, LiveIsLogged, Match
<1> QED
  BY <1>1, AuthInvariant, PTL DEF Spec, OnlyReplaysRefused

\* The clock is never held up: at every tick there is a number of nonces that leave the log.
THEOREM TickNotBlocked ==
    AuthInv => \E d \in 0 .. Len(log) : \A k \in DOMAIN log : k <= d <=> log[k].age = TTL
<1> SUFFICES ASSUME AuthInv
             PROVE  \E d \in 0 .. Len(log) : \A k \in DOMAIN log : k <= d <=> log[k].age = TTL
  OBVIOUS
<1>1. /\ Len(log) \in Nat /\ DOMAIN log = 1 .. Len(log)
      /\ \A k \in 1 .. Len(log) : log[k].age \in 0 .. TTL
  BY AuthTypes DEF AuthInv, Stored
<1>2. \A k, m \in 1 .. Len(log) : k < m => log[k].age >= log[m].age
  BY <1>1 DEF AuthInv, LogInOrder
<1> DEFINE T == {d \in 0 .. Len(log) : \A k \in 1 .. Len(log) : k > d => log[k].age # TTL}
<1>3. T \in SUBSET Nat /\ Len(log) \in T
  BY <1>1
<1>4. PICK d \in T : \A m \in T : d <= m
  BY <1>3, LeastNumber
<1>5. ASSUME NEW k \in 1 .. Len(log), k <= d PROVE log[k].age = TTL
  <2>1. d - 1 \in 0 .. Len(log) /\ d - 1 \notin T
    <3>1. d \in 0 .. Len(log) /\ d >= 1
      BY <1>1, <1>4, <1>5
    <3>2. \A m \in T : d <= m
      BY <1>4
    <3> HIDE DEF T
    <3> QED
      BY <1>1, <3>1, <3>2
  <2>2. PICK m \in 1 .. Len(log) : m > d - 1 /\ log[m].age = TTL
    BY <2>1
  <2>3. m = d
    BY <1>1, <1>4, <2>2
  <2>4. CASE k = d
    BY <2>2, <2>3, <2>4
  <2>5. CASE k # d
    <3>1. log[k].age >= TTL
      BY <1>1, <1>2, <1>5, <2>2, <2>3, <2>5
    <3> QED
      BY <1>1, <3>1, Sizes
  <2> QED
    BY <2>4, <2>5
<1>6. \A k \in 1 .. Len(log) : k > d => log[k].age # TTL
  BY <1>4
<1>7. d \in 0 .. Len(log)
  BY <1>4
<1>8. \A k \in 1 .. Len(log) : k <= d <=> log[k].age = TTL
  BY <1>1, <1>5, <1>6, <1>7
<1> HIDE DEF T
<1> QED
  BY <1>1, <1>7, <1>8
=============================================================================
