------------------------------- MODULE WsAuth -------------------------------
(***************************************************************************)
(* authorize_request of common/net/ws_server.c: the bearer token, the      *)
(* HMAC handshake with its cache of nonces, and the TOTP code              *)
(* (ws_security_verify_totp, common/util/totp.c).  Only the httpd task     *)
(* runs it, so a request is one step.  Whether the token and the signature *)
(* are right is an input.  A TOTP code is named by the time step it is     *)
(* computed for.                                                           *)
(***************************************************************************)
EXTENDS Integers, Sequences, FiniteSets

CONSTANTS
    Nonces, NoNonce,   \* nonces of the clients; what calloc leaves in an entry
    CacheSize,         \* s_nonce_capacity
    TTL,               \* s_nonce_ttl_ticks
    TickMod,           \* TickType_t counts modulo this (2^32)
    MaxIdle,           \* most ticks between two requests with a nonce that is not cached
    MaxBurst,          \* bound on the nonces stored within a tick
    Period, Window,    \* totp_period_s, totp_window
    MaxTime            \* bound on the clock the TOTP is computed from

ASSUME WsAuthAssumption ==
    /\ NoNonce \notin Nonces
    /\ CacheSize \in Nat \ {0} /\ TTL \in Nat \ {0}
    /\ MaxIdle \in Nat \ {0} /\ TickMod \in Nat /\ TickMod > MaxIdle + TTL
    /\ MaxBurst \in Nat \ {0}
    /\ Period \in Nat \ {0} /\ Window \in Nat /\ MaxTime \in Nat

VARIABLES
    cache,   \* s_nonce_cache
    tick,    \* xTaskGetTickCount()
    idle,    \* ticks since nonce_is_duplicate last went through the whole cache
    req,     \* the last request: its nonce, the verdict and why, the clock and the TOTP code
    log      \* history: the nonces stored, in order, with their real age, up to TTL

vars == <<cache, tick, idle, req, log>>

Entries == 1 .. CacheSize
Steps == 0 .. (MaxTime \div Period + Window + 1)
NoRequest == [nonce |-> NoNonce, verdict |-> "none", now |-> 0, code |-> 0]

Age(entry) == (tick - entry.timestamp) % TickMod

-----------------------------------------------------------------------------
\* Fault: entries do not expire.
ExpiredNever(entry) == FALSE

\* An entry older than the replay window.
Expired(entry) == Age(entry) > TTL

\* Entry i is a live one of nonce n.
Match(i, n) == cache[i].valid /\ ~Expired(cache[i]) /\ cache[i].nonce = n

\* What nonce_is_duplicate returns ...
IsDuplicate(n) == \E i \in Entries : Match(i, n)

\* ... and the cache it leaves: it drops the expired entries it meets before it finds n.
Purged(n) ==
    [i \in Entries |->
       [cache[i] EXCEPT !.valid =
          @ /\ (Expired(cache[i]) => \E j \in Entries : j < i /\ Match(j, n))]]

\* Fault: a full cache gives up its youngest entry.
StoreSlotYoungest(c, i) ==
    \/ ~c[i].valid /\ \A j \in Entries : j < i => c[j].valid
    \/ /\ \A j \in Entries : c[j].valid /\ Age(c[j]) >= Age(c[i])
       /\ \A j \in Entries : j < i => Age(c[j]) > Age(c[i])

\* The entry nonce_store writes to: the first invalid one, else the first of the oldest.
StoreSlot(c, i) ==
    \/ ~c[i].valid /\ \A j \in Entries : j < i => c[j].valid
    \/ /\ \A j \in Entries : c[j].valid /\ Age(c[j]) <= Age(c[i])
       /\ \A j \in Entries : j < i => Age(c[j]) < Age(c[i])

\* Fault: the window is tried on one side only.
TotpMatchesPast(now, code) ==
    \E offset \in -Window .. 0 :
        now + offset * Period >= 0 /\ code = (now + offset * Period) \div Period

\* totp_verify: an offset that would lead before time 0 is skipped.
TotpMatches(now, code) ==
    \E offset \in -Window .. Window :
        now + offset * Period >= 0 /\ code = (now + offset * Period) \div Period

Answer(n, verdict, now, code) ==
    req' = [nonce |-> n, verdict |-> verdict, now |-> now, code |-> code]

\* The calloc of ws_server_start.
Init ==
    /\ cache = [i \in Entries |-> [valid |-> FALSE, timestamp |-> 0, nonce |-> NoNonce]]
    /\ tick = 0 /\ idle = 0
    /\ req = NoRequest
    /\ log = <<>>

Tick ==
    /\ idle < MaxIdle
    /\ tick' = (tick + 1) % TickMod
    /\ idle' = idle + 1
    /\ req' = NoRequest
    /\ \E d \in 0 .. Len(log) :   \* the d oldest leave the replay window
         /\ \A k \in DOMAIN log : k <= d <=> log[k].age = TTL
         /\ log' = [k \in 1 .. (Len(log) - d) |-> [log[k + d] EXCEPT !.age = @ + 1]]
    /\ UNCHANGED cache

\* A nonce that is still cached is refused.
RefuseDuplicate(n) ==
    /\ IsDuplicate(n)
    /\ cache' = Purged(n)
    /\ Answer(n, "duplicate", 0, 0)
    /\ UNCHANGED <<tick, idle, log>>

\* A wrong signature is refused, and its nonce is not stored.
RefuseSignature(n) ==
    /\ ~IsDuplicate(n)
    /\ cache' = Purged(n)
    /\ idle' = 0
    /\ Answer(n, "signature", 0, 0)
    /\ UNCHANGED <<tick, log>>

\* A right one stores the nonce, before the TOTP code is looked at.
VerifySignature(n, now, code) ==
    /\ ~IsDuplicate(n)
    /\ Cardinality({k \in DOMAIN log : log[k].age = 0}) < MaxBurst
    /\ \E i \in Entries :
          /\ StoreSlot(Purged(n), i)
          /\ cache' = [Purged(n) EXCEPT ![i] = [valid |-> TRUE, timestamp |-> tick, nonce |-> n]]
    /\ idle' = 0
    /\ log' = Append(log, [nonce |-> n, age |-> 0])
    /\ Answer(n, IF TotpMatches(now, code) THEN "accepted" ELSE "totp", now, code)
    /\ UNCHANGED tick

Next ==
    \/ Tick
    \/ \E n \in Nonces :
          \/ RefuseDuplicate(n) \/ RefuseSignature(n)
          \/ \E now \in 0 .. MaxTime, code \in Steps : VerifySignature(n, now, code)

Spec == Init /\ [][Next]_vars

-----------------------------------------------------------------------------
\* The cache and the clocks keep their types, and no nonce has two live entries: a duplicate would
\* take the room of another nonce.
AuthTypeOK ==
    /\ cache \in [Entries -> [valid : BOOLEAN, timestamp : 0 .. (TickMod - 1),
                              nonce : Nonces \cup {NoNonce}]]
    /\ tick \in 0 .. (TickMod - 1) /\ idle \in 0 .. MaxIdle
    /\ req.nonce \in Nonces \cup {NoNonce}
    /\ req.verdict \in {"none", "duplicate", "signature", "accepted", "totp"}
    /\ log \in Seq([nonce : Nonces, age : 0 .. TTL])
    /\ \A n \in Nonces, i, j \in Entries : Match(i, n) /\ Match(j, n) => i = j

\* The nonces among the first m that were stored in the tick of the k-th or later.
Crowd(k, m) == {j \in 1 .. m : j # k /\ log[j].age <= log[k].age}

\* Within the replay window a nonce passes the handshake a second time only if the cache could not
\* hold it: CacheSize other nonces were stored in its tick or later. Neither the lazy expiry nor the
\* wrap of the tick counter loses one earlier.
ReplayNeedsFullCache ==
    \A k, m \in DOMAIN log : k < m /\ log[k].nonce = log[m].nonce =>
        Cardinality(Crowd(k, m - 1)) >= CacheSize

\* A nonce is refused as a replay only if it passed the handshake within the replay window: an HMI
\* that draws a new one for every attempt is not locked out, however long an entry has been there.
OnlyReplaysRefused ==
    [][req' # req /\ req'.verdict = "duplicate" =>
          \E k \in DOMAIN log : log[k].nonce = req'.nonce]_vars

\* A code is accepted exactly when its time step is at most Window steps from the sensor's, at the
\* beginning of time too.
TotpTolerance ==
    req.verdict \in {"accepted", "totp"} =>
        (req.verdict = "accepted" <=> req.code - (req.now \div Period) \in -Window .. Window)

(***************************************************************************)
(* What the above rests on.                                                *)
(***************************************************************************)

\* The age of a valid entry has not wrapped: what expired was dropped when the cache was last gone
\* through.
AgesUnwrapped == \A i \in Entries : cache[i].valid => Age(cache[i]) <= TTL + idle

\* A live entry has its age in common with the nonce it was stored for.
LiveIsLogged ==
    \A i \in Entries : cache[i].valid /\ ~Expired(cache[i]) =>
        \E k \in DOMAIN log : log[k].nonce = cache[i].nonce /\ log[k].age = Age(cache[i])

\* A nonce of the log is live in the cache, or was crowded out.
LoggedIsLive ==
    \A k \in DOMAIN log :
        \/ \E i \in Entries : Match(i, log[k].nonce) /\ Age(cache[i]) = log[k].age
        \/ Cardinality(Crowd(k, Len(log))) >= CacheSize

\* The oldest nonces come first.
LogInOrder == \A k, m \in DOMAIN log : k < m => log[k].age >= log[m].age

\* The inductive invariant.
AuthInv ==
    /\ AuthTypeOK /\ AgesUnwrapped /\ LiveIsLogged /\ LoggedIsLive /\ LogInOrder
    /\ ReplayNeedsFullCache /\ TotpTolerance
=============================================================================
