------------------------------ MODULE Discovery ------------------------------
(***************************************************************************)
(* How the HMI finds the sensor node: hmi_ws_client_start asks mDNS, falls *)
(* back to the endpoint cached in the NVS and then to the configured       *)
(* hostname, and gives the answer to ws_client_start; net_task calls it    *)
(* until it succeeds, once.  A transport error purges the cache            *)
(* (ws_error_cb, in the websocket task) and leaves the client to reconnect *)
(* to the endpoint it was started with.                                    *)
(*                                                                         *)
(* The cache is three NVS keys, written one after the other: a write may   *)
(* fail, and power may be lost, after each.  Time is the 32-bit number of  *)
(* milliseconds since boot.  mDNS, the NVS, the sensor nodes and their     *)
(* addresses are external.  WsLink models the client, Wifi the network.    *)
(***************************************************************************)
EXTENDS Integers

CONSTANTS
    Services,    \* mDNS answers: [addr, proto, path, host, hostname], absent parts are None
    Configured,  \* CONFIG_HMI_SENSOR_HOSTNAME
    None,
    Ttl,         \* CONFIG_HMI_DISCOVERY_CACHE_TTL_MINUTES
    ClockWrap,   \* the clock counts modulo this (2^32)
    MaxUptime,   \* bound on the time between two restarts
    MaxChanges   \* bound on failures and on moves of the sensor node

ASSUME DiscoveryAssumption ==
    /\ None \notin {s.addr : s \in Services} /\ Configured \notin {s.addr : s \in Services}
    /\ Ttl \in Nat \ {0} /\ MaxUptime \in Nat /\ ClockWrap \in Nat
    /\ Ttl + MaxUptime < ClockWrap /\ MaxChanges \in Nat

VARIABLES
    cache,       \* external: the keys uri, sni and ts of the namespace of the discovery cache
    net,         \* where net_task is
    target,      \* uri and tls_server_name of hmi_ws_client_start, and where they come from
    now,         \* monotonic_time_ms
    sensor,      \* external: the announcement of the sensor node
    failed,      \* history: the endpoints that could not be reached since they were last announced
    torn,        \* history: the last write or purge of the cache was not completed
    changes      \* changes so far

discoveryVars == <<cache, net, target, now, sensor, failed, torn, changes>>
world == <<now, sensor>>
history == <<failed, torn>>

Keys == {"uri", "sni", "ts"}
Empty == [k \in Keys |-> None]
NoTarget == [uri |-> None, sni |-> None, from |-> "none"]
Change == changes < MaxChanges /\ changes' = changes + 1

\* apply_txt_metadata, service_metadata_init and sanitize_path: a part that is absent, or a proto that
\* is no token, leaves the default; a path gets its slash.
Proto(s) == IF s.proto \in {None, "no token"} THEN "wss" ELSE s.proto
Path(s) == IF s.path \in {None, "ws"} THEN "/ws" ELSE s.path

\* build_uri_from_result: a service of another protocol is skipped.
Usable(s) == Proto(s) \in {"ws", "wss"}
Uri(s) == [proto |-> Proto(s), addr |-> s.addr, path |-> Path(s)]
Sni(s) == IF s.host # None THEN s.host ELSE s.hostname

\* What select_tls_server_name makes of no name is the host of the uri.
Pairs == {<<Uri(s), Sni(s)>> : s \in {t \in Services : Usable(t)}}

DiscoveryInit ==
    /\ cache = Empty /\ net = "idle" /\ target = NoTarget /\ now = 0
    /\ sensor \in {s \in Services : Usable(s)}
    /\ failed = {} /\ torn = FALSE /\ changes = 0

-----------------------------------------------------------------------------
(***************************************************************************)
(* The cache.                                                              *)
(***************************************************************************)

\* Fault: the name is not written.
StoreOrderNoName == <<"uri", "ts", "ts">>

\* The three keys that store_cached_service writes, in their order.
StoreOrder == <<"uri", "sni", "ts">>

\* The cache after the first n writes of store_cached_service.
Stored(s, n) ==
    LET entry == [uri |-> Uri(s), sni |-> Sni(s), ts |-> now]
    IN [k \in Keys |-> IF \E i \in 1 .. n : StoreOrder[i] = k THEN entry[k] ELSE cache[k]]

\* store_cached_service: it stops at the first write that fails.
StoresService(s) ==
    \E n \in 0 .. 3 :
      /\ n = 3 \/ changes < MaxChanges
      /\ changes' = IF n = 3 THEN changes ELSE changes + 1
      /\ cache' = Stored(s, n)
      /\ torn' = (n # 3)

\* Fault: the purge leaves the keys alone.
PurgesNothing == UNCHANGED <<cache, torn, changes>>

\* invalidate_cached_service: no result is looked at, the NVS may fail at each key.
Purges ==
    \/ cache' = Empty /\ torn' = FALSE /\ UNCHANGED changes
    \/ /\ Change /\ torn' = TRUE
       /\ \E left \in SUBSET Keys : cache' = [k \in Keys |-> IF k \in left THEN cache[k] ELSE None]

\* The age load_cached_service computes, in 32 bits: after a restart the clock may be behind.
CacheAge == (now - cache.ts) % ClockWrap

\* load_cached_service returns true; a missing sni is no error.
CacheLoads == cache.uri # None /\ cache.ts # None /\ CacheAge <= Ttl

\* The uri is there and too old: the cache is purged.
CacheExpired == cache.uri # None /\ cache.ts # None /\ CacheAge > Ttl

(***************************************************************************)
(* net_task and hmi_ws_client_start.                                       *)
(***************************************************************************)

\* ensure_wifi_ready, then discover_service clears the name.
StartsDiscovery ==
    /\ net = "idle"
    /\ net' = "query" /\ target' = NoTarget
    /\ UNCHANGED <<cache, world, history, changes>>

\* The sensor node answers in time: the answer is cached and used.
Discovers ==
    /\ net = "query"
    /\ target' = [uri |-> Uri(sensor), sni |-> Sni(sensor), from |-> "mdns"]
    /\ StoresService(sensor)
    /\ failed' = failed \ {Uri(sensor)}
    /\ net' = "start"
    /\ UNCHANGED world

\* No answer came in time: the cache, ...
UsesCache ==
    /\ net = "query" /\ CacheLoads
    /\ target' = [uri |-> cache.uri, sni |-> cache.sni, from |-> "cache"]
    /\ net' = "start"
    /\ UNCHANGED <<cache, world, history, changes>>

\* ... or the configured hostname. An entry that has expired is purged.
UsesHostname ==
    /\ net = "query" /\ ~CacheLoads
    /\ target' = [uri |-> [proto |-> "wss", addr |-> Configured, path |-> "/ws"],
                  sni |-> Configured, from |-> "config"]
    /\ IF CacheExpired THEN Purges ELSE UNCHANGED <<cache, torn, changes>>
    /\ net' = "start"
    /\ UNCHANGED <<world, failed>>

\* ws_client_start succeeds, or the client is there already: net_task is done with it.
ClientStarts ==
    /\ net = "start"
    /\ net' = "running"
    /\ UNCHANGED <<cache, target, world, history, changes>>

\* It fails: the cache is purged, net_task tries again after 5 s.
ClientStartFails ==
    /\ net = "start"
    /\ Purges
    /\ net' = "idle"
    /\ UNCHANGED <<target, world, failed>>

\* The sensor node is where the client looks for it; a hostname is looked up anew.
Reachable == target.uri # None => target.uri.addr \in {sensor.addr, Configured}

\* ws_error_cb: the client cannot reach its endpoint. It keeps it and tries again.
TransportError ==
    /\ net = "running" /\ ~Reachable
    /\ Purges
    /\ failed' = failed \cup {target.uri}
    /\ UNCHANGED <<net, target, world>>

(***************************************************************************)
(* The outside world.                                                      *)
(***************************************************************************)

Tick ==
    /\ now < MaxUptime
    /\ now' = now + 1
    /\ UNCHANGED <<cache, net, target, sensor, history, changes>>

\* The sensor node gets another address or name.
SensorMoves(s) ==
    /\ Change /\ s # sensor /\ Usable(s)
    /\ sensor' = s
    /\ UNCHANGED <<cache, net, target, now, history>>

DiscoveryNext ==
    \/ StartsDiscovery \/ Discovers \/ UsesCache \/ UsesHostname
    \/ ClientStarts \/ ClientStartFails \/ TransportError
    \/ Tick \/ \E s \in Services : SensorMoves(s)

\* A restart of the HMI: the clock starts again.
DiscoveryReboot ==
    /\ net' = "idle" /\ target' = NoTarget /\ now' = 0
    /\ UNCHANGED <<cache, sensor, history, changes>>

\* ensure_secure_nvs erases the whole partition.
DiscoveryWiped ==
    /\ net' = "idle" /\ target' = NoTarget /\ now' = 0
    /\ cache' = Empty /\ torn' = FALSE
    /\ UNCHANGED <<sensor, failed, changes>>

-----------------------------------------------------------------------------
\* A client started from the cache gets a uri and a TLS name of one and the same answer
\* (store_cached_service writes them one after the other, invalidate_cached_service erases them one
\* after the other): they are mixed only after a write or a purge that was not completed.
PairFromOneAnswer ==
    net = "start" /\ target.from = "cache" => <<target.uri, target.sni>> \in Pairs \/ torn

\* An endpoint that failed is not used again from the cache (ws_error_cb, hmi_ws_client_start): after
\* a transport error no restart comes back to it before it is announced again, unless its purge was
\* not completed.
FailedNotReused ==
    net = "start" /\ target.from = "cache" => target.uri \notin failed \/ torn

(***************************************************************************)
(* Why these hold.                                                         *)
(***************************************************************************)

Uris == {p[1] : p \in Pairs}

DiscoveryTypeOK ==
    /\ cache.uri # None => cache.uri \in Uris
    /\ cache.sni # None => \E p \in Pairs : cache.sni = p[2]
    /\ cache.ts \in (0 .. MaxUptime) \cup {None}
    /\ net \in {"idle", "query", "start", "running"} /\ now \in 0 .. MaxUptime
    /\ target.from \in {"none", "mdns", "cache", "config"}
    /\ torn \in BOOLEAN /\ sensor \in Services /\ Usable(sensor)
    /\ failed \subseteq Uris /\ changes \in 0 .. MaxChanges

\* A cache that was written or purged to the end is empty or has one answer, which has not failed.
CacheWhole ==
    ~torn /\ cache.uri # None => <<cache.uri, cache.sni>> \in Pairs /\ cache.uri \notin failed

\* Where the endpoint of the client comes from.
TargetKnown ==
    /\ target.from = "none" => target.uri = None
    /\ target.from \in {"mdns", "cache"} => target.uri \in Uris
    /\ target.from = "config" => target.uri.addr = Configured

\* The inductive invariant.
DiscoveryInv == DiscoveryTypeOK /\ CacheWhole /\ TargetKnown /\ PairFromOneAnswer /\ FailedNotReused
=============================================================================
