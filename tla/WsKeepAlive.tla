----------------------------- MODULE WsKeepAlive -----------------------------
(***************************************************************************)
(* The keep-alive of the WebSocket server: what ping_timer_cb does to the  *)
(* peers.  The behaviour is WsServer's; a history variable records how    *)
(* long each peer really was silent, independently of last_seen.           *)
(***************************************************************************)
EXTENDS WsServer

VARIABLE silent   \* ticks since the peer of a descriptor was last heard

kvars == <<vars, silent>>

\* silent is counted no further than one tick beyond what DeadClientEvicted allows.
SilenceBound == 4 * PingInterval - 1 + TimerLag
SilenceCap == SilenceBound + 1

\* The tick counter tells apart every silence that occurs; the code's 32 bits do.
ASSUME WideTicks == TickMod > SilenceCap

\* The peer of f is heard: its handshake registers it or ws_handler has read a frame of it.
Heard(f) ==
    /\ handler.fd = f
    /\ \/ handler.pc = "add" /\ handler'.pc # "close" /\ handler' # handler
       \/ handler.pc = "touch" /\ handler'.pc = "dispatch"

KInit == Init /\ silent = [f \in Fds |-> 0]

KNext ==
    /\ Next
    /\ silent' = [f \in Fds |->
          IF Heard(f) \/ sess'[f] # "ws" THEN 0
          ELSE IF tick' # tick /\ silent[f] < SilenceCap THEN silent[f] + 1
          ELSE silent[f]]

KSpec == KInit /\ [][KNext]_kvars

-----------------------------------------------------------------------------
\* A peer that went silent is dropped: no entry outlives four timer periods of silence (a client is
\* pinged at the first expiry that finds it silent for a period and dropped at the next one). The
\* fourth is needed because ws_handler clears awaiting_pong only after its callback, which may wipe
\* out the flag of a ping sent meanwhile.
DeadClientEvicted ==
    \A i \in Slots : clients[i].fd # NoFd => silent[clients[i].fd] <= SilenceBound

\* The timer gives up on a client only when it was not heard for the pong timeout ("Periodic timer
\* that dispatches ping frames and handles timeouts"), or was heard after the callback had sampled
\* its tick (ping_timer_cb reads the tick before it takes the lock), at most the lag ago.
TimeoutOnlyAfterSilence ==
    [][timer.pc = "scan" /\ timer'.pc = "expired" =>
          LET f == clients[timer.i].fd IN silent[f] >= PongTimeout \/ silent[f] < TimerLag]_kvars

(***************************************************************************)
(* Why these hold.                                                         *)
(***************************************************************************)

\* ws_handler has heard the client of slot i and may still clear its awaiting_pong.
MayClear(i) ==
    handler.slot = i /\ handler.pc \in {"dispatch", "decrypt", "deliver", "clear"}

\* Ticks since the last expiry whose callback is through with slot i was due.
SinceRound(i) ==
    timer.due + (IF timer.pc = "idle" \/ i < timer.i THEN 0 ELSE PingInterval)

\* How long the client of slot i may have been silent by then: less than a period, or it would have
\* been pinged; one more if it was; and one more once ws_handler has wiped out a flag.
Allowance(i) ==
    PingInterval - 1 + (IF clients[i].awaiting_pong THEN PingInterval ELSE 0)
                     + (IF MayClear(i) THEN 0 ELSE PingInterval)

\* The callback is through within the lag, and the tick it sampled is no older than that.
TimerInTime ==
    timer.pc # "idle" => timer.due <= TimerLag /\ Elapsed(tick, timer.now) <= timer.due

\* A client that is about to be pinged owes no pong yet.
PingIsNew == timer.pc \in {"ping", "flag"} => ~clients[timer.i].awaiting_pong

\* last_seen tells the real silence of a client, over any wrap of the tick.
SilenceSeen ==
    \A i \in Slots : clients[i].fd # NoFd => silent[clients[i].fd] = Elapsed(tick, clients[i].last_seen)

SilenceAllowed ==
    \A i \in Slots : clients[i].fd # NoFd => silent[clients[i].fd] <= SinceRound(i) + Allowance(i)

\* The inductive invariant of the keep-alive.
KeepAliveInv ==
    /\ SafetyInv /\ silent \in [Fds -> 0 .. SilenceCap]
    /\ TimerInTime /\ PingIsNew /\ SilenceSeen /\ SilenceAllowed
=============================================================================
