------------------------------ MODULE WsServer ------------------------------
(***************************************************************************)
(* The client table of the sensor node's WebSocket server                  *)
(* (common/net/ws_server.c) and the three tasks that share it:             *)
(*                                                                         *)
(*   - the httpd task, which runs ws_handler and the close hook, one       *)
(*     request at a time (variable handler);                               *)
(*   - the FreeRTOS timer task, which runs ping_timer_cb (variable timer); *)
(*   - the publishing task, which runs ws_server_send (variable bcast).    *)
(*                                                                         *)
(* The timer and the broadcast hold s_client_lock for their whole loop;    *)
(* the frame branch of ws_handler takes no lock at all, so each of its     *)
(* accesses to the slot it found is a step of its own.                     *)
(*                                                                         *)
(* The verdict of authorize_request is an input here (module WsAuth models *)
(* it) and so are a frame's counter and the outcome of its GCM check       *)
(* (module WsLink models the counters of both ends).  The sessions of      *)
(* esp_http_server are external: sess and closing.                         *)
(***************************************************************************)
EXTENDS Integers

CONSTANTS
    Fds,           \* socket descriptors the HTTP server can hand out
    NoFd,          \* the fd of a free slot: -1 in the code
    Capacity,      \* s_client_capacity: slots of the client table
    PingInterval,  \* s_cfg.ping_interval_ms in ticks; also the timer's period
    PongTimeout,   \* s_cfg.pong_timeout_ms in ticks
    TimerLag,      \* most ticks an expiry of the timer waits for its callback to end
    TickMod,       \* TickType_t counts modulo this (2^32)
    MaxCounter,    \* bound on the counters of encrypted frames
    Handshake,     \* ws_security_is_handshake_enabled
    Encryption     \* ws_security_is_encryption_enabled

ASSUME WsServerAssumption ==
    /\ NoFd \notin Fds
    /\ Capacity \in Nat \ {0}
    /\ PingInterval \in Nat \ {0}
    /\ PongTimeout \in 1 .. PingInterval
    /\ TimerLag \in 0 .. (PingInterval - 1)
    /\ TickMod \in Nat /\ TickMod > PingInterval
    /\ MaxCounter \in Nat \ {0}
    /\ Handshake \in BOOLEAN /\ Encryption \in BOOLEAN

VARIABLES
    clients,   \* s_clients
    lock,      \* s_client_lock: the task that holds it across steps, or "free"
    tick,      \* xTaskGetTickCount()
    handler,   \* the httpd task: where it is in ws_handler or in a close
    timer,     \* the timer task: where it is in ping_timer_cb
    bcast,     \* the publishing task: where it is in ws_server_send
    sess,      \* external: the HTTP server's session on each descriptor
    closing,   \* external: closes queued by httpd_sess_trigger_close
    accepted   \* history: highest counter rx_cb was given in the session of a descriptor

vars == <<clients, lock, tick, handler, timer, bcast, sess, closing, accepted>>

Slots == 1 .. Capacity

\* What is read from a peer. Only a binary frame carries a counter and a GCM tag.
Frames == [type : {"BINARY"}, ctr : 1 .. MaxCounter, auth : BOOLEAN]
          \cup [type : {"PONG", "PING", "TEXT"}, ctr : {0}, auth : {FALSE}]
NoFrame == [type |-> "TEXT", ctr |-> 0, auth |-> FALSE]

\* A slot's record, ws_client_t.
Client == [fd : Fds \cup {NoFd}, last_seen : 0 .. (TickMod - 1), awaiting_pong : BOOLEAN,
           handshake_verified : BOOLEAN, last_counter : 0 .. MaxCounter]

HandlerPcs == {"idle", "add", "mark", "touch", "dispatch", "decrypt", "reject", "deliver",
               "clear", "close"}
\* The steps of ws_handler that use the slot pointer find_client returned.
SlotPcs == {"touch", "dispatch", "decrypt", "deliver", "clear"}
Handler == [pc : HandlerPcs, fd : Fds \cup {NoFd}, slot : 0 .. Capacity, frame : Frames]
IdleHandler == [pc |-> "idle", fd |-> NoFd, slot |-> 0, frame |-> NoFrame]
\* The httpd task is busy with session f, with no frame read.
Serving(f, pc) == [pc |-> pc, fd |-> f, slot |-> 0, frame |-> NoFrame]

TimerTask == [pc : {"idle", "lock", "scan", "expired", "ping", "flag"}, now : 0 .. (TickMod - 1),
              i : 1 .. (Capacity + 1), due : 0 .. (PingInterval + TimerLag)]
BcastTask == [pc : {"idle", "send"}, i : 1 .. (Capacity + 1)]

(***************************************************************************)
(* Helpers of the client table.                                            *)
(***************************************************************************)

\* What drop_client_locked leaves in a slot and ws_server_start puts in every slot.
FreeClient == [fd |-> NoFd, last_seen |-> 0, awaiting_pong |-> FALSE,
               handshake_verified |-> ~Handshake, last_counter |-> 0]

\* Fault: the slot is taken over with the replay state of its last owner.
NewClientOldCounter(f) ==
    [fd |-> f, last_seen |-> tick, awaiting_pong |-> FALSE, handshake_verified |-> ~Handshake,
     last_counter |-> LET free == CHOOSE i \in 1 .. Capacity : clients[i].fd = NoFd
                      IN clients[free].last_counter]

\* What add_client writes into the slot it takes.
NewClient(f) == [fd |-> f, last_seen |-> tick, awaiting_pong |-> FALSE,
                 handshake_verified |-> ~Handshake, last_counter |-> 0]

Registered(f) == \E i \in Slots : clients[i].fd = f

\* Fault: the lookup takes the first slot in use, whoever it belongs to.
FindClientAnyUsed(f, i) == clients[i].fd # NoFd /\ \A j \in Slots : j < i => clients[j].fd = NoFd

\* find_client: i is the first slot that holds f.
FindClient(f, i) == clients[i].fd = f /\ \A j \in Slots : j < i => clients[j].fd # f

\* The slot add_client takes: the first free one.
FirstFree(i) == clients[i].fd = NoFd /\ \A j \in Slots : j < i => clients[j].fd # NoFd

\* drop_client_locked: the table once the first slot that holds f is freed.
DropClient(f) ==
    [i \in Slots |-> IF FindClient(f, i) THEN FreeClient ELSE clients[i]]

\* What mark_client_verified makes of an entry.
VerifiedClient(c) == [fd |-> c.fd, last_seen |-> c.last_seen, awaiting_pong |-> c.awaiting_pong,
                      handshake_verified |-> TRUE, last_counter |-> 0]

\* now - then in TickType_t arithmetic.
Elapsed(now, then) == (now - then) % TickMod

-----------------------------------------------------------------------------
\* ws_server_start has succeeded: empty table, timer armed, no session.
Init ==
    /\ clients = [i \in Slots |-> FreeClient]
    /\ lock = "free"
    /\ tick = 0
    /\ handler = IdleHandler
    /\ timer = [pc |-> "idle", now |-> 0, i |-> 1, due |-> 0]
    /\ bcast = [pc |-> "idle", i |-> 1]
    /\ sess = [f \in Fds |-> "closed"]
    /\ closing = {}
    /\ accepted = [f \in Fds |-> 0]

\* One tick passes. An expiry of the timer, with the callback it runs, is at most
\* TimerLag ticks late.
Tick ==
    /\ timer.due < TimerLag + (IF timer.pc = "idle" THEN PingInterval ELSE 0)
    /\ tick' = (tick + 1) % TickMod
    /\ timer' = [timer EXCEPT !.due = @ + 1]
    /\ UNCHANGED <<clients, lock, handler, bcast, sess, closing, accepted>>

(***************************************************************************)
(* The httpd task: sessions and ws_handler.                                *)
(***************************************************************************)

\* The server accepts a connection. A descriptor is reused once it was closed.
Accept(f) ==
    /\ handler.pc = "idle" /\ sess[f] = "closed"
    /\ sess' = [sess EXCEPT ![f] = "http"]
    /\ accepted' = [accepted EXCEPT ![f] = 0]
    /\ UNCHANGED <<clients, lock, tick, handler, timer, bcast, closing>>

\* The GET that upgrades the connection, up to the verdict of authorize_request.
GetRequest(f, authorized) ==
    /\ handler.pc = "idle" /\ sess[f] = "http"
    /\ handler' = Serving(f, IF authorized THEN "add" ELSE "close")
    /\ UNCHANGED <<clients, lock, tick, timer, bcast, sess, closing, accepted>>

\* add_client. A full table answers 503 and the server drops the session.
AddClient ==
    /\ handler.pc = "add" /\ lock = "free"
    /\ \/ \E i \in Slots :
             /\ FirstFree(i)
             /\ clients' = [clients EXCEPT ![i] = NewClient(handler.fd)]
             /\ sess' = [sess EXCEPT ![handler.fd] = "ws"]
             /\ handler' = IF Handshake THEN [handler EXCEPT !.pc = "mark"] ELSE IdleHandler
       \/ /\ ~Registered(NoFd)
          /\ handler' = [handler EXCEPT !.pc = "close"]
          /\ UNCHANGED <<clients, sess>>
    /\ UNCHANGED <<lock, tick, timer, bcast, closing, accepted>>

\* mark_client_verified: nothing when the entry is already gone.
MarkVerified ==
    /\ handler.pc = "mark" /\ lock = "free"
    /\ clients' = [i \in Slots |->
          IF FindClient(handler.fd, i)
          THEN VerifiedClient(clients[i])
          ELSE clients[i]]
    /\ handler' = IdleHandler
    /\ UNCHANGED <<lock, tick, timer, bcast, sess, closing, accepted>>

\* A frame is read and its sender looked up, without the lock. An unknown sender is an error.
FrameArrives(f, frame) ==
    /\ handler.pc = "idle" /\ sess[f] = "ws"
    /\ \/ \E i \in Slots :
             /\ FindClient(f, i)
             /\ handler' = [pc |-> "touch", fd |-> f, slot |-> i, frame |-> frame]
       \/ /\ ~Registered(f)
          /\ handler' = Serving(f, "close")
    /\ UNCHANGED <<clients, lock, tick, timer, bcast, sess, closing, accepted>>

\* A frame that cannot be read or is longer than the buffer is an error.
FrameFails(f) ==
    /\ handler.pc = "idle" /\ sess[f] = "ws"
    /\ handler' = Serving(f, "close")
    /\ UNCHANGED <<clients, lock, tick, timer, bcast, sess, closing, accepted>>

\* Fault: a frame does not count as a sign of life.
TouchWithoutTick ==
    /\ handler.pc = "touch"
    /\ handler' = [handler EXCEPT !.pc = "dispatch"]
    /\ UNCHANGED <<clients, lock, tick, timer, bcast, sess, closing, accepted>>

\* client->last_seen = xTaskGetTickCount()
Touch ==
    /\ handler.pc = "touch"
    /\ clients' = [clients EXCEPT ![handler.slot].last_seen = tick]
    /\ handler' = [handler EXCEPT !.pc = "dispatch"]
    /\ UNCHANGED <<lock, tick, timer, bcast, sess, closing, accepted>>

\* A PONG answers the outstanding ping.
DispatchPong ==
    /\ handler.pc = "dispatch" /\ handler.frame.type = "PONG"
    /\ clients' = [clients EXCEPT ![handler.slot].awaiting_pong = FALSE]
    /\ handler' = IdleHandler
    /\ UNCHANGED <<lock, tick, timer, bcast, sess, closing, accepted>>

\* A PING is answered; awaiting_pong keeps its value.
DispatchPing ==
    /\ handler.pc = "dispatch" /\ handler.frame.type = "PING"
    /\ handler' = IdleHandler
    /\ UNCHANGED <<clients, lock, tick, timer, bcast, sess, closing, accepted>>

\* A frame that goes through ws_security_decrypt.
Encrypted(frame) == Encryption /\ frame.type = "BINARY"

\* Data: an encrypted frame is refused from a client that is not verified.
DispatchData ==
    /\ handler.pc = "dispatch" /\ handler.frame.type \in {"BINARY", "TEXT"}
    /\ handler' = [handler EXCEPT !.pc =
          IF ~Encrypted(handler.frame) THEN "deliver"
          ELSE IF clients[handler.slot].handshake_verified THEN "decrypt" ELSE "close"]
    /\ UNCHANGED <<clients, lock, tick, timer, bcast, sess, closing, accepted>>

\* ws_security_decrypt with &client->last_counter. A drop between its check of the counter and its
\* write of it leaves the same table as a drop before both, so they are one step.
Decrypt ==
    /\ handler.pc = "decrypt"
    /\ IF handler.frame.ctr > clients[handler.slot].last_counter /\ handler.frame.auth
       THEN /\ clients' = [clients EXCEPT ![handler.slot].last_counter = handler.frame.ctr]
            /\ handler' = [handler EXCEPT !.pc = "deliver"]
            /\ UNCHANGED closing
       ELSE /\ handler' = [handler EXCEPT !.pc = "reject"]
            /\ closing' = closing \cup {handler.fd}
            /\ UNCHANGED clients
    /\ UNCHANGED <<lock, tick, timer, bcast, sess, accepted>>

\* drop_client after a failed decryption; the error makes the server drop the session.
Reject ==
    /\ handler.pc = "reject" /\ lock = "free"
    /\ clients' = DropClient(handler.fd)
    /\ handler' = [handler EXCEPT !.pc = "close"]
    /\ UNCHANGED <<lock, tick, timer, bcast, sess, closing, accepted>>

\* s_rx_cb is called with the payload.
Deliver ==
    /\ handler.pc = "deliver"
    /\ accepted' = IF Encrypted(handler.frame)
                   THEN [accepted EXCEPT ![handler.fd] = handler.frame.ctr] ELSE accepted
    /\ handler' = [handler EXCEPT !.pc = "clear"]
    /\ UNCHANGED <<clients, lock, tick, timer, bcast, sess, closing>>

\* client->awaiting_pong = false, after the callback
Clear ==
    /\ handler.pc = "clear"
    /\ clients' = [clients EXCEPT ![handler.slot].awaiting_pong = FALSE]
    /\ handler' = IdleHandler
    /\ UNCHANGED <<lock, tick, timer, bcast, sess, closing, accepted>>

\* Fault: the close hook does not drop the client.
CloseSessionKeepsClient ==
    /\ handler.pc = "close" /\ lock = "free"
    /\ sess' = [sess EXCEPT ![handler.fd] = "closed"]
    /\ handler' = IdleHandler
    /\ UNCHANGED <<clients, lock, tick, timer, bcast, closing, accepted>>

\* The server deletes the session: the close hook drops the client, the descriptor is free.
CloseSession ==
    /\ handler.pc = "close" /\ lock = "free"
    /\ clients' = DropClient(handler.fd)
    /\ sess' = [sess EXCEPT ![handler.fd] = "closed"]
    /\ handler' = IdleHandler
    /\ UNCHANGED <<lock, tick, timer, bcast, closing, accepted>>

\* The peer goes away.
PeerCloses(f) ==
    /\ handler.pc = "idle" /\ sess[f] # "closed"
    /\ handler' = Serving(f, "close")
    /\ UNCHANGED <<clients, lock, tick, timer, bcast, sess, closing, accepted>>

\* A close queued by httpd_sess_trigger_close is run on whatever session has the descriptor by now.
QueuedClose(f) ==
    /\ handler.pc = "idle" /\ f \in closing
    /\ closing' = closing \ {f}
    /\ handler' = IF sess[f] = "closed" THEN handler
                  ELSE Serving(f, "close")
    /\ UNCHANGED <<clients, lock, tick, timer, bcast, sess, accepted>>

(***************************************************************************)
(* The timer task: ping_timer_cb.                                          *)
(***************************************************************************)

\* The auto-reload timer expires and the callback samples the tick, before it takes the lock.
TimerExpires ==
    /\ timer.pc = "idle" /\ timer.due >= PingInterval
    /\ timer' = [pc |-> "lock", now |-> tick, i |-> 1, due |-> timer.due - PingInterval]
    /\ UNCHANGED <<clients, lock, tick, handler, bcast, sess, closing, accepted>>

\* The callback is at step pc for slot i.
TimerAt(pc, i) == [pc |-> pc, now |-> timer.now, i |-> i, due |-> timer.due]

TimerLocks ==
    /\ timer.pc = "lock" /\ lock = "free"
    /\ lock' = "timer"
    /\ timer' = TimerAt("scan", 1)
    /\ UNCHANGED <<clients, tick, handler, bcast, sess, closing, accepted>>

\* What the callback decides for a client from its sampled tick.
TimedOut(c) == c.awaiting_pong /\ Elapsed(timer.now, c.last_seen) >= PongTimeout
PingDue(c) == ~c.awaiting_pong /\ Elapsed(timer.now, c.last_seen) >= PingInterval

\* One round of the loop up to its decision.
TimerChecks ==
    /\ timer.pc = "scan" /\ timer.i <= Capacity
    /\ LET c == clients[timer.i] IN
       timer' = IF c.fd # NoFd /\ TimedOut(c) THEN TimerAt("expired", timer.i)
                ELSE IF c.fd # NoFd /\ PingDue(c) THEN TimerAt("ping", timer.i)
                ELSE TimerAt("scan", timer.i + 1)
    /\ UNCHANGED <<clients, lock, tick, handler, bcast, sess, closing, accepted>>

\* Fault: the entry is dropped and the session is left open.
DropOnly(i) ==
    /\ clients' = DropClient(clients[i].fd)
    /\ UNCHANGED closing

\* httpd_sess_trigger_close and drop_client_locked for the client of slot i.
CloseAndDrop(i) ==
    /\ closing' = closing \cup {clients[i].fd}
    /\ clients' = DropClient(clients[i].fd)

TimerDrops ==
    /\ timer.pc = "expired"
    /\ CloseAndDrop(timer.i)
    /\ timer' = TimerAt("scan", timer.i + 1)
    /\ UNCHANGED <<lock, tick, handler, bcast, sess, accepted>>

\* The PING leaves; the flag is written afterwards.
TimerPings ==
    /\ timer.pc = "ping"
    /\ timer' = TimerAt("flag", timer.i)
    /\ UNCHANGED <<clients, lock, tick, handler, bcast, sess, closing, accepted>>

TimerPingFails ==
    /\ timer.pc = "ping"
    /\ CloseAndDrop(timer.i)
    /\ timer' = TimerAt("scan", timer.i + 1)
    /\ UNCHANGED <<lock, tick, handler, bcast, sess, accepted>>

\* Fault: the ping is not recorded.
TimerForgetsFlag ==
    /\ timer.pc = "flag"
    /\ timer' = TimerAt("scan", timer.i + 1)
    /\ UNCHANGED <<clients, lock, tick, handler, bcast, sess, closing, accepted>>

\* client->awaiting_pong = true
TimerFlags ==
    /\ timer.pc = "flag"
    /\ clients' = [clients EXCEPT ![timer.i].awaiting_pong = TRUE]
    /\ timer' = TimerAt("scan", timer.i + 1)
    /\ UNCHANGED <<lock, tick, handler, bcast, sess, closing, accepted>>

TimerUnlocks ==
    /\ timer.pc = "scan" /\ timer.i > Capacity
    /\ lock' = "free"
    /\ timer' = [pc |-> "idle", now |-> 0, i |-> 1, due |-> timer.due]
    /\ UNCHANGED <<clients, tick, handler, bcast, sess, closing, accepted>>

(***************************************************************************)
(* The publishing task: ws_server_send.                                    *)
(***************************************************************************)

SendLocks ==
    /\ bcast.pc = "idle" /\ lock = "free"
    /\ lock' = "main"
    /\ bcast' = [pc |-> "send", i |-> 1]
    /\ UNCHANGED <<clients, tick, handler, timer, sess, closing, accepted>>

\* Fault: the loop has no end.
SendNextUnbounded ==
    /\ bcast.pc = "send"
    /\ bcast' = [bcast EXCEPT !.i = @ + 1]
    /\ UNCHANGED <<clients, lock, tick, handler, timer, sess, closing, accepted>>

\* A free slot is skipped, a frame that is queued changes nothing.
SendNext ==
    /\ bcast.pc = "send" /\ bcast.i <= Capacity
    /\ bcast' = [bcast EXCEPT !.i = @ + 1]
    /\ UNCHANGED <<clients, lock, tick, handler, timer, sess, closing, accepted>>

SendFails ==
    /\ bcast.pc = "send" /\ bcast.i <= Capacity
    /\ clients[bcast.i].fd # NoFd
    /\ CloseAndDrop(bcast.i)
    /\ bcast' = [bcast EXCEPT !.i = @ + 1]
    /\ UNCHANGED <<lock, tick, handler, timer, sess, accepted>>

\* The end of the loop, or an encryption that failed right after the lock was taken.
SendUnlocks ==
    /\ bcast.pc = "send" /\ bcast.i \in {1, Capacity + 1}
    /\ lock' = "free"
    /\ bcast' = [pc |-> "idle", i |-> 1]
    /\ UNCHANGED <<clients, tick, handler, timer, sess, closing, accepted>>

-----------------------------------------------------------------------------
HandlerStep ==
    \/ AddClient \/ MarkVerified \/ Touch \/ DispatchPong \/ DispatchPing \/ DispatchData
    \/ Decrypt \/ Reject \/ Deliver \/ Clear \/ CloseSession

TimerStep ==
    \/ TimerExpires \/ TimerLocks \/ TimerChecks \/ TimerDrops \/ TimerPings \/ TimerPingFails
    \/ TimerFlags \/ TimerUnlocks

SendStep == SendLocks \/ SendNext \/ SendFails \/ SendUnlocks

\* What peers do, and what the HTTP server does with its sessions.
Environment ==
    \E f \in Fds :
       \/ Accept(f) \/ FrameFails(f) \/ PeerCloses(f) \/ QueuedClose(f)
       \/ \E authorized \in BOOLEAN : GetRequest(f, authorized)
       \/ \E frame \in Frames : FrameArrives(f, frame)

Next == Tick \/ HandlerStep \/ TimerStep \/ SendStep \/ Environment

Spec == Init /\ [][Next]_vars

-----------------------------------------------------------------------------
(***************************************************************************)
(* Properties.                                                             *)
(***************************************************************************)

\* Every variable keeps the type the code declares for it.
TypeOK ==
    /\ clients \in [Slots -> Client]
    /\ lock \in {"free", "timer", "main"}
    /\ tick \in 0 .. (TickMod - 1)
    /\ handler \in Handler
    /\ timer \in TimerTask
    /\ bcast \in BcastTask
    /\ sess \in [Fds -> {"closed", "http", "ws"}]
    /\ closing \subseteq Fds
    /\ accepted \in [Fds -> 0 .. MaxCounter]

\* The slots of the table never disagree about who owns a descriptor: add_client does not look
\* for an entry of the same fd, so a descriptor the server reuses must have lost its old entry
\* first (the close hook), or frames and pings would go to the wrong state.
UniqueFds ==
    \A i, j \in Slots : clients[i].fd = clients[j].fd /\ clients[i].fd # NoFd => i = j

\* Every entry of the table belongs to an open, upgraded session: the broadcast and the timer
\* never write to a descriptor that was closed, or that a later connection has before its own
\* handshake.
RegisteredSessionsOpen ==
    \A i \in Slots : clients[i].fd # NoFd => sess[clients[i].fd] = "ws"

\* ws_handler keeps the pointer find_client returned without the lock, through the decryption and
\* the callback, while the other tasks may free the slot: until it is done the slot is its
\* client's or nobody's, so what it writes late reaches no other client.
HandlerSlotOwned ==
    handler.pc \in SlotPcs => clients[handler.slot].fd \in {handler.fd, NoFd}

\* No session is left open with no entry (a peer that believes it is connected and is sent
\* nothing): whoever drops the entry of an open session has queued its close, or is closing it.
NoOrphanSession ==
    \A f \in Fds : sess[f] = "ws" /\ ~Registered(f) =>
        f \in closing \/ (handler.fd = f /\ handler.pc = "close")

\* The replay state of a registered client is the highest counter its session delivered, no more
\* (the first frames of a session that reuses a slot are not taken for replays, although a late
\* ws_handler may have written a counter into the freed slot) and no less (nothing is delivered
\* twice).
ReplayStateExact ==
    \A i \in Slots : clients[i].fd # NoFd =>
        IF handler.pc = "deliver" /\ handler.slot = i /\ Encrypted(handler.frame)
        THEN clients[i].last_counter = handler.frame.ctr
             /\ handler.frame.ctr > accepted[clients[i].fd]
        ELSE clients[i].last_counter = accepted[clients[i].fd]

(***************************************************************************)
(* The inductive invariant of the safety properties above.                 *)
(***************************************************************************)

\* Tasks hold the lock exactly while they are in their loops over the table.
LockHeld ==
    /\ lock = "timer" <=> timer.pc \in {"scan", "expired", "ping", "flag"}
    /\ lock = "main" <=> bcast.pc = "send"

\* Once the timer has decided about a slot, its client stays there until the timer acts.
TimerSlotTaken ==
    timer.pc \in {"expired", "ping", "flag"} =>
        timer.i \in Slots /\ clients[timer.i].fd # NoFd

\* What the httpd task knows of the session it is serving.
HandlerSession ==
    /\ handler.pc # "idle" => handler.fd \in Fds
    /\ handler.pc = "add" => sess[handler.fd] = "http"
    /\ handler.pc \in SlotPcs \cup {"mark", "reject"} => sess[handler.fd] = "ws"
    /\ handler.pc \in SlotPcs => handler.slot \in Slots
    /\ handler.pc = "mark" => accepted[handler.fd] = 0
    /\ handler.pc = "decrypt" => Encrypted(handler.frame)

\* While a frame of a client is processed, no slot but the one found for it has its descriptor.
NoOtherSlot ==
    handler.pc \in SlotPcs =>
        \A i \in Slots : clients[i].fd = handler.fd => i = handler.slot

\* Nothing was delivered in a session before its handshake.
FreshBeforeUpgrade == \A f \in Fds : sess[f] = "http" => accepted[f] = 0

SafetyInv ==
    /\ TypeOK /\ LockHeld /\ TimerSlotTaken /\ HandlerSession /\ NoOtherSlot
    /\ FreshBeforeUpgrade /\ UniqueFds /\ RegisteredSessionsOpen /\ HandlerSlotOwned
    /\ NoOrphanSession /\ ReplayStateExact
=============================================================================
