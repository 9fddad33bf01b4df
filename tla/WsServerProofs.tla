--------------------------- MODULE WsServerProofs ---------------------------
(***************************************************************************)
(* Proofs about WsServer and its keep-alive, for any number of descriptors *)
(* and slots, any period, timeout and lag of the timer, any width of the   *)
(* tick counter and any bound on the frame counters.                       *)
(***************************************************************************)
EXTENDS WsKeepAlive, TLAPS

\* The types of the slots and of the control states, used by every step.
LEMMA Constituents ==
    /\ NoFd \notin Fds
    /\ FreeClient \in Client
    /\ NoFrame \in Frames
    /\ IdleHandler \in Handler
    /\ \A frame \in Frames : Encrypted(frame) => frame.ctr \in 1 .. MaxCounter
    /\ Capacity \in Nat /\ Capacity >= 1
    /\ PingInterval \in Nat /\ PingInterval > 0 /\ TimerLag \in Nat
    /\ TickMod \in Nat /\ TickMod > 0 /\ MaxCounter \in Nat
<1>1. /\ NoFd \notin Fds /\ Capacity \in Nat /\ Capacity >= 1
      /\ PingInterval \in Nat /\ PingInterval > 0 /\ TimerLag \in Nat
      /\ TickMod \in Nat /\ TickMod > 0 /\ MaxCounter \in Nat
  BY WsServerAssumption
<1>2. FreeClient \in Client
  <2>1. TickMod \in Nat /\ TickMod > 0 /\ MaxCounter \in Nat /\ Handshake \in BOOLEAN
    BY WsServerAssumption
  <2> QED
    BY <2>1 DEF FreeClient, Client
<1>3. NoFrame \in Frames
  BY WsServerAssumption DEF NoFrame, Frames
<1>4. IdleHandler \in Handler
  BY <1>1, <1>3 DEF IdleHandler, Handler, HandlerPcs
<1>5. \A frame \in Frames : Encrypted(frame) => frame.ctr \in 1 .. MaxCounter
  BY DEF Frames, Encrypted
<1> QED
  BY <1>1, <1>2, <1>3, <1>4, <1>5

\* Init establishes the invariant.
LEMMA InitSafety == Init => SafetyInv
<1> SUFFICES ASSUME Init PROVE SafetyInv
  OBVIOUS
<1> USE Constituents
<1>1. TypeOK
  BY WsServerAssumption DEF Init, TypeOK, TimerTask, BcastTask
<1>2. LockHeld /\ TimerSlotTaken /\ HandlerSession /\ NoOtherSlot /\ FreshBeforeUpgrade
  BY DEF Init, LockHeld, TimerSlotTaken, HandlerSession, NoOtherSlot, FreshBeforeUpgrade,
     IdleHandler, SlotPcs
<1>3. UniqueFds /\ RegisteredSessionsOpen /\ HandlerSlotOwned /\ NoOrphanSession
      /\ ReplayStateExact
  BY DEF Init, UniqueFds, RegisteredSessionsOpen, HandlerSlotOwned, NoOrphanSession,
     ReplayStateExact, FreeClient, IdleHandler, SlotPcs
<1> QED
  BY <1>1, <1>2, <1>3 DEF SafetyInv

\* Dropping a client leaves a table.
LEMMA DropType == TypeOK => \A f : DropClient(f) \in [Slots -> Client]
BY Constituents DEF TypeOK, DropClient

\* Every step preserves the types.
LEMMA TypeStep == TypeOK /\ HandlerSession /\ TimerSlotTaken /\ [Next]_vars => TypeOK'
<1> SUFFICES ASSUME TypeOK, HandlerSession, TimerSlotTaken, [Next]_vars PROVE TypeOK'
  OBVIOUS
<1> USE Constituents DEF TypeOK
<1>1. ASSUME Tick PROVE TypeOK'
  BY <1>1 DEF Tick, TimerTask
<1>2. ASSUME NEW f \in Fds, Accept(f) PROVE TypeOK'
  BY <1>2 DEF Accept
<1>3. ASSUME NEW f \in Fds, NEW authorized \in BOOLEAN, GetRequest(f, authorized) PROVE TypeOK'
  BY <1>3 DEF GetRequest, Serving, Handler, HandlerPcs
<1>4. ASSUME AddClient PROVE TypeOK'
  <2>1. \A i \in Slots : [clients EXCEPT ![i] = NewClient(handler.fd)] \in [Slots -> Client]
    BY <1>4 DEF AddClient, NewClient, HandlerSession, Client
  <2>2. clients' \in [Slots -> Client] /\ handler' \in Handler
    BY <1>4, <2>1 DEF AddClient, Handler, HandlerPcs
  <2> QED
    BY <1>4, <2>2 DEF AddClient, HandlerSession
<1>5. ASSUME MarkVerified PROVE TypeOK'
  BY <1>5 DEF MarkVerified, VerifiedClient, Client
<1>6. ASSUME NEW f \in Fds, NEW frame \in Frames, FrameArrives(f, frame) PROVE TypeOK'
  BY <1>6 DEF FrameArrives, Serving, Slots, Handler, HandlerPcs
<1>7. ASSUME NEW f \in Fds, FrameFails(f) PROVE TypeOK'
  BY <1>7 DEF FrameFails, Serving, Handler, HandlerPcs
<1>8. ASSUME Touch PROVE TypeOK'
  BY <1>8 DEF Touch, Client, HandlerSession, SlotPcs, Handler, HandlerPcs
<1>9. ASSUME DispatchPong PROVE TypeOK'
  BY <1>9 DEF DispatchPong, Client, HandlerSession, SlotPcs
<1>10. ASSUME DispatchPing PROVE TypeOK'
  BY <1>10 DEF DispatchPing
<1>11. ASSUME DispatchData PROVE TypeOK'
  BY <1>11 DEF DispatchData, Handler, HandlerPcs
<1>12. ASSUME Decrypt PROVE TypeOK'
  <2>1. handler.fd \in Fds /\ handler.slot \in Slots /\ handler.frame.ctr \in 1 .. MaxCounter
    BY <1>12 DEF Decrypt, HandlerSession, SlotPcs, Handler
  <2>2. clients' \in [Slots -> Client]
    BY <1>12, <2>1 DEF Decrypt, Client
  <2>3. handler' \in Handler
    BY <1>12 DEF Decrypt, Handler, HandlerPcs
  <2> QED
    BY <1>12, <2>1, <2>2, <2>3 DEF Decrypt
<1>13. ASSUME Reject PROVE TypeOK'
  BY <1>13, DropType DEF Reject, Handler, HandlerPcs
<1>14. ASSUME Deliver PROVE TypeOK'
  BY <1>14 DEF Deliver, HandlerSession, Handler, HandlerPcs
<1>15. ASSUME Clear PROVE TypeOK'
  BY <1>15 DEF Clear, Client, HandlerSession, SlotPcs
<1>16. ASSUME CloseSession PROVE TypeOK'
  BY <1>16, DropType DEF CloseSession, HandlerSession
<1>17. ASSUME NEW f \in Fds, PeerCloses(f) PROVE TypeOK'
  BY <1>17 DEF PeerCloses, Serving, Handler, HandlerPcs
<1>18. ASSUME NEW f \in Fds, QueuedClose(f) PROVE TypeOK'
  BY <1>18 DEF QueuedClose, Serving, Handler, HandlerPcs
<1>19. ASSUME TimerExpires PROVE TypeOK'
  BY <1>19 DEF TimerExpires, TimerTask
<1>20. ASSUME TimerLocks PROVE TypeOK'
  BY <1>20 DEF TimerLocks, TimerAt, TimerTask
<1>21. ASSUME TimerChecks PROVE TypeOK'
  BY <1>21 DEF TimerChecks, TimerAt, TimerTask
<1>22. ASSUME TimerDrops PROVE TypeOK'
  <2>1. timer' \in TimerTask
    BY <1>22 DEF TimerDrops, TimerAt, TimerSlotTaken, TimerTask, Slots
  <2>2. clients[timer.i].fd \in Fds
    BY <1>22 DEF TimerDrops, TimerSlotTaken, Client
  <2> QED
    BY <1>22, <2>1, <2>2, DropType DEF TimerDrops, CloseAndDrop
<1>23. ASSUME TimerPings PROVE TypeOK'
  BY <1>23 DEF TimerPings, TimerAt, TimerTask
<1>24. ASSUME TimerPingFails PROVE TypeOK'
  <2>1. timer' \in TimerTask
    BY <1>24 DEF TimerPingFails, TimerAt, TimerSlotTaken, TimerTask, Slots
  <2>2. clients[timer.i].fd \in Fds
    BY <1>24 DEF TimerPingFails, TimerSlotTaken, Client
  <2> QED
    BY <1>24, <2>1, <2>2, DropType DEF TimerPingFails, CloseAndDrop
<1>25. ASSUME TimerFlags PROVE TypeOK'
  <2>1. timer' \in TimerTask
    BY <1>25 DEF TimerFlags, TimerAt, TimerSlotTaken, TimerTask, Slots
  <2>2. clients' \in [Slots -> Client]
    BY <1>25 DEF TimerFlags, TimerSlotTaken, Client
  <2> QED
    BY <1>25, <2>1, <2>2 DEF TimerFlags
<1>26. ASSUME TimerUnlocks PROVE TypeOK'
  BY <1>26 DEF TimerUnlocks, TimerTask
<1>27. ASSUME SendLocks PROVE TypeOK'
  BY <1>27 DEF SendLocks, BcastTask
<1>28. ASSUME SendNext PROVE TypeOK'
  BY <1>28 DEF SendNext, BcastTask
<1>29. ASSUME SendFails PROVE TypeOK'
  <2>1. bcast' \in BcastTask /\ bcast.i \in Slots
    BY <1>29 DEF SendFails, BcastTask, Slots
  <2>2. clients[bcast.i].fd \in Fds
    BY <1>29, <2>1 DEF SendFails, Client
  <2> QED
    BY <1>29, <2>1, <2>2, DropType DEF SendFails, CloseAndDrop
<1>30. ASSUME SendUnlocks PROVE TypeOK'
  BY <1>30 DEF SendUnlocks, BcastTask
<1>31. CASE UNCHANGED vars
  BY <1>31 DEF vars
<1>32. CASE HandlerStep
  BY <1>4, <1>5, <1>8, <1>9, <1>10, <1>11, <1>12, <1>13, <1>14, <1>15, <1>16, <1>32 DEF HandlerStep
<1>33. CASE TimerStep
  BY <1>19, <1>20, <1>21, <1>22, <1>23, <1>24, <1>25, <1>26, <1>33 DEF TimerStep
<1>34. CASE SendStep
  BY <1>27, <1>28, <1>29, <1>30, <1>34 DEF SendStep
<1>35. CASE Environment
  BY <1>2, <1>3, <1>6, <1>7, <1>17, <1>18, <1>35 DEF Environment
<1> QED
  BY <1>1, <1>31, <1>32, <1>33, <1>34, <1>35 DEF Next

\* In a table without duplicates find_client finds the only slot of a descriptor.
LEMMA FindUnique ==
    UniqueFds => \A f \in Fds, i \in Slots : FindClient(f, i) <=> clients[i].fd = f
BY Constituents DEF UniqueFds, FindClient, Slots

\* ... and dropping a client frees that slot and no other.
LEMMA DropUnique ==
    UniqueFds => \A f \in Fds, i \in Slots :
        DropClient(f)[i] = IF clients[i].fd = f THEN FreeClient ELSE clients[i]
BY FindUnique DEF DropClient

\* Every step preserves what the tasks know of the lock, the session and the slot they work on.
LEMMA ControlStep ==
    TypeOK /\ LockHeld /\ TimerSlotTaken /\ HandlerSession /\ FreshBeforeUpgrade /\ UniqueFds
    /\ [Next]_vars => LockHeld' /\ TimerSlotTaken' /\ HandlerSession' /\ FreshBeforeUpgrade'
<1> SUFFICES ASSUME TypeOK, LockHeld, TimerSlotTaken, HandlerSession, FreshBeforeUpgrade,
                    UniqueFds, [Next]_vars
             PROVE  LockHeld' /\ TimerSlotTaken' /\ HandlerSession' /\ FreshBeforeUpgrade'
  OBVIOUS
<1> DEFINE Goal == LockHeld' /\ TimerSlotTaken' /\ HandlerSession' /\ FreshBeforeUpgrade'
<1> USE Constituents DEF LockHeld, TimerSlotTaken, HandlerSession, FreshBeforeUpgrade, TypeOK,
        SlotPcs
<1>1. ASSUME Tick PROVE Goal
  BY <1>1 DEF Tick
<1>2. ASSUME NEW f \in Fds, Accept(f) PROVE Goal
  BY <1>2 DEF Accept
<1>3. ASSUME NEW f \in Fds, NEW authorized \in BOOLEAN, GetRequest(f, authorized) PROVE Goal
  BY <1>3 DEF GetRequest, Serving
<1>4. ASSUME AddClient PROVE Goal
  <2>1. handler.fd \in Fds /\ sess[handler.fd] = "http" /\ accepted[handler.fd] = 0
    BY <1>4 DEF AddClient
  <2>2. CASE /\ ~Registered(NoFd) /\ UNCHANGED <<clients, sess>>
             /\ handler' = [handler EXCEPT !.pc = "close"]
    BY <1>4, <2>1, <2>2 DEF AddClient
  <2>3. ASSUME NEW i \in Slots, FirstFree(i), sess' = [sess EXCEPT ![handler.fd] = "ws"],
               clients' = [clients EXCEPT ![i] = NewClient(handler.fd)],
               handler' = IF Handshake THEN [handler EXCEPT !.pc = "mark"] ELSE IdleHandler
        PROVE  Goal
    <3>1. TimerSlotTaken' /\ LockHeld' /\ FreshBeforeUpgrade'
      BY <1>4, <2>1, <2>3 DEF AddClient, NewClient
    <3>2. HandlerSession'
      BY <1>4, <2>1, <2>3 DEF AddClient, IdleHandler
    <3> QED
      BY <3>1, <3>2
  <2> QED
    BY <1>4, <2>2, <2>3 DEF AddClient
<1>5. ASSUME MarkVerified PROVE Goal
  BY <1>5 DEF MarkVerified, VerifiedClient, IdleHandler
<1>6. ASSUME NEW f \in Fds, NEW frame \in Frames, FrameArrives(f, frame) PROVE Goal
  <2>1. HandlerSession'
    <3>1. CASE handler' = Serving(f, "close")
      BY <1>6, <3>1 DEF FrameArrives, Serving
    <3>2. ASSUME NEW i \in Slots,
                 handler' = [pc |-> "touch", fd |-> f, slot |-> i, frame |-> frame]
          PROVE  HandlerSession'
      BY <1>6, <3>2 DEF FrameArrives
    <3> QED
      BY <1>6, <3>1, <3>2 DEF FrameArrives
  <2> QED
    BY <1>6, <2>1 DEF FrameArrives
<1>7. ASSUME NEW f \in Fds, FrameFails(f) PROVE Goal
  BY <1>7 DEF FrameFails, Serving
<1>8. ASSUME Touch PROVE Goal
  BY <1>8 DEF Touch
<1>9. ASSUME DispatchPong PROVE Goal
  BY <1>9 DEF DispatchPong, IdleHandler
<1>10. ASSUME DispatchPing PROVE Goal
  BY <1>10 DEF DispatchPing, IdleHandler
<1>11. ASSUME DispatchData PROVE Goal
  BY <1>11 DEF DispatchData
<1>12. ASSUME Decrypt PROVE Goal
  <2>1. handler.slot \in Slots /\ handler.fd \in Fds
    BY <1>12 DEF Decrypt
  <2>2. \A i \in Slots : clients'[i].fd = clients[i].fd
    BY <1>12, <2>1 DEF Decrypt, Client
  <2>3. TimerSlotTaken'
    BY <1>12, <2>2 DEF Decrypt
  <2>4. HandlerSession'
    BY <1>12, <2>1 DEF Decrypt, Handler
  <2> QED
    BY <1>12, <2>3, <2>4 DEF Decrypt
<1>13. ASSUME Reject PROVE Goal
  BY <1>13, DropUnique DEF Reject
<1>14. ASSUME Deliver PROVE Goal
  BY <1>14 DEF Deliver
<1>15. ASSUME Clear PROVE Goal
  BY <1>15 DEF Clear, IdleHandler
<1>16. ASSUME CloseSession PROVE Goal
  BY <1>16, DropUnique DEF CloseSession, IdleHandler
<1>17. ASSUME NEW f \in Fds, PeerCloses(f) PROVE Goal
  BY <1>17 DEF PeerCloses, Serving
<1>18. ASSUME NEW f \in Fds, QueuedClose(f) PROVE Goal
  BY <1>18 DEF QueuedClose, Serving
<1>19. ASSUME TimerExpires PROVE Goal
  BY <1>19 DEF TimerExpires, TimerAt
<1>20. ASSUME TimerLocks PROVE Goal
  BY <1>20 DEF TimerLocks, TimerAt
<1>21. ASSUME TimerChecks PROVE Goal
  BY <1>21 DEF TimerChecks, Slots, TimerTask, TimerAt
<1>22. ASSUME TimerDrops PROVE Goal
  BY <1>22, DropUnique DEF TimerDrops, TimerAt, CloseAndDrop
<1>23. ASSUME TimerPings PROVE Goal
  BY <1>23 DEF TimerPings, TimerAt
<1>24. ASSUME TimerPingFails PROVE Goal
  BY <1>24, DropUnique DEF TimerPingFails, TimerAt, CloseAndDrop
<1>25. ASSUME TimerFlags PROVE Goal
  BY <1>25 DEF TimerFlags, TimerAt
<1>26. ASSUME TimerUnlocks PROVE Goal
  BY <1>26 DEF TimerUnlocks, TimerAt
<1>27. ASSUME SendLocks PROVE Goal
  BY <1>27 DEF SendLocks
<1>28. ASSUME SendNext PROVE Goal
  BY <1>28 DEF SendNext
<1>29. ASSUME SendFails PROVE Goal
  BY <1>29, DropUnique DEF SendFails, CloseAndDrop
<1>30. ASSUME SendUnlocks PROVE Goal
  BY <1>30 DEF SendUnlocks
<1>31. CASE UNCHANGED vars
  BY <1>31 DEF vars
<1>32. CASE HandlerStep
  BY <1>4, <1>5, <1>8, <1>9, <1>10, <1>11, <1>12, <1>13, <1>14, <1>15, <1>16, <1>32 DEF HandlerStep
<1>33. CASE TimerStep
  BY <1>19, <1>20, <1>21, <1>22, <1>23, <1>24, <1>25, <1>26, <1>33 DEF TimerStep
<1>34. CASE SendStep
  BY <1>27, <1>28, <1>29, <1>30, <1>34 DEF SendStep
<1>35. CASE Environment
  BY <1>2, <1>3, <1>6, <1>7, <1>17, <1>18, <1>35 DEF Environment
<1> QED
  BY <1>1, <1>31, <1>32, <1>33, <1>34, <1>35 DEF Next

\* Every step preserves who owns which slot and session.
LEMMA OwnershipStep ==
    SafetyInv /\ [Next]_vars =>
        /\ UniqueFds' /\ RegisteredSessionsOpen' /\ NoOtherSlot' /\ HandlerSlotOwned'
        /\ NoOrphanSession'
<1> DEFINE Goal == /\ UniqueFds' /\ RegisteredSessionsOpen' /\ NoOtherSlot' /\ HandlerSlotOwned'
                   /\ NoOrphanSession'
<1> SUFFICES ASSUME SafetyInv, [Next]_vars PROVE Goal
  OBVIOUS
<1> USE Constituents DEF SafetyInv, TypeOK, LockHeld, TimerSlotTaken, HandlerSession, UniqueFds,
        RegisteredSessionsOpen, NoOtherSlot, HandlerSlotOwned, NoOrphanSession, Registered, SlotPcs
<1>1. ASSUME Tick PROVE Goal
  BY <1>1 DEF Tick
<1>2. ASSUME NEW f \in Fds, Accept(f) PROVE Goal
  BY <1>2 DEF Accept
<1>3. ASSUME NEW f \in Fds, NEW authorized \in BOOLEAN, GetRequest(f, authorized) PROVE Goal
  BY <1>3 DEF GetRequest, Serving
<1>4. ASSUME AddClient PROVE Goal
  <2>1. handler.fd \in Fds /\ sess[handler.fd] = "http" /\ handler.pc = "add" /\ closing' = closing
    BY <1>4 DEF AddClient
  <2>2. CASE /\ ~Registered(NoFd) /\ UNCHANGED <<clients, sess>>
             /\ handler' = [handler EXCEPT !.pc = "close"]
    BY <2>1, <2>2 DEF Handler
  <2>3. ASSUME NEW i \in Slots, FirstFree(i), sess' = [sess EXCEPT ![handler.fd] = "ws"],
               clients' = [clients EXCEPT ![i] = NewClient(handler.fd)],
               handler' = IF Handshake THEN [handler EXCEPT !.pc = "mark"] ELSE IdleHandler
        PROVE  Goal
    <3>1. \A j \in Slots : clients'[j].fd = IF j = i THEN handler.fd ELSE clients[j].fd
      BY <2>3 DEF NewClient
    <3>2. clients[i].fd = NoFd /\ \A j \in Slots : clients[j].fd # handler.fd
      BY <2>1, <2>3 DEF FirstFree
    <3>3. handler'.pc \in {"mark", "idle"}
      BY <2>3 DEF IdleHandler
    <3>4. UniqueFds' /\ NoOtherSlot' /\ HandlerSlotOwned'
      BY <3>1, <3>2, <3>3
    <3>5. RegisteredSessionsOpen'
      BY <2>1, <2>3, <3>1, <3>2 DEF Client
    <3>6. NoOrphanSession'
      BY <2>1, <2>3, <3>1, <3>2
    <3> QED
      BY <3>4, <3>5, <3>6
  <2> QED
    BY <1>4, <2>2, <2>3 DEF AddClient
<1>5. ASSUME MarkVerified PROVE Goal
  BY <1>5, FindUnique DEF MarkVerified, VerifiedClient, IdleHandler
<1>6. ASSUME NEW f \in Fds, NEW frame \in Frames, FrameArrives(f, frame) PROVE Goal
  <2>1. clients' = clients /\ sess' = sess /\ closing' = closing /\ handler.pc = "idle"
    BY <1>6 DEF FrameArrives
  <2>2. CASE ~Registered(f) /\ handler' = Serving(f, "close")
    BY <2>1, <2>2 DEF Serving
  <2>3. ASSUME NEW i \in Slots, clients[i].fd = f,
               handler' = [pc |-> "touch", fd |-> f, slot |-> i, frame |-> frame]
        PROVE  Goal
    BY <2>1, <2>3
  <2> QED
    BY <1>6, <2>2, <2>3, FindUnique DEF FrameArrives
<1>7. ASSUME NEW f \in Fds, FrameFails(f) PROVE Goal
  BY <1>7 DEF FrameFails, Serving
<1>8. ASSUME Touch PROVE Goal
  <2>1. \A i \in Slots : clients'[i].fd = clients[i].fd
    BY <1>8 DEF Touch
  <2>2. handler'.fd = handler.fd /\ handler'.slot = handler.slot /\ handler'.pc = "dispatch"
    BY <1>8 DEF Touch
  <2> QED
    BY <1>8, <2>1, <2>2 DEF Touch
<1>9. ASSUME DispatchPong PROVE Goal
  <2>1. \A i \in Slots : clients'[i].fd = clients[i].fd
    BY <1>9 DEF DispatchPong
  <2> QED
    BY <1>9, <2>1 DEF DispatchPong, IdleHandler
<1>10. ASSUME DispatchPing PROVE Goal
  BY <1>10 DEF DispatchPing, IdleHandler
<1>11. ASSUME DispatchData PROVE Goal
  BY <1>11 DEF DispatchData
<1>12. ASSUME Decrypt PROVE Goal
  <2>1. handler.slot \in Slots /\ handler.fd \in Fds
    BY <1>12 DEF Decrypt
  <2>2. \A i \in Slots : clients'[i].fd = clients[i].fd
    BY <1>12, <2>1 DEF Decrypt, Client
  <2>3. /\ handler'.fd = handler.fd /\ handler'.slot = handler.slot
        /\ handler'.pc \in {"deliver", "reject"}
    BY <1>12 DEF Decrypt, Handler
  <2>4. sess' = sess /\ closing \subseteq closing' /\ handler.pc = "decrypt"
    BY <1>12 DEF Decrypt
  <2> QED
    BY <2>1, <2>2, <2>3, <2>4
<1>13. ASSUME Reject PROVE Goal
  <2>1. handler.fd \in Fds
    BY <1>13 DEF Reject
  <2>2. \A j \in Slots : clients'[j].fd = IF clients[j].fd = handler.fd THEN NoFd ELSE clients[j].fd
    BY <1>13, <2>1, DropUnique DEF Reject, FreeClient
  <2>3. handler'.pc = "close" /\ handler'.fd = handler.fd /\ handler.pc = "reject"
    BY <1>13 DEF Reject
  <2>4. sess' = sess /\ closing' = closing
    BY <1>13 DEF Reject
  <2> QED
    BY <2>1, <2>2, <2>3, <2>4
<1>14. ASSUME Deliver PROVE Goal
  BY <1>14 DEF Deliver
<1>15. ASSUME Clear PROVE Goal
  <2>1. \A i \in Slots : clients'[i].fd = clients[i].fd
    BY <1>15 DEF Clear
  <2> QED
    BY <1>15, <2>1 DEF Clear, IdleHandler
<1>16. ASSUME CloseSession PROVE Goal
  <2>1. handler.fd \in Fds
    BY <1>16 DEF CloseSession
  <2>2. \A j \in Slots : clients'[j].fd = IF clients[j].fd = handler.fd THEN NoFd ELSE clients[j].fd
    BY <1>16, <2>1, DropUnique DEF CloseSession, FreeClient
  <2>3. handler'.pc = "idle" /\ handler.pc = "close"
    BY <1>16 DEF CloseSession, IdleHandler
  <2>4. sess' = [sess EXCEPT ![handler.fd] = "closed"] /\ closing' = closing
    BY <1>16 DEF CloseSession
  <2>5. UniqueFds' /\ NoOtherSlot' /\ HandlerSlotOwned'
    BY <2>1, <2>2, <2>3
  <2>6. RegisteredSessionsOpen'
    BY <2>1, <2>2, <2>4 DEF Client
  <2>7. NoOrphanSession'
    BY <2>1, <2>2, <2>3, <2>4
  <2> QED
    BY <2>5, <2>6, <2>7
<1>17. ASSUME NEW f \in Fds, PeerCloses(f) PROVE Goal
  BY <1>17 DEF PeerCloses, Serving
<1>18. ASSUME NEW f \in Fds, QueuedClose(f) PROVE Goal
  BY <1>18 DEF QueuedClose, Serving
<1>19. ASSUME TimerExpires PROVE Goal
  BY <1>19 DEF TimerExpires, TimerAt
<1>20. ASSUME TimerLocks PROVE Goal
  BY <1>20 DEF TimerLocks, TimerAt
<1>21. ASSUME TimerChecks PROVE Goal
  BY <1>21 DEF TimerChecks, TimerAt
<1>22. ASSUME TimerDrops PROVE Goal
  <2> DEFINE gone == clients[timer.i].fd
  <2>1. gone \in Fds
    BY <1>22 DEF TimerDrops, Client
  <2>2. \A j \in Slots : clients'[j].fd = IF clients[j].fd = gone THEN NoFd ELSE clients[j].fd
    BY <1>22, <2>1, DropUnique DEF TimerDrops, CloseAndDrop, FreeClient
  <2>3. sess' = sess /\ handler' = handler /\ closing' = closing \cup {gone}
    BY <1>22 DEF TimerDrops, CloseAndDrop
  <2> HIDE DEF gone
  <2> QED
    BY <2>1, <2>2, <2>3
<1>23. ASSUME TimerPings PROVE Goal
  BY <1>23 DEF TimerPings, TimerAt
<1>24. ASSUME TimerPingFails PROVE Goal
  <2> DEFINE gone == clients[timer.i].fd
  <2>1. gone \in Fds
    BY <1>24 DEF TimerPingFails, Client
  <2>2. \A j \in Slots : clients'[j].fd = IF clients[j].fd = gone THEN NoFd ELSE clients[j].fd
    BY <1>24, <2>1, DropUnique DEF TimerPingFails, CloseAndDrop, FreeClient
  <2>3. sess' = sess /\ handler' = handler /\ closing' = closing \cup {gone}
    BY <1>24 DEF TimerPingFails, CloseAndDrop
  <2> HIDE DEF gone
  <2> QED
    BY <2>1, <2>2, <2>3
<1>25. ASSUME TimerFlags PROVE Goal
  <2>1. \A i \in Slots : clients'[i].fd = clients[i].fd
    BY <1>25 DEF TimerFlags
  <2> QED
    BY <1>25, <2>1 DEF TimerFlags
<1>26. ASSUME TimerUnlocks PROVE Goal
  BY <1>26 DEF TimerUnlocks, TimerAt
<1>27. ASSUME SendLocks PROVE Goal
  BY <1>27 DEF SendLocks
<1>28. ASSUME SendNext PROVE Goal
  BY <1>28 DEF SendNext
<1>29. ASSUME SendFails PROVE Goal
  <2> DEFINE gone == clients[bcast.i].fd
  <2>1. gone \in Fds
    BY <1>29 DEF SendFails, BcastTask, Slots, Client
  <2>2. \A j \in Slots : clients'[j].fd = IF clients[j].fd = gone THEN NoFd ELSE clients[j].fd
    BY <1>29, <2>1, DropUnique DEF SendFails, CloseAndDrop, FreeClient
  <2>3. sess' = sess /\ handler' = handler /\ closing' = closing \cup {gone}
    BY <1>29 DEF SendFails, CloseAndDrop
  <2> HIDE DEF gone
  <2> QED
    BY <2>1, <2>2, <2>3
<1>30. ASSUME SendUnlocks PROVE Goal
  BY <1>30 DEF SendUnlocks
<1>31. CASE UNCHANGED vars
  BY <1>31 DEF vars
<1>32. CASE HandlerStep
  BY <1>4, <1>5, <1>8, <1>9, <1>10, <1>11, <1>12, <1>13, <1>14, <1>15, <1>16, <1>32 DEF HandlerStep
<1>33. CASE TimerStep
  BY <1>19, <1>20, <1>21, <1>22, <1>23, <1>24, <1>25, <1>26, <1>33 DEF TimerStep
<1>34. CASE SendStep
  BY <1>27, <1>28, <1>29, <1>30, <1>34 DEF SendStep
<1>35. CASE Environment
  BY <1>2, <1>3, <1>6, <1>7, <1>17, <1>18, <1>35 DEF Environment
<1> QED
  BY <1>1, <1>31, <1>32, <1>33, <1>34, <1>35 DEF Next

\* Every step preserves the replay state of the registered clients.
LEMMA ReplayStep == SafetyInv /\ [Next]_vars => ReplayStateExact'
<1> DEFINE Goal == ReplayStateExact'
<1> SUFFICES ASSUME SafetyInv, [Next]_vars PROVE Goal
  OBVIOUS
<1> USE Constituents DEF SafetyInv, TypeOK, LockHeld, TimerSlotTaken, HandlerSession, UniqueFds,
        NoOtherSlot, HandlerSlotOwned, ReplayStateExact, SlotPcs, FreshBeforeUpgrade
<1>1. ASSUME Tick PROVE Goal
  BY <1>1 DEF Tick
<1>2. ASSUME NEW f \in Fds, Accept(f) PROVE Goal
  <2>1. \A i \in Slots : clients[i].fd # f
    BY <1>2 DEF Accept, RegisteredSessionsOpen
  <2> QED
    BY <1>2, <2>1 DEF Accept
<1>3. ASSUME NEW f \in Fds, NEW authorized \in BOOLEAN, GetRequest(f, authorized) PROVE Goal
  BY <1>3 DEF GetRequest, Serving
<1>4. ASSUME AddClient PROVE Goal
  <2>1. handler.fd \in Fds /\ accepted[handler.fd] = 0 /\ handler.pc = "add" /\ accepted' = accepted
    BY <1>4 DEF AddClient
  <2>2. CASE UNCHANGED clients /\ handler' = [handler EXCEPT !.pc = "close"]
    BY <2>1, <2>2 DEF Handler
  <2>3. ASSUME NEW i \in Slots, clients' = [clients EXCEPT ![i] = NewClient(handler.fd)],
               handler' = IF Handshake THEN [handler EXCEPT !.pc = "mark"] ELSE IdleHandler
        PROVE  Goal
    <3>1. handler'.pc \in {"mark", "idle"}
      BY <2>3 DEF IdleHandler
    <3>2. \A j \in Slots : j # i => clients'[j] = clients[j]
      BY <2>3
    <3>3. clients'[i].fd = handler.fd /\ clients'[i].last_counter = 0
      BY <2>3 DEF NewClient
    <3> QED
      BY <2>1, <3>1, <3>2, <3>3
  <2> QED
    BY <1>4, <2>2, <2>3 DEF AddClient
<1>5. ASSUME MarkVerified PROVE Goal
  BY <1>5, FindUnique DEF MarkVerified, VerifiedClient, IdleHandler
<1>6. ASSUME NEW f \in Fds, NEW frame \in Frames, FrameArrives(f, frame) PROVE Goal
  <2>1. clients' = clients /\ accepted' = accepted /\ handler.pc = "idle"
    BY <1>6 DEF FrameArrives
  <2>2. handler'.pc \in {"close", "touch"}
    BY <1>6 DEF FrameArrives, Serving
  <2> QED
    BY <2>1, <2>2
<1>7. ASSUME NEW f \in Fds, FrameFails(f) PROVE Goal
  BY <1>7 DEF FrameFails, Serving
<1>8. ASSUME Touch PROVE Goal
  BY <1>8 DEF Touch
<1>9. ASSUME DispatchPong PROVE Goal
  BY <1>9 DEF DispatchPong, IdleHandler
<1>10. ASSUME DispatchPing PROVE Goal
  BY <1>10 DEF DispatchPing, IdleHandler
<1>11. ASSUME DispatchData PROVE Goal
  BY <1>11 DEF DispatchData
<1>12. ASSUME Decrypt PROVE Goal
  <2>1. /\ handler.slot \in Slots /\ handler.fd \in Fds /\ handler.pc = "decrypt"
        /\ accepted' = accepted /\ Encrypted(handler.frame)
    BY <1>12 DEF Decrypt
  <2>2. CASE /\ handler.frame.ctr > clients[handler.slot].last_counter
             /\ clients' = [clients EXCEPT ![handler.slot].last_counter = handler.frame.ctr]
             /\ handler' = [handler EXCEPT !.pc = "deliver"]
    <3>1. \A j \in Slots : clients'[j].fd = clients[j].fd
      BY <2>1, <2>2 DEF Client
    <3>2. \A j \in Slots : j # handler.slot => clients'[j].last_counter = clients[j].last_counter
      BY <2>1, <2>2 DEF Client
    <3>3. clients'[handler.slot].last_counter = handler.frame.ctr
      BY <2>1, <2>2 DEF Client
    <3>4. handler'.slot = handler.slot /\ handler'.frame = handler.frame /\ handler'.pc = "deliver"
      BY <2>2 DEF Handler
    <3> QED
      BY <2>1, <2>2, <3>1, <3>2, <3>3, <3>4
  <2>3. CASE UNCHANGED clients /\ handler' = [handler EXCEPT !.pc = "reject"]
    BY <2>1, <2>3 DEF Handler
  <2> QED
    BY <1>12, <2>2, <2>3 DEF Decrypt
<1>13. ASSUME Reject PROVE Goal
  BY <1>13, DropUnique DEF Reject, FreeClient
<1>14. ASSUME Deliver PROVE Goal
  BY <1>14 DEF Deliver
<1>15. ASSUME Clear PROVE Goal
  BY <1>15 DEF Clear, IdleHandler
<1>16. ASSUME CloseSession PROVE Goal
  BY <1>16, DropUnique DEF CloseSession, FreeClient, IdleHandler
<1>17. ASSUME NEW f \in Fds, PeerCloses(f) PROVE Goal
  BY <1>17 DEF PeerCloses, Serving
<1>18. ASSUME NEW f \in Fds, QueuedClose(f) PROVE Goal
  BY <1>18 DEF QueuedClose, Serving
<1>19. ASSUME TimerExpires PROVE Goal
  BY <1>19 DEF TimerExpires, TimerAt
<1>20. ASSUME TimerLocks PROVE Goal
  BY <1>20 DEF TimerLocks, TimerAt
<1>21. ASSUME TimerChecks PROVE Goal
  BY <1>21 DEF TimerChecks, TimerAt
<1>22. ASSUME TimerDrops PROVE Goal
  <2> DEFINE gone == clients[timer.i].fd
  <2>1. gone \in Fds
    BY <1>22 DEF TimerDrops, Client
  <2>2. \A j \in Slots : clients'[j] = IF clients[j].fd = gone THEN FreeClient ELSE clients[j]
    BY <1>22, <2>1, DropUnique DEF TimerDrops, CloseAndDrop
  <2>3. handler' = handler /\ accepted' = accepted
    BY <1>22 DEF TimerDrops
  <2> HIDE DEF gone
  <2> QED
    BY <2>1, <2>2, <2>3 DEF FreeClient
<1>23. ASSUME TimerPings PROVE Goal
  BY <1>23 DEF TimerPings, TimerAt
<1>24. ASSUME TimerPingFails PROVE Goal
  <2> DEFINE gone == clients[timer.i].fd
  <2>1. gone \in Fds
    BY <1>24 DEF TimerPingFails, Client
  <2>2. \A j \in Slots : clients'[j] = IF clients[j].fd = gone THEN FreeClient ELSE clients[j]
    BY <1>24, <2>1, DropUnique DEF TimerPingFails, CloseAndDrop
  <2>3. handler' = handler /\ accepted' = accepted
    BY <1>24 DEF TimerPingFails
  <2> HIDE DEF gone
  <2> QED
    BY <2>1, <2>2, <2>3 DEF FreeClient
<1>25. ASSUME TimerFlags PROVE Goal
  BY <1>25 DEF TimerFlags, TimerAt
<1>26. ASSUME TimerUnlocks PROVE Goal
  BY <1>26 DEF TimerUnlocks, TimerAt
<1>27. ASSUME SendLocks PROVE Goal
  BY <1>27 DEF SendLocks
<1>28. ASSUME SendNext PROVE Goal
  BY <1>28 DEF SendNext
<1>29. ASSUME SendFails PROVE Goal
  <2> DEFINE gone == clients[bcast.i].fd
  <2>1. gone \in Fds
    BY <1>29 DEF SendFails, BcastTask, Slots, Client
  <2>2. \A j \in Slots : clients'[j] = IF clients[j].fd = gone THEN FreeClient ELSE clients[j]
    BY <1>29, <2>1, DropUnique DEF SendFails, CloseAndDrop
  <2>3. handler' = handler /\ accepted' = accepted
    BY <1>29 DEF SendFails
  <2> HIDE DEF gone
  <2> QED
    BY <2>1, <2>2, <2>3 DEF FreeClient
<1>30. ASSUME SendUnlocks PROVE Goal
  BY <1>30 DEF SendUnlocks
<1>31. CASE UNCHANGED vars
  BY <1>31 DEF vars
<1>32. CASE HandlerStep
  BY <1>4, <1>5, <1>8, <1>9, <1>10, <1>11, <1>12, <1>13, <1>14, <1>15, <1>16, <1>32 DEF HandlerStep
<1>33. CASE TimerStep
  BY <1>19, <1>20, <1>21, <1>22, <1>23, <1>24, <1>25, <1>26, <1>33 DEF TimerStep
<1>34. CASE SendStep
  BY <1>27, <1>28, <1>29, <1>30, <1>34 DEF SendStep
<1>35. CASE Environment
  BY <1>2, <1>3, <1>6, <1>7, <1>17, <1>18, <1>35 DEF Environment
<1> QED
  BY <1>1, <1>31, <1>32, <1>33, <1>34, <1>35 DEF Next

-----------------------------------------------------------------------------
\* The whole invariant is inductive.
LEMMA SafetyStep == SafetyInv /\ [Next]_vars => SafetyInv'
BY TypeStep, ControlStep, OwnershipStep, ReplayStep DEF SafetyInv

\* The inductive invariant holds throughout, for every instance of the server.
THEOREM Safety == Spec => []SafetyInv
BY InitSafety, SafetyStep, PTL DEF Spec

\* Every variable of the server keeps its type.
THEOREM TypeCorrect == Spec => []TypeOK
<1>1. SafetyInv => TypeOK
  BY DEF SafetyInv
<1> QED
  BY <1>1, Safety, PTL

\* No descriptor has two slots, although add_client does not look for one it already has.
THEOREM FdsUnique == Spec => []UniqueFds
<1>1. SafetyInv => UniqueFds
  BY DEF SafetyInv
<1> QED
  BY <1>1, Safety, PTL

\* The table holds open, upgraded sessions only: timer and broadcast write to nobody else.
THEOREM TableMatchesSessions == Spec => []RegisteredSessionsOpen
<1>1. SafetyInv => RegisteredSessionsOpen
  BY DEF SafetyInv
<1> QED
  BY <1>1, Safety, PTL

\* What ws_handler writes without the lock reaches the slot of its own client or a free one.
THEOREM UnlockedWritesConfined == Spec => []HandlerSlotOwned
<1>1. SafetyInv => HandlerSlotOwned
  BY DEF SafetyInv
<1> QED
  BY <1>1, Safety, PTL

\* A session that lost its entry is being closed.
THEOREM NoOrphans == Spec => []NoOrphanSession
<1>1. SafetyInv => NoOrphanSession
  BY DEF SafetyInv
<1> QED
  BY <1>1, Safety, PTL

\* The replay state of a registered client is what its session delivered.
THEOREM ReplayExact == Spec => []ReplayStateExact
<1>1. SafetyInv => ReplayStateExact
  BY DEF SafetyInv
<1> QED
  BY <1>1, Safety, PTL

-----------------------------------------------------------------------------
(***************************************************************************)
(* The keep-alive: how long a peer may be silent before it is dropped, and *)
(* how long it was when it is timed out.                                   *)
(***************************************************************************)

\* The unsigned difference of two ticks.
LEMMA ElapsedIs ==
    ASSUME NEW now \in 0 .. (TickMod - 1), NEW then \in 0 .. (TickMod - 1)
    PROVE  Elapsed(now, then) = IF now >= then THEN now - then ELSE now - then + TickMod
<1>1. ASSUME NEW T \in Nat \ {0}, NEW x \in Int, -T < x, x < T
      PROVE  x % T = IF x >= 0 THEN x ELSE x + T
  BY <1>1
<1> DEFINE d == now - then
<1>2. TickMod \in Nat \ {0} /\ d \in Int /\ -TickMod < d /\ d < TickMod
  BY Constituents
<1> HIDE DEF d
<1>3. d % TickMod = IF d >= 0 THEN d ELSE d + TickMod
  BY <1>1, <1>2
<1> QED
  BY <1>3 DEF Elapsed, d

\* Nothing has elapsed since the same tick.
LEMMA ElapsedNone ==
    ASSUME NEW t \in 0 .. (TickMod - 1)
    PROVE  Elapsed(t, t) = 0
  BY ElapsedIs, Constituents

\* With every tick one more has elapsed, until the difference wraps.
LEMMA ElapsedTick ==
    ASSUME NEW t \in 0 .. (TickMod - 1), NEW then \in 0 .. (TickMod - 1)
    PROVE  /\ (t + 1) % TickMod \in 0 .. (TickMod - 1)
           /\ Elapsed((t + 1) % TickMod, then) <= Elapsed(t, then) + 1
           /\ Elapsed(t, then) + 1 < TickMod => Elapsed((t + 1) % TickMod, then) = Elapsed(t, then) + 1
<1>1. ASSUME NEW T \in Nat \ {0}, NEW x \in 0 .. (T - 1)
      PROVE  (x + 1) % T = IF x + 1 = T THEN 0 ELSE x + 1
  BY <1>1
<1>2. TickMod \in Nat \ {0}
  BY Constituents
<1>3. (t + 1) % TickMod = IF t + 1 = TickMod THEN 0 ELSE t + 1
  BY <1>1, <1>2
<1>4. (t + 1) % TickMod \in 0 .. (TickMod - 1)
  BY <1>2, <1>3
<1> DEFINE next == (t + 1) % TickMod
<1> HIDE DEF next
<1>5. /\ Elapsed(next, then) = IF next >= then THEN next - then ELSE next - then + TickMod
      /\ Elapsed(t, then) = IF t >= then THEN t - then ELSE t - then + TickMod
  BY <1>4, ElapsedIs DEF next
<1>6. next = IF t + 1 = TickMod THEN 0 ELSE t + 1
  BY <1>3 DEF next
<1>7. /\ Elapsed(next, then) <= Elapsed(t, then) + 1
      /\ Elapsed(t, then) + 1 < TickMod => Elapsed(next, then) = Elapsed(t, then) + 1
  BY <1>2, <1>5, <1>6
<1> QED
  BY <1>4, <1>7 DEF next

\* What elapsed between three ticks.
LEMMA ElapsedSum ==
    ASSUME NEW t \in 0 .. (TickMod - 1), NEW now \in 0 .. (TickMod - 1), NEW then \in 0 .. (TickMod - 1)
    PROVE  Elapsed(t, then) <= Elapsed(t, now) + Elapsed(now, then)
  BY ElapsedIs, Constituents

\* The numbers of the keep-alive.
LEMMA Periods ==
    /\ PingInterval \in Nat \ {0} /\ TimerLag \in Nat /\ TickMod \in Nat \ {0}
    /\ PongTimeout \in Nat /\ PongTimeout <= PingInterval
    /\ SilenceBound = 4 * PingInterval - 1 + TimerLag /\ SilenceBound \in Nat
    /\ SilenceCap = SilenceBound + 1 /\ SilenceCap \in Nat /\ SilenceCap < TickMod
  BY Constituents, WsServerAssumption, WideTicks DEF SilenceBound, SilenceCap

\* The times in the table and in the timer are ticks.
LEMMA Ticks ==
    ASSUME KeepAliveInv
    PROVE  /\ tick \in 0 .. (TickMod - 1) /\ timer.now \in 0 .. (TickMod - 1)
           /\ timer.due \in 0 .. (PingInterval + TimerLag) /\ timer.i \in Nat
           /\ \A i \in Slots : /\ clients[i].last_seen \in 0 .. (TickMod - 1)
                               /\ clients[i].fd \in Fds \cup {NoFd}
                               /\ clients[i].awaiting_pong \in BOOLEAN
  BY DEF KeepAliveInv, SafetyInv, TypeOK, Client, TimerTask

\* What the client of a slot is allowed is within the bound.
LEMMA AllowedIsBounded ==
    ASSUME KeepAliveInv, NEW i \in Slots
    PROVE  /\ SinceRound(i) \in Nat /\ SinceRound(i) <= PingInterval + TimerLag
           /\ Allowance(i) \in Nat /\ PingInterval - 1 <= Allowance(i)
           /\ Allowance(i) <= 3 * PingInterval - 1
<1>1. SinceRound(i) \in Nat /\ SinceRound(i) <= PingInterval + TimerLag
  BY Ticks, Periods DEF KeepAliveInv, TimerInTime, SinceRound
<1>2. /\ Allowance(i) \in Nat /\ PingInterval - 1 <= Allowance(i)
      /\ Allowance(i) <= 3 * PingInterval - 1
  BY Periods DEF Allowance
<1> QED
  BY <1>1, <1>2

\* So no client of the table has been silent for longer.
LEMMA SilencesBounded ==
    ASSUME KeepAliveInv, NEW i \in Slots, clients[i].fd # NoFd
    PROVE  silent[clients[i].fd] \in Nat /\ silent[clients[i].fd] <= SilenceBound
<1>1. clients[i].fd \in Fds
  BY Ticks
<1>2. silent[clients[i].fd] \in 0 .. SilenceCap
  BY <1>1 DEF KeepAliveInv
<1>3. silent[clients[i].fd] <= SinceRound(i) + Allowance(i)
  BY DEF KeepAliveInv, SilenceAllowed
<1> QED
  BY <1>2, <1>3, AllowedIsBounded, Periods

\* The server starts with an empty table.
LEMMA InitKeepAlive == KInit => KeepAliveInv
<1> SUFFICES ASSUME KInit PROVE KeepAliveInv
  OBVIOUS
<1>1. SafetyInv
  BY InitSafety DEF KInit
<1>2. silent \in [Fds -> 0 .. SilenceCap]
  BY Periods DEF KInit
<1> QED
  BY <1>1, <1>2 DEF KInit, Init, KeepAliveInv, TimerInTime, PingIsNew, SilenceSeen, SilenceAllowed,
     FreeClient

\* silent keeps its type.
LEMMA SilentType ==
    ASSUME KeepAliveInv, KNext
    PROVE  silent' \in [Fds -> 0 .. SilenceCap]
<1>1. ASSUME NEW f \in Fds PROVE silent[f] \in 0 .. SilenceCap
  BY DEF KeepAliveInv
<1>2. ASSUME NEW f \in Fds
      PROVE  (IF Heard(f) \/ sess'[f] # "ws" THEN 0
              ELSE IF tick' # tick /\ silent[f] < SilenceCap THEN silent[f] + 1
              ELSE silent[f]) \in 0 .. SilenceCap
  BY <1>1, Periods
<1> QED
  BY <1>2 DEF KNext

\* What becomes of the silence of a client that is in the table after a step.
LEMMA SilenceOf ==
    ASSUME KeepAliveInv, KNext, SafetyInv', NEW i \in Slots, clients'[i].fd # NoFd
    PROVE  /\ clients'[i].fd \in Fds
           /\ silent'[clients'[i].fd] =
                IF Heard(clients'[i].fd) THEN 0
                ELSE IF tick' # tick /\ silent[clients'[i].fd] < SilenceCap
                     THEN silent[clients'[i].fd] + 1
                ELSE silent[clients'[i].fd]
<1>1. clients'[i].fd \in Fds
  BY DEF SafetyInv, TypeOK, Client
<1>2. sess'[clients'[i].fd] = "ws"
  BY DEF SafetyInv, RegisteredSessionsOpen
<1> QED
  BY <1>1, <1>2 DEF KNext

\* What a step of another task than the timer's leaves of slot i: a client that was just heard, or
\* the same one, with no less time than before.
Carried(i) ==
    /\ clients'[i].awaiting_pong => clients[i].awaiting_pong
    /\ clients'[i].fd # NoFd =>
         IF Heard(clients'[i].fd) THEN clients'[i].last_seen = tick
         ELSE /\ clients'[i].fd = clients[i].fd /\ clients'[i].last_seen = clients[i].last_seen
              /\ Allowance(i) <= Allowance(i)'

\* Such steps preserve the invariant.
LEMMA CarriedKeeps ==
    ASSUME KeepAliveInv, KNext, SafetyInv', tick' = tick, timer' = timer, \A i \in Slots : Carried(i)
    PROVE  KeepAliveInv'
<1>1. TimerInTime'
  BY DEF KeepAliveInv, TimerInTime
<1>2. PingIsNew'
  BY DEF KeepAliveInv, SafetyInv, PingIsNew, TimerSlotTaken, Carried
<1>3. ASSUME NEW i \in Slots, clients'[i].fd # NoFd
      PROVE  /\ silent'[clients'[i].fd] = Elapsed(tick', clients'[i].last_seen)
             /\ silent'[clients'[i].fd] <= SinceRound(i)' + Allowance(i)'
  <2>1. SinceRound(i)' = SinceRound(i)
    BY DEF SinceRound
  <2>2. SinceRound(i) \in Nat /\ Allowance(i) \in Nat
    BY AllowedIsBounded
  <2>3. Allowance(i)' \in Nat
    BY Periods DEF Allowance
  <2>4. CASE Heard(clients'[i].fd)
    <3>1. silent'[clients'[i].fd] = 0 /\ clients'[i].last_seen = tick
      BY <1>3, <2>4, SilenceOf DEF Carried
    <3>2. Elapsed(tick, tick) = 0
      BY Ticks, ElapsedNone
    <3> QED
      BY <2>1, <2>2, <2>3, <3>1, <3>2
  <2>5. CASE ~Heard(clients'[i].fd)
    <3>1. /\ clients'[i].fd = clients[i].fd /\ clients'[i].last_seen = clients[i].last_seen
          /\ Allowance(i) <= Allowance(i)'
      BY <1>3, <2>5 DEF Carried
    <3>2. silent'[clients'[i].fd] = silent[clients[i].fd]
      BY <1>3, <2>5, <3>1, SilenceOf
    <3>3. /\ silent[clients[i].fd] = Elapsed(tick, clients[i].last_seen)
          /\ silent[clients[i].fd] <= SinceRound(i) + Allowance(i)
      BY <1>3, <3>1 DEF KeepAliveInv, SilenceSeen, SilenceAllowed
    <3>4. silent[clients[i].fd] \in Nat
      BY <1>3, <3>1, SilencesBounded
    <3> QED
      BY <2>1, <2>2, <2>3, <3>1, <3>2, <3>3, <3>4
  <2> QED
    BY <2>4, <2>5
<1> QED
  BY <1>1, <1>2, <1>3, SilentType DEF KeepAliveInv, SilenceSeen, SilenceAllowed

\* The slots before the one the callback looks at stay before the next one.
LEMMA NextSlot ==
    ASSUME NEW i \in Slots, NEW j \in Slots, i # j
    PROVE  i < j <=> i < j + 1
  BY WsServerAssumption DEF Slots

\* What a drop leaves of slot i.
LEMMA DropCarries ==
    ASSUME KeepAliveInv, NEW f \in Fds, NEW i \in Slots
    PROVE  /\ ~FreeClient.awaiting_pong /\ FreeClient.fd = NoFd
           /\ DropClient(f)[i] \in {clients[i], FreeClient}
  BY DropUnique DEF KeepAliveInv, SafetyInv, FreeClient

\* An accepted session, a request, a frame or a close that begins: the table stays as it is.
LEMMA EnvironmentCarries ==
    ASSUME KeepAliveInv, Environment
    PROVE  tick' = tick /\ timer' = timer /\ \A i \in Slots : Carried(i)
<1> USE Periods DEF Carried, Allowance, MayClear, Heard, Serving
<1>1. ASSUME NEW f \in Fds, Accept(f)
      PROVE  tick' = tick /\ timer' = timer /\ \A i \in Slots : Carried(i)
  BY <1>1 DEF Accept
<1>2. ASSUME NEW f \in Fds, FrameFails(f)
      PROVE  tick' = tick /\ timer' = timer /\ \A i \in Slots : Carried(i)
  BY <1>2 DEF FrameFails
<1>3. ASSUME NEW f \in Fds, PeerCloses(f)
      PROVE  tick' = tick /\ timer' = timer /\ \A i \in Slots : Carried(i)
  BY <1>3 DEF PeerCloses
<1>4. ASSUME NEW f \in Fds, QueuedClose(f)
      PROVE  tick' = tick /\ timer' = timer /\ \A i \in Slots : Carried(i)
  BY <1>4 DEF QueuedClose
<1>5. ASSUME NEW f \in Fds, NEW authorized \in BOOLEAN, GetRequest(f, authorized)
      PROVE  tick' = tick /\ timer' = timer /\ \A i \in Slots : Carried(i)
  BY <1>5 DEF GetRequest
<1>6. ASSUME NEW f \in Fds, NEW frame \in Frames, FrameArrives(f, frame)
      PROVE  tick' = tick /\ timer' = timer /\ \A i \in Slots : Carried(i)
  BY <1>6 DEF FrameArrives
<1> QED
  BY <1>1, <1>2, <1>3, <1>4, <1>5, <1>6 DEF Environment

\* The httpd task hears clients, clears flags and drops clients.
LEMMA HandlerCarries ==
    ASSUME KeepAliveInv, HandlerStep
    PROVE  tick' = tick /\ timer' = timer /\ \A i \in Slots : Carried(i)
<1> DEFINE Goal == tick' = tick /\ timer' = timer /\ \A i \in Slots : Carried(i)
<1>0. SafetyInv /\ handler \in Handler /\ clients \in [Slots -> Client]
  BY DEF KeepAliveInv, SafetyInv, TypeOK
<1> USE <1>0, Periods, Ticks DEF Carried, Allowance, MayClear, Heard
<1>1. CASE AddClient
  <2>1. handler.fd \in Fds /\ handler.pc = "add" /\ tick' = tick /\ timer' = timer
    BY <1>1 DEF AddClient, SafetyInv, HandlerSession
  <2>2. CASE clients' = clients /\ handler' = [handler EXCEPT !.pc = "close"]
    BY <2>1, <2>2 DEF Handler
  <2>3. ASSUME NEW i \in Slots, FirstFree(i), clients' = [clients EXCEPT ![i] = NewClient(handler.fd)],
               handler' = IF Handshake THEN [handler EXCEPT !.pc = "mark"] ELSE IdleHandler
        PROVE  Goal
    <3>1. handler'.pc \in {"mark", "idle"} /\ handler' # handler
      BY <2>1, <2>3 DEF IdleHandler, Handler
    <3>2. ASSUME NEW j \in Slots, j # i PROVE clients'[j] = clients[j] /\ clients[j].fd # handler.fd
      <4>1. clients[j].fd # handler.fd
        BY <2>1, Constituents DEF SafetyInv, RegisteredSessionsOpen, HandlerSession
      <4> QED
        BY <2>3, <3>2, <4>1
    <3>3. /\ clients'[i].fd = handler.fd /\ ~clients'[i].awaiting_pong
          /\ clients'[i].last_seen = tick
      BY <2>3 DEF NewClient
    <3> QED
      BY <2>1, <3>1, <3>2, <3>3
  <2> QED
    BY <1>1, <2>2, <2>3 DEF AddClient
<1>2. CASE MarkVerified
  BY <1>2 DEF MarkVerified, VerifiedClient, IdleHandler
<1>3. CASE Touch
  BY <1>3 DEF Touch, Handler, Client, SafetyInv, HandlerSession, HandlerSlotOwned, NoOtherSlot, SlotPcs
<1>4. CASE DispatchPong
  BY <1>4 DEF DispatchPong, IdleHandler, Client, SafetyInv, HandlerSession, SlotPcs
<1>5. CASE DispatchPing
  BY <1>5 DEF DispatchPing, IdleHandler
<1>6. CASE DispatchData
  BY <1>6 DEF DispatchData, Handler
<1>7. CASE Decrypt
  BY <1>7 DEF Decrypt, Handler, Client, SafetyInv, HandlerSession, SlotPcs
<1>8. CASE Reject
  BY <1>8, DropCarries DEF Reject, Handler, SafetyInv, HandlerSession
<1>9. CASE Deliver
  BY <1>9 DEF Deliver, Handler
<1>10. CASE Clear
  BY <1>10 DEF Clear, IdleHandler, Client, SafetyInv, HandlerSession, SlotPcs
<1>11. CASE CloseSession
  BY <1>11, DropCarries DEF CloseSession, IdleHandler, SafetyInv, HandlerSession
<1> QED
  BY <1>1, <1>2, <1>3, <1>4, <1>5, <1>6, <1>7, <1>8, <1>9, <1>10, <1>11 DEF HandlerStep

\* The publishing task only drops clients.
LEMMA SendCarries ==
    ASSUME KeepAliveInv, SendStep
    PROVE  tick' = tick /\ timer' = timer /\ \A i \in Slots : Carried(i)
<1> USE Periods DEF Carried, Allowance, MayClear, Heard
<1>1. CASE SendLocks
  BY <1>1 DEF SendLocks
<1>2. CASE SendNext
  BY <1>2 DEF SendNext
<1>3. CASE SendFails
  <2>1. bcast.i \in Slots /\ clients[bcast.i].fd \in Fds
    <3>1. TypeOK
      BY DEF KeepAliveInv, SafetyInv
    <3>2. /\ bcast.i \in 1 .. (Capacity + 1) /\ bcast.i <= Capacity
          /\ clients[bcast.i].fd # NoFd
      BY <1>3, <3>1 DEF SendFails, TypeOK, BcastTask
    <3>3. bcast.i \in Slots
      BY <3>2, Ticks DEF Slots
    <3>4. clients[bcast.i] \in Client
      BY <3>1, <3>3 DEF TypeOK
    <3> QED
      BY <3>2, <3>3, <3>4 DEF Client
  <2>2. \A i \in Slots : clients'[i] \in {clients[i], FreeClient}
    BY <1>3, <2>1, DropCarries DEF SendFails, CloseAndDrop
  <2>3. ~FreeClient.awaiting_pong /\ FreeClient.fd = NoFd
    BY DEF FreeClient
  <2> QED
    BY <1>3, <2>2, <2>3 DEF SendFails
<1>4. CASE SendUnlocks
  BY <1>4 DEF SendUnlocks
<1> QED
  BY <1>1, <1>2, <1>3, <1>4 DEF SendStep

\* The timer task changes no times in the table, and keeps the handler waiting at most.
LEMMA TimerQuiet ==
    ASSUME KeepAliveInv, TimerStep
    PROVE  /\ tick' = tick /\ handler' = handler
           /\ \A i \in Slots : clients'[i].fd # NoFd =>
                clients'[i].fd = clients[i].fd /\ clients'[i].last_seen = clients[i].last_seen
<1> DEFINE Goal == /\ tick' = tick /\ handler' = handler
                   /\ \A i \in Slots : clients'[i].fd # NoFd =>
                        /\ clients'[i].fd = clients[i].fd
                        /\ clients'[i].last_seen = clients[i].last_seen
<1>0. SafetyInv /\ clients \in [Slots -> Client]
  BY DEF KeepAliveInv, SafetyInv, TypeOK
<1>1. ASSUME timer.pc \in {"expired", "ping"}, CloseAndDrop(timer.i)
      PROVE  \A i \in Slots : clients'[i].fd # NoFd => clients'[i] = clients[i]
  <2>1. timer.i \in Slots /\ clients[timer.i].fd \in Fds
    BY <1>0, <1>1, Ticks DEF SafetyInv, TimerSlotTaken
  <2> QED
    BY <1>1, <2>1, DropCarries DEF CloseAndDrop
<1>2. CASE TimerDrops
  BY <1>1, <1>2 DEF TimerDrops
<1>3. CASE TimerPingFails
  BY <1>1, <1>3 DEF TimerPingFails
<1>4. CASE TimerFlags
  BY <1>0, <1>4 DEF TimerFlags, Client
<1>5. CASE TimerExpires \/ TimerLocks \/ TimerChecks \/ TimerPings \/ TimerUnlocks
  BY <1>5 DEF TimerExpires, TimerLocks, TimerChecks, TimerPings, TimerUnlocks
<1> QED
  BY <1>2, <1>3, <1>4, <1>5 DEF TimerStep

\* The callback is through in time, and pings only who owes no pong.
LEMMA TimerOnTime ==
    ASSUME KeepAliveInv, TimerStep
    PROVE  TimerInTime' /\ PingIsNew'
<1>0. SafetyInv /\ clients \in [Slots -> Client] /\ timer \in TimerTask
  BY DEF KeepAliveInv, SafetyInv, TypeOK
<1> USE Ticks, Periods, TimerQuiet DEF KeepAliveInv, TimerInTime, PingIsNew, TimerAt
<1>1. CASE TimerExpires
  <2>1. Elapsed(tick, tick) = 0
    BY ElapsedNone
  <2>2. timer' = [pc |-> "lock", now |-> tick, i |-> 1, due |-> timer.due - PingInterval]
    BY <1>1 DEF TimerExpires
  <2>3. timer.due - PingInterval \in 0 .. TimerLag
    BY <1>1 DEF TimerExpires
  <2> QED
    BY <2>1, <2>2, <2>3
<1>2. CASE TimerLocks
  BY <1>2 DEF TimerLocks
<1>3. CASE TimerChecks
  BY <1>3 DEF TimerChecks, PingDue, TimedOut
<1>4. CASE TimerDrops
  BY <1>4 DEF TimerDrops
<1>5. CASE TimerPings
  BY <1>5 DEF TimerPings
<1>6. CASE TimerPingFails
  BY <1>6 DEF TimerPingFails
<1>7. CASE TimerFlags
  BY <1>7 DEF TimerFlags
<1>8. CASE TimerUnlocks
  BY <1>8 DEF TimerUnlocks
<1> QED
  BY <1>1, <1>2, <1>3, <1>4, <1>5, <1>6, <1>7, <1>8 DEF TimerStep

\* A client the callback leaves alone was heard less than a period before the tick it sampled.
LEMMA LeftAlone ==
    ASSUME KeepAliveInv, timer.pc = "scan", timer.i \in Slots, clients[timer.i].fd # NoFd,
           ~TimedOut(clients[timer.i]), ~PingDue(clients[timer.i])
    PROVE  silent[clients[timer.i].fd] <= timer.due + PingInterval - 1
<1> DEFINE seen == clients[timer.i].last_seen
<1>1. seen \in 0 .. (TickMod - 1) /\ tick \in 0 .. (TickMod - 1) /\ timer.now \in 0 .. (TickMod - 1)
  BY Ticks
<1>2. silent[clients[timer.i].fd] = Elapsed(tick, seen)
  BY DEF KeepAliveInv, SilenceSeen
<1>3. Elapsed(tick, timer.now) <= timer.due
  BY DEF KeepAliveInv, TimerInTime
<1>4. ~(Elapsed(timer.now, seen) >= PingInterval)
  <2>1. Elapsed(timer.now, seen) \in Nat
    BY <1>1, ElapsedIs, Periods
  <2> QED
    BY <2>1, Ticks, Periods DEF TimedOut, PingDue
<1>5. /\ Elapsed(timer.now, seen) \in Int /\ Elapsed(tick, timer.now) \in Int
      /\ Elapsed(tick, seen) \in Int
  <2>1. ASSUME NEW a \in 0 .. (TickMod - 1), NEW b \in 0 .. (TickMod - 1)
        PROVE  Elapsed(a, b) \in Int
    BY ElapsedIs, Periods
  <2> HIDE DEF seen
  <2> QED
    BY <1>1, <2>1
<1>6. Elapsed(tick, seen) <= Elapsed(tick, timer.now) + Elapsed(timer.now, seen)
  BY <1>1, ElapsedSum
<1> HIDE DEF seen
<1> QED
  BY <1>2, <1>3, <1>4, <1>5, <1>6, Ticks, Periods

\* No round of the timer takes time from a client that it does not ping.
LEMMA TimerAllows ==
    ASSUME KeepAliveInv, TimerStep, NEW i \in Slots, clients'[i].fd # NoFd
    PROVE  silent[clients[i].fd] <= SinceRound(i)' + Allowance(i)'
<1>0. /\ SafetyInv /\ clients \in [Slots -> Client] /\ timer \in TimerTask
      /\ i \in Nat /\ 1 <= i /\ i <= Capacity
  BY DEF KeepAliveInv, SafetyInv, TypeOK, Slots
<1>1. clients[i].fd # NoFd /\ clients'[i].fd = clients[i].fd /\ handler' = handler
  BY TimerQuiet
<1>2. /\ silent[clients[i].fd] \in Nat /\ SinceRound(i) \in Nat /\ Allowance(i) \in Nat
      /\ silent[clients[i].fd] <= SinceRound(i) + Allowance(i)
      /\ PingInterval - 1 <= Allowance(i)
  BY <1>1, SilencesBounded, AllowedIsBounded DEF KeepAliveInv, SilenceAllowed
<1>3. MayClear(i)' <=> MayClear(i)
  BY <1>1 DEF MayClear
<1> USE Periods, Ticks
<1>4. CASE TimerExpires
  <2>1. clients' = clients /\ timer.pc = "idle"
        /\ timer' = [pc |-> "lock", now |-> tick, i |-> 1, due |-> timer.due - PingInterval]
    BY <1>4 DEF TimerExpires
  <2>2. SinceRound(i)' = SinceRound(i) /\ Allowance(i)' = Allowance(i)
    BY <1>0, <1>3, <2>1 DEF SinceRound, Allowance
  <2> QED
    BY <1>2, <2>2
<1>5. CASE TimerLocks
  <2>1. clients' = clients /\ timer.pc = "lock" /\ timer' = TimerAt("scan", 1)
    BY <1>5 DEF TimerLocks
  <2>2. SinceRound(i)' = timer.due + PingInterval
    BY <1>0, <2>1 DEF SinceRound, TimerAt
  <2>3. Allowance(i)' = Allowance(i) /\ SinceRound(i) <= timer.due + PingInterval
    BY <1>0, <1>3, <2>1 DEF SinceRound, Allowance
  <2> QED
    BY <1>2, <2>2, <2>3
<1>6. CASE TimerChecks
  <2>1. clients' = clients /\ timer.pc = "scan" /\ timer.i \in Slots /\ Allowance(i)' = Allowance(i)
    BY <1>0, <1>3, <1>6 DEF TimerChecks, Allowance, Slots, TimerTask
  <2>2. CASE timer'.pc # "scan" \/ i # timer.i
    <3>1. timer'.due = timer.due /\ timer'.pc # "idle" /\ (i < timer'.i <=> i < timer.i)
      BY <1>0, <2>1, <2>2, <1>6 DEF TimerChecks, TimerAt, Slots
    <3>2. SinceRound(i)' = SinceRound(i)
      BY <2>1, <3>1 DEF SinceRound
    <3> QED
      BY <1>2, <2>1, <3>2
  <2>3. CASE timer'.pc = "scan" /\ i = timer.i
    <3>1. ~TimedOut(clients[i]) /\ ~PingDue(clients[i]) /\ timer' = TimerAt("scan", i + 1)
      BY <1>1, <1>6, <2>3 DEF TimerChecks, TimerAt
    <3>2. silent[clients[i].fd] <= timer.due + PingInterval - 1
      BY <1>1, <2>1, <2>3, <3>1, LeftAlone
    <3>3. SinceRound(i)' = timer.due
      BY <1>0, <3>1 DEF SinceRound, TimerAt
    <3> QED
      BY <1>2, <2>1, <3>2, <3>3
  <2> QED
    BY <2>2, <2>3
<1>7. CASE TimerDrops \/ TimerPingFails
  <2>1. /\ timer.i \in Slots /\ clients[timer.i].fd \in Fds
        /\ timer.pc \in {"expired", "ping"} /\ clients' = DropClient(clients[timer.i].fd)
        /\ timer' = TimerAt("scan", timer.i + 1)
    BY <1>0, <1>7 DEF TimerDrops, TimerPingFails, CloseAndDrop, SafetyInv, TimerSlotTaken
  <2>2. clients'[timer.i].fd = NoFd /\ clients'[i] = clients[i]
    <3>1. clients'[timer.i] = FreeClient
      BY <1>0, <2>1, DropUnique DEF SafetyInv
    <3>2. clients'[i] \in {clients[i], FreeClient}
      BY <2>1, DropCarries
    <3> QED
      BY <1>1, <3>1, <3>2 DEF FreeClient
  <2>3. i # timer.i
    BY <1>1, <2>2
  <2>4. SinceRound(i)' = SinceRound(i) /\ Allowance(i)' = Allowance(i)
    <3>1. timer'.due = timer.due /\ timer.pc # "idle" /\ timer'.pc # "idle" /\ timer'.i = timer.i + 1
      BY <2>1 DEF TimerAt
    <3>2. i < timer.i <=> i < timer.i + 1
      BY <2>1, <2>3, NextSlot
    <3>3. SinceRound(i)' = SinceRound(i)
      BY <3>1, <3>2 DEF SinceRound
    <3>4. Allowance(i)' = Allowance(i)
      BY <1>3, <2>2 DEF Allowance
    <3> QED
      BY <3>3, <3>4
  <2> QED
    BY <1>2, <2>4
<1>8. CASE TimerPings
  <2>1. clients' = clients /\ timer.pc = "ping" /\ timer' = TimerAt("flag", timer.i)
    BY <1>8 DEF TimerPings
  <2>2. SinceRound(i)' = SinceRound(i) /\ Allowance(i)' = Allowance(i)
    BY <1>0, <1>3, <2>1 DEF SinceRound, Allowance, TimerAt
  <2> QED
    BY <1>2, <2>2
<1>9. CASE TimerFlags
  <2>1. /\ timer.i \in Slots /\ timer.pc = "flag" /\ timer' = TimerAt("scan", timer.i + 1)
        /\ clients' = [clients EXCEPT ![timer.i].awaiting_pong = TRUE]
        /\ ~clients[timer.i].awaiting_pong
    BY <1>0, <1>9 DEF TimerFlags, SafetyInv, TimerSlotTaken, KeepAliveInv, PingIsNew
  <2>2. CASE i = timer.i
    <3>1. SinceRound(i)' = timer.due /\ SinceRound(i) = timer.due + PingInterval
      BY <1>0, <2>1, <2>2 DEF SinceRound, TimerAt
    <3>2. clients'[i].awaiting_pong /\ ~clients[i].awaiting_pong
      BY <1>0, <2>1, <2>2 DEF Client
    <3>3. Allowance(i)' = Allowance(i) + PingInterval
      BY <1>3, <3>2 DEF Allowance
    <3> QED
      BY <1>2, <3>1, <3>3
  <2>3. CASE i # timer.i
    <3>1. clients'[i] = clients[i]
      BY <1>0, <2>1, <2>3
    <3>2. SinceRound(i)' = SinceRound(i) /\ Allowance(i)' = Allowance(i)
      <4>1. timer'.due = timer.due /\ timer.pc # "idle" /\ timer'.pc # "idle" /\ timer'.i = timer.i + 1
        BY <2>1 DEF TimerAt
      <4>2. i < timer.i <=> i < timer.i + 1
        BY <2>1, <2>3, NextSlot
      <4>3. SinceRound(i)' = SinceRound(i)
        BY <4>1, <4>2 DEF SinceRound
      <4>4. Allowance(i)' = Allowance(i)
        BY <1>3, <3>1 DEF Allowance
      <4> QED
        BY <4>3, <4>4
    <3> QED
      BY <1>2, <3>2
  <2> QED
    BY <2>2, <2>3
<1>10. CASE TimerUnlocks
  <2>1. /\ clients' = clients /\ timer.i > Capacity
        /\ timer' = [pc |-> "idle", now |-> 0, i |-> 1, due |-> timer.due]
    BY <1>10 DEF TimerUnlocks
  <2>2. i < timer.i
    BY <1>0, <2>1, Constituents
  <2>3. SinceRound(i)' = timer.due /\ SinceRound(i) = timer.due
    BY <2>1, <2>2 DEF SinceRound
  <2>4. Allowance(i)' = Allowance(i)
    BY <1>3, <2>1 DEF Allowance
  <2> QED
    BY <1>2, <2>3, <2>4
<1> QED
  BY <1>4, <1>5, <1>6, <1>7, <1>8, <1>9, <1>10 DEF TimerStep

\* The steps of the timer preserve the invariant.
LEMMA TimerKeeps ==
    ASSUME KeepAliveInv, KNext, SafetyInv', TimerStep
    PROVE  KeepAliveInv'
<1>1. ASSUME NEW i \in Slots, clients'[i].fd # NoFd
      PROVE  /\ silent'[clients'[i].fd] = Elapsed(tick', clients'[i].last_seen)
             /\ silent'[clients'[i].fd] <= SinceRound(i)' + Allowance(i)'
  <2>1. /\ clients'[i].fd = clients[i].fd /\ clients'[i].last_seen = clients[i].last_seen
        /\ tick' = tick /\ handler' = handler
    BY <1>1, TimerQuiet
  <2>2. ~Heard(clients'[i].fd)
    BY <2>1 DEF Heard
  <2>3. silent'[clients'[i].fd] = silent[clients[i].fd]
    BY <1>1, <2>1, <2>2, SilenceOf
  <2>4. silent[clients[i].fd] = Elapsed(tick, clients[i].last_seen)
    BY <1>1, <2>1 DEF KeepAliveInv, SilenceSeen
  <2>5. silent[clients[i].fd] <= SinceRound(i)' + Allowance(i)'
    BY <1>1, TimerAllows
  <2> QED
    BY <2>1, <2>3, <2>4, <2>5
<1> QED
  BY <1>1, TimerOnTime, SilentType DEF KeepAliveInv, SilenceSeen, SilenceAllowed

\* A tick lengthens every silence, and the time since every round.
LEMMA TickKeeps ==
    ASSUME KeepAliveInv, KNext, SafetyInv', Tick
    PROVE  KeepAliveInv'
<1>1. /\ tick' = (tick + 1) % TickMod /\ timer' = [timer EXCEPT !.due = timer.due + 1]
      /\ timer.due < TimerLag + (IF timer.pc = "idle" THEN PingInterval ELSE 0)
      /\ clients' = clients /\ handler' = handler
  BY DEF Tick
<1>2. timer'.pc = timer.pc /\ timer'.i = timer.i /\ timer'.now = timer.now /\ timer'.due = timer.due + 1
  BY <1>1 DEF KeepAliveInv, SafetyInv, TypeOK, TimerTask
<1>3. TimerInTime'
  <2>1. ASSUME timer'.pc # "idle"
        PROVE  timer'.due <= TimerLag /\ Elapsed(tick', timer'.now) <= timer'.due
    <3>1. timer.due < TimerLag /\ Elapsed(tick, timer.now) <= timer.due
      BY <1>1, <1>2, <2>1, Ticks, Periods DEF KeepAliveInv, TimerInTime
    <3>2. Elapsed(tick', timer.now) <= Elapsed(tick, timer.now) + 1
      BY <1>1, Ticks, ElapsedTick
    <3>3. Elapsed(tick, timer.now) \in Int /\ Elapsed(tick', timer.now) \in Int
      <4>1. ASSUME NEW a \in 0 .. (TickMod - 1), NEW b \in 0 .. (TickMod - 1)
            PROVE  Elapsed(a, b) \in Int
        BY ElapsedIs, Periods
      <4>2. tick' \in 0 .. (TickMod - 1)
        BY <1>1, Ticks, ElapsedTick
      <4> QED
        BY <4>1, <4>2, Ticks
    <3> QED
      BY <1>2, <3>1, <3>2, <3>3, Ticks, Periods
  <2> QED
    BY <2>1 DEF TimerInTime
<1>4. PingIsNew'
  BY <1>1, <1>2 DEF KeepAliveInv, PingIsNew
<1>5. ASSUME NEW i \in Slots, clients'[i].fd # NoFd
      PROVE  /\ silent'[clients'[i].fd] = Elapsed(tick', clients'[i].last_seen)
             /\ silent'[clients'[i].fd] <= SinceRound(i)' + Allowance(i)'
  <2>1. /\ silent[clients[i].fd] \in Nat /\ silent[clients[i].fd] <= SilenceBound
        /\ silent[clients[i].fd] = Elapsed(tick, clients[i].last_seen)
        /\ silent[clients[i].fd] <= SinceRound(i) + Allowance(i)
    BY <1>1, <1>5, SilencesBounded DEF KeepAliveInv, SilenceSeen, SilenceAllowed
  <2>2. Elapsed(tick', clients[i].last_seen) = Elapsed(tick, clients[i].last_seen) + 1
    BY <1>1, <2>1, Ticks, ElapsedTick, Periods
  <2>3. tick' # tick
    BY <2>1, <2>2
  <2>4. ~Heard(clients'[i].fd)
    BY <1>1 DEF Heard
  <2>5. silent'[clients'[i].fd] = silent[clients[i].fd] + 1
    BY <1>1, <1>5, <2>1, <2>3, <2>4, SilenceOf, Periods
  <2>6. SinceRound(i)' = SinceRound(i) + 1
    BY <1>2, Ticks, Periods DEF SinceRound
  <2>7. Allowance(i)' = Allowance(i)
    BY <1>1 DEF Allowance, MayClear
  <2> QED
    BY <1>1, <2>1, <2>2, <2>5, <2>6, <2>7, AllowedIsBounded
<1> QED
  BY <1>3, <1>4, <1>5, SilentType DEF KeepAliveInv, SilenceSeen, SilenceAllowed

\* The whole invariant of the keep-alive is inductive.
LEMMA NextKeepAlive == KeepAliveInv /\ [KNext]_kvars => KeepAliveInv'
<1> SUFFICES ASSUME KeepAliveInv, [KNext]_kvars PROVE KeepAliveInv'
  OBVIOUS
<1>1. CASE UNCHANGED kvars
  BY <1>1 DEF kvars, vars, KeepAliveInv, SafetyInv, TypeOK, LockHeld, TimerSlotTaken, HandlerSession,
     NoOtherSlot, FreshBeforeUpgrade, UniqueFds, RegisteredSessionsOpen, HandlerSlotOwned,
     NoOrphanSession, Registered, ReplayStateExact, TimerInTime, PingIsNew, SilenceSeen, SilenceAllowed,
     SinceRound, Allowance, MayClear
<1>2. CASE KNext
  <2>1. SafetyInv'
    BY <1>2, SafetyStep DEF KNext, KeepAliveInv
  <2>2. CASE Tick
    BY <1>2, <2>1, <2>2, TickKeeps
  <2>3. CASE HandlerStep
    BY <1>2, <2>1, <2>3, HandlerCarries, CarriedKeeps
  <2>4. CASE TimerStep
    BY <1>2, <2>1, <2>4, TimerKeeps
  <2>5. CASE SendStep
    BY <1>2, <2>1, <2>5, SendCarries, CarriedKeeps
  <2>6. CASE Environment
    BY <1>2, <2>1, <2>6, EnvironmentCarries, CarriedKeeps
  <2> QED
    BY <1>2, <2>2, <2>3, <2>4, <2>5, <2>6 DEF KNext, Next
<1> QED
  BY <1>1, <1>2

\* The inductive invariant of the keep-alive holds throughout, whatever the period, the timeout and
\* the lag of the timer.
THEOREM KeepAlive == KSpec => []KeepAliveInv
BY InitKeepAlive, NextKeepAlive, PTL DEF KSpec

\* A peer that went silent is dropped within four periods and the lag (ping_timer_cb).
THEOREM DeadClients == KSpec => []DeadClientEvicted
<1>1. KeepAliveInv => DeadClientEvicted
  BY SilencesBounded DEF DeadClientEvicted
<1> QED
  BY <1>1, KeepAlive, PTL

\* The timer times out nobody who was heard within the pong timeout, unless it was heard after the
\* callback had sampled its tick: then its silence is a tick that has wrapped (ping_timer_cb).
THEOREM Timeouts == KSpec => TimeoutOnlyAfterSilence
<1>1. ASSUME KeepAliveInv, [KNext]_kvars
      PROVE  [timer.pc = "scan" /\ timer'.pc = "expired" =>
                LET f == clients[timer.i].fd IN silent[f] >= PongTimeout \/ silent[f] < TimerLag]_kvars
  <2> DEFINE c == clients[timer.i]
  <2> SUFFICES ASSUME KNext, timer.pc = "scan", timer'.pc = "expired"
               PROVE  silent[c.fd] >= PongTimeout \/ silent[c.fd] < TimerLag
    BY <1>1
  <2>1. /\ timer.i \in Slots /\ c.fd # NoFd
        /\ Elapsed(timer.now, c.last_seen) >= PongTimeout
    <3>1. TimerChecks
      <4>1. timer'.pc # timer.pc
        OBVIOUS
      <4>2. ~HandlerStep /\ ~SendStep /\ ~Environment
        BY <1>1, <4>1, HandlerCarries, SendCarries, EnvironmentCarries
      <4>3. ~Tick
        BY <1>1, <4>1 DEF Tick, KeepAliveInv, SafetyInv, TypeOK, TimerTask
      <4>4. TimerStep
        BY <4>2, <4>3 DEF KNext, Next
      <4> QED
        BY <4>4 DEF TimerStep, TimerExpires, TimerLocks, TimerDrops, TimerPings, TimerPingFails,
           TimerFlags, TimerUnlocks, TimerAt
    <3>2. timer.i \in Slots
      BY <1>1, <3>1, Ticks DEF TimerChecks, KeepAliveInv, SafetyInv, TypeOK, TimerTask, Slots
    <3> QED
      BY <3>1, <3>2 DEF TimerChecks, TimerAt, TimedOut
  <2>2. Elapsed(tick, timer.now) <= timer.due /\ timer.due <= TimerLag
    BY <1>1 DEF KeepAliveInv, TimerInTime
  <2>3. silent[c.fd] = Elapsed(tick, c.last_seen)
    BY <1>1, <2>1 DEF KeepAliveInv, SilenceSeen
  <2>4. /\ c.last_seen \in 0 .. (TickMod - 1) /\ tick \in 0 .. (TickMod - 1)
        /\ timer.now \in 0 .. (TickMod - 1) /\ timer.due \in Nat
    BY <1>1, <2>1, Ticks
  <2>5. ASSUME NEW t \in 0 .. (TickMod - 1), NEW n \in 0 .. (TickMod - 1), NEW s \in 0 .. (TickMod - 1)
        PROVE  /\ Elapsed(t, s) \in Int /\ Elapsed(t, n) \in Int /\ Elapsed(n, s) \in Int
               /\ Elapsed(t, s) >= Elapsed(n, s) \/ Elapsed(t, s) < Elapsed(t, n)
    <3>1. /\ Elapsed(t, s) = IF t >= s THEN t - s ELSE t - s + TickMod
          /\ Elapsed(t, n) = IF t >= n THEN t - n ELSE t - n + TickMod
          /\ Elapsed(n, s) = IF n >= s THEN n - s ELSE n - s + TickMod
      BY ElapsedIs
    <3> QED
      BY <3>1, Periods
  <2> HIDE DEF c
  <2>6. /\ Elapsed(tick, c.last_seen) \in Int /\ Elapsed(tick, timer.now) \in Int
        /\ Elapsed(timer.now, c.last_seen) \in Int
        /\ \/ Elapsed(tick, c.last_seen) >= Elapsed(timer.now, c.last_seen)
           \/ Elapsed(tick, c.last_seen) < Elapsed(tick, timer.now)
    BY <2>4, <2>5
  <2> QED
    BY <2>1, <2>2, <2>3, <2>4, <2>6, Periods
<1> QED
  BY <1>1, KeepAlive, PTL DEF KSpec, TimeoutOnlyAfterSilence
=============================================================================
