------------------------------ MODULE EventLoop ------------------------------
(***************************************************************************)
(* The event loop of net/epoll_container.cpp (HandleSockets and what it    *)
(* calls) running TcpSocket and UdpSocket objects, with the application    *)
(* that calls it and is called back, and the kernel that makes descriptors *)
(* ready.                                                                  *)
(*                                                                         *)
(* There is one thread.  The application calls HandleSockets again and     *)
(* again; between two calls, and inside every handler call, it may create, *)
(* use and close sockets, at most MaxCalls times per pass of the loop.  It *)
(* does not call HandleSockets from a handler, and it uses no socket that  *)
(* has been deleted.                                                       *)
(***************************************************************************)
EXTENDS UdpSocket

CONSTANTS
    ScanLimit,   \* sockets CheckTimeoutSocket looks at in a pass (1000)
    MaxCalls     \* bound: calls of the application in a pass

ASSUME LoopAssumption ==
    /\ ScanLimit \in Nat \ {0}
    /\ MaxCalls \in Nat

VARIABLES
    phase,          \* where HandleSockets is
    checkFd,        \* the static checkFd of CheckTimeoutSocket
    checkCnt,       \* its local checkCnt
    itr,            \* its iterator: the key of the entry, or EndItr
    itrErased,      \* the entry that itr designates has been erased
    batch,          \* [Fds -> events]: what epoll_wait returned, not yet handled
    pendingWrite,   \* s, between HandleRead and HandleWrite of one event
    calls           \* calls the application has made in this pass

loopVars == <<phase, checkFd, checkCnt, itr, itrErased, batch, pendingWrite>>
vars == <<tcpVars, loopVars, calls>>

(* idle: outside HandleSockets; scan, advance: in CheckTimeoutSocket, at    *)
(* the loop test and at ++itr; wait: at epoll_wait; dispatch: in the loop   *)
(* over the events; crashed: the process is gone.                           *)
Phases == {"idle", "scan", "advance", "wait", "dispatch", "crashed"}

NoEvents == [fd \in Fds |-> {}]

Init ==
    /\ TcpInit
    /\ phase = "idle"
    /\ checkFd = 0
    /\ checkCnt = 0
    /\ itr = EndItr
    /\ itrErased = FALSE
    /\ batch = NoEvents
    /\ pendingWrite = NoSocket
    /\ calls = 0

-----------------------------------------------------------------------------
(* The application. *)

AppMayCall ==
    /\ phase # "crashed"
    /\ phase = "idle" \/ stack # <<>>
    /\ calls < MaxCalls

AppCall(Op) == AppMayCall /\ Op /\ calls' = calls + 1 /\ UNCHANGED loopVars

AppListen == AppCall(Listen)
AppConnect == AppCall(Connect)
AppLeak == AppCall(LeakFd)

AppUdpListen == AppCall(UdpListen)
AppUdpConnect == AppCall(UdpConnect)

AppSend(s) == s \in live /\ AppCall(OnSend(s))

AppClose(s) ==
    /\ s \in live
    /\ AppCall(/\ BeginClose(s, TRUE)
               /\ UNCHANGED <<containerVars, socketVars, fdState>>)

(* SetTimeout on a session; the clock decides what the new value means. *)
AppSetTimeout(s) ==
    /\ s \in live
    /\ m_state[s] \in Sessions
    /\ AppCall(/\ \E t \in Timers : timer' = [timer EXCEPT ![s] = t]
               /\ UNCHANGED <<containerVars, live, m_type, m_fd, m_state, m_output,
                              m_isResending, fdState, stack, notice>>)

(* The innermost handler call returns: HandlePacket, after which Read is   *)
(* over but for a UdpSocket whose handler failed, or HandleClose, after    *)
(* which Close goes on.                                                    *)
PacketReturns ==
    /\ phase # "crashed"
    /\ stack # <<>> /\ Top.cb = "packet"
    /\ \/ /\ stack' = SubSeq(stack, 1, Len(stack) - 1)
          /\ UNCHANGED notice
       \/ UnpackFailed(Top.s)
    /\ UNCHANGED <<containerVars, socketVars, fdState, loopVars, calls>>

CloseReturns ==
    /\ phase # "crashed"
    /\ stack # <<>> /\ Top.cb = "close"
    /\ stack' = SubSeq(stack, 1, Len(stack) - 1)
    /\ FinishClose(Top.s)
    /\ itrErased' = (itrErased \/ (phase = "advance" /\ m_fd[Top.s] = itr))
    /\ UNCHANGED <<phase, checkFd, checkCnt, itr, batch, pendingWrite, calls>>

-----------------------------------------------------------------------------
(* The kernel and the clock. *)

NetEstablish(fd) ==
    /\ fdState[fd] = "syn"
    /\ fdState' = [fdState EXCEPT ![fd] = "up"]
    /\ UNCHANGED <<containerVars, socketVars, stack, notice, loopVars, calls>>

NetRefuse(fd) ==
    /\ fdState[fd] = "syn"
    /\ fdState' = [fdState EXCEPT ![fd] = "down"]
    /\ UNCHANGED <<containerVars, socketVars, stack, notice, loopVars, calls>>

TimePasses(s) ==
    /\ timer[s] = "fresh"
    /\ timer' = [timer EXCEPT ![s] = "expired"]
    /\ UNCHANGED <<containerVars, live, m_type, m_fd, m_state, m_output,
                   m_isResending, fdState, stack, notice, loopVars, calls>>

(* What epoll_wait may report of a descriptor in the interest list.  With  *)
(* an error pending the loop looks at nothing else.                        *)
Ready(fd) ==
    IF interest[fd] = {} THEN {{}}
    ELSE CASE fdState[fd] = "up" -> SUBSET (interest[fd] \ {"err"}) \cup {{"err"}}
           [] fdState[fd] = "listen" -> {{}, {"in"}, {"err"}}
           [] fdState[fd] = "down" -> {{}, {"err"}}
           [] OTHER -> {{}}

-----------------------------------------------------------------------------
(* HandleSockets. *)

AtLoop(p) == phase = p /\ stack = <<>>

(* Wrong: never calls CheckCloseSocket. *)
HandleSockets_NoDelete ==
    /\ AtLoop("idle")
    /\ phase' = "scan"
    /\ \E i \in Fds \cup {EndItr} : IsUpperBound(i, checkFd) /\ itr' = i
    /\ checkCnt' = 0
    /\ calls' = 0
    /\ UNCHANGED <<tcpVars, checkFd, itrErased, batch, pendingWrite>>

(* CheckCloseSocket, and the start of CheckTimeoutSocket. *)
HandleSockets ==
    /\ AtLoop("idle")
    /\ live' = live \ m_closeSockets
    /\ m_type' = [s \in Sockets |-> IF s \in m_closeSockets THEN "tcp"
                                    ELSE m_type[s]]
    /\ m_output' = [s \in Sockets |-> IF s \in m_closeSockets THEN 0
                                      ELSE m_output[s]]
    /\ m_isResending' = [s \in Sockets |-> s \notin m_closeSockets
                                           /\ m_isResending[s]]
    /\ notice' = [s \in Sockets |-> IF s \in m_closeSockets THEN "none"
                                    ELSE notice[s]]
    /\ ClearCloseSockets
    /\ phase' = "scan"
    /\ \E i \in Fds \cup {EndItr} : IsUpperBound(i, checkFd) /\ itr' = i
    /\ checkCnt' = 0
    /\ calls' = 0
    /\ UNCHANGED <<m_fd, m_state, timer, fdState, stack, checkFd, itrErased,
                   batch, pendingWrite>>

(* Wrong: looks at every socket there is in one pass. *)
ScanSocket_NoLimit ==
    /\ AtLoop("scan")
    /\ itr # EndItr
    /\ checkFd' = itr
    /\ OnTimeout(m_socketMap[itr])
    /\ phase' = "advance"
    /\ UNCHANGED <<checkCnt, itr, itrErased, batch, pendingWrite, calls>>

ScanSocket ==
    /\ AtLoop("scan")
    /\ itr # EndItr /\ checkCnt < ScanLimit
    /\ checkFd' = itr
    /\ OnTimeout(m_socketMap[itr])
    /\ phase' = "advance"
    /\ UNCHANGED <<checkCnt, itr, itrErased, batch, pendingWrite, calls>>

(* ++itr.  On an erased entry the behaviour is undefined: the freed node    *)
(* may still lead to some entry of the map or to its end, or to no memory   *)
(* of the process at all.                                                   *)
ScanAdvance ==
    /\ AtLoop("advance")
    /\ ~ itrErased
    /\ checkCnt' = checkCnt + 1
    /\ \E i \in Fds \cup {EndItr} : IsUpperBound(i, itr) /\ itr' = i
    /\ phase' = "scan"
    /\ UNCHANGED <<tcpVars, checkFd, itrErased, batch, pendingWrite, calls>>

ScanAdvanceErased ==
    /\ AtLoop("advance")
    /\ itrErased
    /\ checkCnt' = checkCnt + 1
    /\ itrErased' = FALSE
    /\ \/ /\ itr' \in Registered \cup {EndItr}
          /\ phase' = "scan"
       \/ /\ itr' = EndItr
          /\ phase' = "crashed"
    /\ UNCHANGED <<tcpVars, checkFd, batch, pendingWrite, calls>>

(* Wrong: the next pass does not start over at the first socket. *)
ScanEnd_NoRestart ==
    /\ AtLoop("scan")
    /\ itr = EndItr \/ checkCnt >= ScanLimit
    /\ itr' = EndItr
    /\ checkCnt' = 0
    /\ phase' = "wait"
    /\ UNCHANGED <<tcpVars, checkFd, itrErased, batch, pendingWrite, calls>>

ScanEnd ==
    /\ AtLoop("scan")
    /\ itr = EndItr \/ checkCnt >= ScanLimit
    /\ checkFd' = IF itr = EndItr THEN 0 ELSE checkFd
    /\ itr' = EndItr
    /\ checkCnt' = 0
    /\ phase' = "wait"
    /\ UNCHANGED <<tcpVars, itrErased, batch, pendingWrite, calls>>

EpollWait ==
    /\ AtLoop("wait")
    /\ batch' \in [Fds -> SUBSET Events]
    /\ \A fd \in Fds : batch'[fd] \in Ready(fd)
    /\ phase' = "dispatch"
    /\ UNCHANGED <<tcpVars, checkFd, checkCnt, itr, itrErased, pendingWrite,
                   calls>>

(* One event: the socket is looked up by descriptor. *)
DispatchEvent(fd) ==
    /\ AtLoop("dispatch")
    /\ pendingWrite = NoSocket
    /\ batch[fd] # {}
    /\ batch' = [batch EXCEPT ![fd] = {}]
    /\ LET s == m_socketMap[fd] IN
       \/ /\ s = NoSocket
          /\ UNCHANGED <<tcpVars, pendingWrite>>
       \/ /\ s # NoSocket /\ "err" \in batch[fd]
          /\ OnError(s)
          /\ UNCHANGED pendingWrite
       \/ /\ s # NoSocket /\ "err" \notin batch[fd] /\ "in" \in batch[fd]
          /\ OnRead(s)
          /\ pendingWrite' = IF "out" \in batch[fd] THEN s ELSE NoSocket
       \/ /\ s # NoSocket /\ batch[fd] = {"out"}
          /\ OnWrite(s)
          /\ UNCHANGED pendingWrite
    /\ UNCHANGED <<phase, checkFd, checkCnt, itr, itrErased, calls>>

(* The second half of an event that was both readable and writable. *)
DispatchWrite ==
    /\ AtLoop("dispatch")
    /\ pendingWrite # NoSocket
    /\ OnWrite(pendingWrite)
    /\ pendingWrite' = NoSocket
    /\ UNCHANGED <<phase, checkFd, checkCnt, itr, itrErased, batch, calls>>

DispatchEnd ==
    /\ AtLoop("dispatch")
    /\ pendingWrite = NoSocket
    /\ batch = NoEvents
    /\ phase' = "idle"
    /\ UNCHANGED <<tcpVars, checkFd, checkCnt, itr, itrErased, batch,
                   pendingWrite, calls>>

Halted == phase = "crashed" /\ UNCHANGED vars

-----------------------------------------------------------------------------
Loop ==
    \/ HandleSockets \/ ScanSocket \/ ScanAdvance \/ ScanAdvanceErased
    \/ ScanEnd \/ EpollWait \/ (\E fd \in Fds : DispatchEvent(fd))
    \/ DispatchWrite \/ DispatchEnd

HandlerReturns == PacketReturns \/ CloseReturns

App ==
    \/ AppListen \/ AppConnect \/ AppUdpListen \/ AppUdpConnect \/ AppLeak
    \/ \E s \in Sockets : AppSend(s) \/ AppClose(s) \/ AppSetTimeout(s)

Net == \E fd \in Fds : NetEstablish(fd) \/ NetRefuse(fd)

Clock == \E s \in Sockets : TimePasses(s)

Next == Loop \/ HandlerReturns \/ App \/ Net \/ Clock \/ Halted

Spec == Init /\ [][Next]_vars

(***************************************************************************)
(* The application keeps calling HandleSockets and its handlers return;    *)
(* HandleSockets itself has no blocking call but epoll_wait, which has a   *)
(* timeout.  Nothing is assumed of the network, the clock or what else the *)
(* application does.                                                       *)
(***************************************************************************)
Fairness == WF_vars(Loop) /\ WF_vars(HandlerReturns)

FairSpec == Spec /\ Fairness

-----------------------------------------------------------------------------
(* Safety. *)

TypeOK ==
    /\ TcpTypeOK
    /\ phase \in Phases
    /\ checkFd \in Nat
    /\ checkCnt \in 0..ScanLimit
    /\ itr \in Fds \cup {EndItr}
    /\ itrErased \in BOOLEAN
    /\ batch \in [Fds -> SUBSET Events]
    /\ pendingWrite \in Sockets \cup {NoSocket}
    /\ calls \in 0..MaxCalls

(* The two registries agree at every moment: a descriptor has an entry in   *)
(* m_socketMap exactly when it is in the epoll interest list, whatever      *)
(* AddSocket, ModSocket and DelSocket calls failed on the way; the counter  *)
(* counts the entries and stays within m_maxFdCount.                        *)
ContainerMatchesKernel ==
    /\ \A fd \in Fds : m_socketMap[fd] # NoSocket <=> interest[fd] # {}
    /\ m_socketNum = Cardinality(Registered)
    /\ m_socketNum <= MaxFdCount

(* DelSocket erases by descriptor without looking whose entry it is.  That  *)
(* is right only because a registered socket always is alive, not closed,   *)
(* and still has the descriptor it is registered under.                     *)
RegisteredSocketOwnsFd ==
    \A fd \in Registered :
       LET s == m_socketMap[fd] IN
       /\ s \in live \ m_closeSockets
       /\ m_fd[s] = fd

(* Close passes m_fd to close(2) after a handler ran that may have closed   *)
(* this socket and opened others.  No descriptor is ever in two sockets, a  *)
(* socket's descriptor is open, and every open one but those leaked before  *)
(* the object existed is in a socket that can still close it.               *)
FdOwnership ==
    /\ \A s, t \in Sockets : m_fd[s] = m_fd[t] /\ m_fd[s] # NoFd => s = t
    /\ \A s \in Sockets : m_fd[s] # NoFd =>
          s \in live /\ fdState[m_fd[s]] \notin {"closed", "orphan"}
    /\ \A fd \in Fds : fdState[fd] \notin {"closed", "orphan"} =>
          \E s \in live : m_fd[s] = fd

(* Deletion is deferred to the next pass so that no pointer the loop still  *)
(* holds - in a handler call, between HandleRead and HandleWrite, or in     *)
(* m_closeSockets itself - outlives its object.                             *)
NoDanglingSocket ==
    /\ m_closeSockets \subseteq live
    /\ \A i \in DOMAIN stack : stack[i].s \in live
    /\ pendingWrite \in live \cup {NoSocket}

(* No object is forgotten: one that exists is registered, or queued for     *)
(* deletion, or in the middle of Close.                                     *)
NoLostSocket ==
    \A s \in live :
       \/ m_fd[s] \in Registered /\ m_socketMap[m_fd[s]] = s
       \/ s \in m_closeSockets
       \/ Closing(s)

(* HandleClose is called for every socket before it is closed, and not a    *)
(* second time unless the application itself used the socket again: an      *)
(* error, an event and a timeout never each report the same socket.         *)
NotifiedOnce ==
    /\ \A s \in Sockets : notice[s] # "twice"
    /\ \A s \in m_closeSockets : notice[s] # "none"

(* A registered socket is watched for writability exactly while it is       *)
(* connecting or has output waiting: without the first half data would wait *)
(* for ever, without the second epoll_wait would never block again.         *)
WatchedForWriting ==
    \A fd \in Registered :
       LET s == m_socketMap[fd] IN
       Closing(s) \/ ("out" \in interest[fd]
                        <=> m_state[s] = "connecting" \/ m_output[s] > 0)

-----------------------------------------------------------------------------
(* The event loop implements the life cycle of SocketLifecycle: for every   *)
(* socket HandleClose, the release of its descriptor and its deletion       *)
(* happen once each and in this order, also when Close is entered again     *)
(* from its own handler.                                                    *)

Stage(s) ==
    IF s \notin live THEN "absent"
    ELSE IF s \in m_closeSockets THEN "closed"
    ELSE IF Closing(s) THEN "announced"
    ELSE "open"

Lifecycle == INSTANCE SocketLifecycle
                 WITH stage <- [s \in Sockets |-> Stage(s)], fdOf <- m_fd

ImplementsLifecycle == Lifecycle!Spec

-----------------------------------------------------------------------------
(* Liveness. *)

(* An idle session is closed, or used again, however many sockets there are *)
(* and wherever the previous scan stopped - unless a scan goes through an   *)
(* erased entry, after which the code promises nothing.                     *)
IdleSessionsReaped ==
    \A s \in Sockets :
       timer[s] = "expired" /\ m_state[s] \in Sessions
          ~> timer[s] # "expired" \/ Closing(s)
                \/ itrErased \/ phase = "crashed"

(* Every closed socket is deleted, unless the process is gone. *)
ClosedSocketsDeleted ==
    \A s \in Sockets :
       s \in m_closeSockets ~> s \notin m_closeSockets \/ phase = "crashed"

-----------------------------------------------------------------------------
(* What comments in the code say and the code does not do. *)

(* tcp_socket.cpp:216: a connecting socket that becomes writable is         *)
(* connected.  An event left over from the descriptor's previous owner is   *)
(* taken for that.                                                          *)
ConnectedMeansEstablished ==
    \A s \in live : m_state[s] = "connected" /\ ~ Closing(s)
                        => fdState[m_fd[s]] = "up"

(* epoll_container.cpp:267: the scan enforces the timeouts the application  *)
(* sets.  The loop survives finding one.                                    *)
ScanSurvivesTimeout == phase # "crashed"
=============================================================================
