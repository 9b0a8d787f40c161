------------------------------ MODULE TcpSocket ------------------------------
(***************************************************************************)
(* TcpSocket (net/tcp_socket.cpp): the objects, their descriptors in the   *)
(* kernel, and the methods the event loop and the application call.        *)
(*                                                                         *)
(* The code is single threaded but re-entrant: Close and Read call the     *)
(* application's PacketHandler, which may call back into any socket before *)
(* it returns.  `stack` holds the handler calls in progress; the part of   *)
(* a method that follows its handler call is an action of its own, taken   *)
(* when the handler returns.                                               *)
(*                                                                         *)
(* Data is counted, not represented: m_output is how many units of data    *)
(* wait to be sent, and OutCap is where BlockBuffer's append fails.        *)
(***************************************************************************)
EXTENDS EpollContainer, Sequences

CONSTANT OutCap

ASSUME SocketAssumption == OutCap \in Nat \ {0}

VARIABLES
    live,           \* the sockets that exist: allocated and not yet deleted
    m_type,         \* [Sockets -> SocketTypes]: the class of the object
    m_fd,           \* [Sockets -> Fds or NoFd]
    m_state,        \* [Sockets -> States]
    timer,          \* m_timeout and m_lastAccessTime against the clock
    m_output,       \* units of data waiting in the output buffer
    m_isResending,
    fdState,        \* the kernel's descriptors
    stack,          \* handler calls in progress, the innermost last
    notice          \* what the application has been told of each socket

socketVars == <<live, m_type, m_fd, m_state, timer, m_output, m_isResending>>
tcpVars == <<containerVars, socketVars, fdState, stack, notice>>

SocketTypes == {"tcp", "udp"}
States == {"connecting", "connected", "listen", "accept", "close"}

(* The states in which HandleTimeout looks at the clock. *)
Sessions == {"connecting", "connected", "accept"}

(* off: m_timeout or m_lastAccessTime is 0; fresh: the socket was used less *)
(* than m_timeout ago; expired: HandleTimeout would close it.               *)
Timers == {"off", "fresh", "expired"}

(* closed: free to be handed out; orphan: open, but in no socket; syn: the  *)
(* handshake is under way; down: not connected, with an error pending.      *)
FdStates == {"closed", "orphan", "listen", "syn", "up", "down"}

(* none: HandleClose was not called; told: it was, once; used: the          *)
(* application then called Close or sent on the socket; twice: HandleClose  *)
(* was called again although the application had left the socket alone.     *)
Notices == {"none", "told", "used", "twice"}

Frames == [cb : {"packet", "close"}, s : Sockets]

TcpTypeOK ==
    /\ ContainerTypeOK
    /\ live \subseteq Sockets
    /\ m_type \in [Sockets -> SocketTypes]
    /\ m_fd \in [Sockets -> Fds \cup {NoFd}]
    /\ m_state \in [Sockets -> States]
    /\ timer \in [Sockets -> Timers]
    /\ m_output \in [Sockets -> 0..OutCap]
    /\ m_isResending \in [Sockets -> BOOLEAN]
    /\ fdState \in [Fds -> FdStates]
    /\ stack \in Seq(Frames)
    /\ notice \in [Sockets -> Notices]

TcpInit ==
    /\ ContainerInit
    /\ live = {}
    /\ m_type = [s \in Sockets |-> "tcp"]
    /\ m_fd = [s \in Sockets |-> NoFd]
    /\ m_state = [s \in Sockets |-> "close"]
    /\ timer = [s \in Sockets |-> "off"]
    /\ m_output = [s \in Sockets |-> 0]
    /\ m_isResending = [s \in Sockets |-> FALSE]
    /\ fdState = [fd \in Fds |-> "closed"]
    /\ stack = <<>>
    /\ notice = [s \in Sockets |-> "none"]

Top == stack[Len(stack)]
Closing(s) == \E i \in DOMAIN stack : stack[i] = [cb |-> "close", s |-> s]

(* The kernel hands out the lowest free descriptor. *)
IsNewFd(fd) ==
    /\ fdState[fd] = "closed"
    /\ \A g \in Fds : fdState[g] = "closed" => fd <= g

OpenFd(fd, st) ==
    fdState' = [fdState EXCEPT ![fd] = st]

(***************************************************************************)
(* new TcpSocket or UdpSocket, and the setters the static methods call on  *)
(* the object.  TcpSocket's constructor leaves m_isResending               *)
(* uninitialized; a UdpSocket has no output.                               *)
(***************************************************************************)
NewSocket(s, fd, type, st, tm) ==
    /\ s \in Sockets \ live
    /\ live' = live \cup {s}
    /\ m_type' = [m_type EXCEPT ![s] = type]
    /\ m_fd' = [m_fd EXCEPT ![s] = fd]
    /\ m_state' = [m_state EXCEPT ![s] = st]
    /\ timer' = [timer EXCEPT ![s] = tm]
    /\ m_output' = [m_output EXCEPT ![s] = 0]
    /\ \E b \in BOOLEAN : /\ b => type = "tcp"
                         /\ m_isResending' = [m_isResending EXCEPT ![s] = b]

(***************************************************************************)
(* Handler calls.  Close begins with HandleClose; the rest of Close is     *)
(* FinishClose.  byApp: the application itself called the socket.          *)
(***************************************************************************)
Call(cb, s) == stack' = Append(stack, [cb |-> cb, s |-> s])

AfterUse(n) == IF n = "told" THEN "used" ELSE n

AfterNotice(n) ==
    CASE n = "none" -> "told"
      [] n = "told" -> "twice"
      [] OTHER -> n

BeginClose(s, byApp) ==
    /\ Call("close", s)
    /\ notice' = [notice EXCEPT ![s] =
                     AfterNotice(IF byApp THEN AfterUse(@) ELSE @)]

NoClose(s, byApp) ==
    /\ UNCHANGED stack
    /\ notice' = [notice EXCEPT ![s] = IF byApp THEN AfterUse(@) ELSE @]

CloseUnless(ok, s, byApp) ==
    IF ok THEN NoClose(s, byApp) ELSE BeginClose(s, byApp)

CloseFd(s) ==
    fdState' = IF m_fd[s] \in Fds
               THEN [fdState EXCEPT ![m_fd[s]] = "closed"] ELSE fdState

ResetState(s) ==
    /\ m_state' = [m_state EXCEPT ![s] = "close"]
    /\ timer' = [timer EXCEPT ![s] = "off"]
    /\ UNCHANGED <<m_output, m_isResending, notice>>

ResetFd(s) == m_fd' = [m_fd EXCEPT ![s] = NoFd]

(* Wrong: resets m_fd before DelSocket looks the socket up by it. *)
FinishClose_ResetFirst(s) ==
    /\ DelSocket(s, NoFd) /\ CloseFd(s) /\ ResetFd(s) /\ ResetState(s)
    /\ UNCHANGED <<live, m_type>>

(* Wrong: forgets that the descriptor is gone. *)
FinishClose_KeepsFd(s) ==
    /\ DelSocket(s, m_fd[s]) /\ CloseFd(s) /\ ResetState(s)
    /\ UNCHANGED <<live, m_type, m_fd>>

(* Wrong: deletes the object at once. *)
FinishClose_DeletesNow(s) ==
    /\ DelSocket(s, m_fd[s]) /\ CloseFd(s) /\ ResetFd(s) /\ ResetState(s)
    /\ live' = live \ {s}
    /\ UNCHANGED m_type

(* HandleClose has returned: deregister, release the descriptor, reset. *)
FinishClose(s) ==
    /\ DelSocket(s, m_fd[s]) /\ CloseFd(s) /\ ResetFd(s) /\ ResetState(s)
    /\ UNCHANGED <<live, m_type>>

Refreshed(s) == [timer EXCEPT ![s] = IF @ = "expired" THEN "fresh" ELSE @]

(***************************************************************************)
(* Write, called with `queued' units in the output buffer and the access   *)
(* time refreshed by the caller's timer'.  The send loop ends in one of    *)
(* three ways: everything sent, EAGAIN, or another error.                  *)
(***************************************************************************)
(* Wrong: leaves the socket watched for writing. *)
SendAll_StillWatched(s, byApp) ==
    /\ fdState[m_fd[s]] = "up"
    /\ m_output' = [m_output EXCEPT ![s] = 0]
    /\ m_isResending' = [m_isResending EXCEPT ![s] = FALSE]
    /\ UNCHANGED containerVars
    /\ NoClose(s, byApp)

SendAll(s, byApp) ==
    /\ fdState[m_fd[s]] = "up"
    /\ m_output' = [m_output EXCEPT ![s] = 0]
    /\ m_isResending' = [m_isResending EXCEPT ![s] = FALSE]
    /\ \/ /\ ~ m_isResending[s]
          /\ UNCHANGED containerVars
          /\ NoClose(s, byApp)
       \/ /\ m_isResending[s]
          /\ ModSocket(m_fd[s], ReadEvents)
          /\ NoClose(s, byApp)
       \/ /\ m_isResending[s]
          /\ ModSocketFails
          /\ BeginClose(s, byApp)

(* What can be left of `queued' units when the send loop stops early. *)
Unsent(s, queued) == IF fdState[m_fd[s]] = "up" THEN 1..queued ELSE {queued}

SendBlocked(s, queued, byApp) ==
    /\ \E left \in Unsent(s, queued) :
          m_output' = [m_output EXCEPT ![s] = left]
    /\ \/ /\ ModSocket(m_fd[s], ReadWriteEvents)
          /\ m_isResending' = [m_isResending EXCEPT ![s] = TRUE]
          /\ NoClose(s, byApp)
       \/ /\ ModSocketFails
          /\ UNCHANGED m_isResending
          /\ BeginClose(s, byApp)

SendFails(s, queued, byApp) ==
    /\ \E left \in Unsent(s, queued) :
          m_output' = [m_output EXCEPT ![s] = left]
    /\ BeginClose(s, byApp)
    /\ UNCHANGED <<containerVars, m_isResending>>

Write(s, queued, byApp) ==
    /\ timer' = Refreshed(s)
    /\ \/ SendAll(s, byApp)
       \/ SendBlocked(s, queued, byApp)
       \/ SendFails(s, queued, byApp)
    /\ UNCHANGED <<live, m_type, m_fd, m_state, fdState>>

(***************************************************************************)
(* SendPacket of one unit.  When the socket cannot send, when there is     *)
(* nothing to send, or when the buffer is full it changes nothing.         *)
(***************************************************************************)
SendPacket(s) ==
    /\ m_state[s] \in {"accept", "connected"}
    /\ m_output[s] < OutCap
    /\ Write(s, m_output[s] + 1, TRUE)

(***************************************************************************)
(* Listen.  Every failure before the object exists leaves the descriptor   *)
(* open; a failing AddSocket closes the new socket.                        *)
(***************************************************************************)
LeakFd ==
    /\ \E fd \in Fds : IsNewFd(fd) /\ OpenFd(fd, "orphan")
    /\ UNCHANGED <<containerVars, socketVars, stack, notice>>

Listen ==
    \E s \in Sockets \ live, fd \in Fds :
       /\ IsNewFd(fd)
       /\ OpenFd(fd, "listen")
       /\ NewSocket(s, fd, "tcp", "listen", "off")
       /\ \/ /\ AddSocket(s, fd, ReadEvents)
             /\ UNCHANGED <<stack, notice>>
          \/ /\ AddSocketFails
             /\ BeginClose(s, FALSE)

(***************************************************************************)
(* Connect.  connect() succeeds at once, is in progress, or fails; errno   *)
(* is tested after calls that may have changed it, so that an attempt in   *)
(* progress may also be taken for a failed one.                            *)
(***************************************************************************)
Connect ==
    \E s \in Sockets \ live, fd \in Fds :
       /\ IsNewFd(fd)
       /\ \/ /\ OpenFd(fd, "up")
             /\ NewSocket(s, fd, "tcp", "connected", "off")
             /\ AddSocket(s, fd, ReadEvents)
             /\ UNCHANGED <<stack, notice>>
          \/ /\ OpenFd(fd, "syn")
             /\ NewSocket(s, fd, "tcp", "connecting", "fresh")
             /\ AddSocket(s, fd, ReadWriteEvents)
             /\ UNCHANGED <<stack, notice>>
          \/ /\ \E st \in {"up", "syn", "down"} : OpenFd(fd, st)
             /\ NewSocket(s, fd, "tcp", "close", "off")
             /\ AddSocketFails
             /\ BeginClose(s, FALSE)

(***************************************************************************)
(* Accept, on the listening socket l.  A failure of accept() itself or of  *)
(* fcntl() closes the listener; later failures close the new socket.       *)
(***************************************************************************)
AcceptFails(l) ==
    /\ \/ UNCHANGED fdState
       \/ \E fd \in Fds : IsNewFd(fd) /\ OpenFd(fd, "orphan")
    /\ BeginClose(l, FALSE)
    /\ UNCHANGED <<containerVars, socketVars>>

Accepts ==
    \E s \in Sockets \ live, fd \in Fds :
       /\ IsNewFd(fd)
       /\ OpenFd(fd, "up")
       /\ NewSocket(s, fd, "tcp", "accept", "fresh")
       /\ \/ /\ AddSocket(s, fd, ReadEvents)
             /\ UNCHANGED <<stack, notice>>
          \/ /\ AddSocket(s, fd, ReadEvents)      \* EnableTcpNoDelay failed
             /\ BeginClose(s, FALSE)
          \/ /\ AddSocketFails
             /\ BeginClose(s, FALSE)

Accept(l) == AcceptFails(l) \/ Accepts

(***************************************************************************)
(* Read.  EAGAIN and end of stream close the socket, any other error is    *)
(* ignored, data goes to HandlePacket.  On return the result of            *)
(* HandlePacket is dropped, so nothing else happens in Read.               *)
(***************************************************************************)
Read(s) ==
    /\ timer' = Refreshed(s)
    /\ \/ UNCHANGED <<stack, notice>>
       \/ BeginClose(s, FALSE)
       \/ /\ fdState[m_fd[s]] = "up"
          /\ Call("packet", s)
          /\ UNCHANGED notice
    /\ UNCHANGED <<containerVars, fdState, live, m_type, m_fd, m_state,
                   m_output, m_isResending>>

(***************************************************************************)
(* The four entry points of the event loop.                                *)
(***************************************************************************)
HandleRead(s) ==
    CASE m_state[s] = "listen" -> Accept(s)
      [] m_state[s] \in Sessions -> Read(s)
      [] OTHER -> UNCHANGED tcpVars

HandleConnected(s) ==
    /\ m_state[s] = "connecting"
    /\ m_state' = [m_state EXCEPT ![s] = "connected"]
    /\ timer' = [timer EXCEPT ![s] = "off"]
    /\ \/ ModSocket(m_fd[s], ReadEvents) /\ NoClose(s, FALSE)
       \/ ModSocketFails /\ BeginClose(s, FALSE)
    /\ UNCHANGED <<live, m_type, m_fd, m_output, m_isResending, fdState>>

(* Wrong: closes a socket that has nothing to write in its state. *)
HandleWrite_ClosesAgain(s) ==
    \/ HandleConnected(s)
    \/ /\ m_state[s] \in {"accept", "connected"}
       /\ m_output[s] > 0
       /\ Write(s, m_output[s], FALSE)
    \/ /\ m_state[s] \in {"listen", "close"}
       /\ BeginClose(s, FALSE)
       /\ UNCHANGED <<containerVars, socketVars, fdState>>

HandleWrite(s) ==
    \/ HandleConnected(s)
    \/ /\ m_state[s] \in {"accept", "connected"}
       /\ m_output[s] > 0
       /\ Write(s, m_output[s], FALSE)
    \/ /\ m_state[s] \in {"accept", "connected"}
       /\ m_output[s] = 0
       /\ timer' = Refreshed(s)
       /\ UNCHANGED <<containerVars, live, m_type, m_fd, m_state, m_output,
                      m_isResending, fdState, stack, notice>>
    \/ /\ m_state[s] \in {"listen", "close"}
       /\ UNCHANGED tcpVars

HandleError(s) ==
    /\ BeginClose(s, FALSE)
    /\ UNCHANGED <<containerVars, socketVars, fdState>>

HandleTimeout(s) ==
    IF m_state[s] \in Sessions /\ timer[s] = "expired"
    THEN /\ BeginClose(s, FALSE)
         /\ UNCHANGED <<containerVars, socketVars, fdState>>
    ELSE UNCHANGED tcpVars
=============================================================================
