------------------------------ MODULE UdpSocket ------------------------------
(***************************************************************************)
(* UdpSocket (net/udp_socket.cpp), the second class of sockets, and the    *)
(* virtual calls through which the event loop and the application reach    *)
(* either class.                                                           *)
(*                                                                         *)
(* A UdpSocket shares its container, its life cycle and Close with a       *)
(* TcpSocket.  It has no output, so that it never is watched for writing,  *)
(* no connecting state, and, unlike TcpSocket::Read, its Read looks at     *)
(* what HandlePacket returned.                                             *)
(***************************************************************************)
EXTENDS TcpSocket

(***************************************************************************)
(* Listen (a bound socket) and Connect (one with a peer address).  What    *)
(* fails before the object exists leaves the descriptor open (LeakFd).     *)
(***************************************************************************)
NewUdpSocket(st) ==
    \E s \in Sockets \ live, fd \in Fds :
       /\ IsNewFd(fd)
       /\ OpenFd(fd, "up")
       /\ NewSocket(s, fd, "udp", st, "off")
       /\ \/ /\ AddSocket(s, fd, ReadEvents)
             /\ UNCHANGED <<stack, notice>>
          \/ /\ AddSocketFails
             /\ BeginClose(s, FALSE)

UdpListen == NewUdpSocket("listen")
UdpConnect == NewUdpSocket("connected")

(***************************************************************************)
(* HandleRead reads whatever the state.  EAGAIN and an empty datagram      *)
(* close the socket, any other error is ignored, data goes to              *)
(* HandlePacket.                                                           *)
(***************************************************************************)
UdpRead(s) ==
    /\ timer' = Refreshed(s)
    /\ \/ UNCHANGED <<stack, notice>>
       \/ BeginClose(s, FALSE)
       \/ Call("packet", s) /\ UNCHANGED notice
    /\ UNCHANGED <<containerVars, fdState, live, m_type, m_fd, m_state,
                   m_output, m_isResending>>

(***************************************************************************)
(* HandlePacket, the innermost call, returns a negative number: Read       *)
(* closes the socket, also when the handler has closed it already.  By     *)
(* this result it is the application that asks for the second Close.       *)
(***************************************************************************)
UnpackFailed(s) ==
    /\ m_type[s] = "udp"
    /\ stack' = [stack EXCEPT ![Len(stack)] = [cb |-> "close", s |-> s]]
    /\ notice' = [notice EXCEPT ![s] = AfterNotice(AfterUse(@))]

(* HandleWrite only logs. *)
UdpHandleWrite(s) == UNCHANGED tcpVars

UdpHandleError(s) ==
    /\ BeginClose(s, FALSE)
    /\ UNCHANGED <<containerVars, socketVars, fdState>>

UdpHandleTimeout(s) ==
    IF m_state[s] = "connected" /\ timer[s] = "expired"
    THEN /\ BeginClose(s, FALSE)
         /\ UNCHANGED <<containerVars, socketVars, fdState>>
    ELSE UNCHANGED tcpVars

(* SendPacket sends at once or not at all: only the access time changes.    *)
(* It changes in other states too, where nobody looks at it.                *)
UdpSendPacket(s) ==
    /\ m_state[s] \in {"listen", "connected"}
    /\ timer' = Refreshed(s)
    /\ NoClose(s, TRUE)
    /\ UNCHANGED <<containerVars, live, m_type, m_fd, m_state, m_output,
                   m_isResending, fdState>>

-----------------------------------------------------------------------------
(* The virtual methods of SocketBase. *)

Virtual(s, Tcp, Udp) == IF m_type[s] = "udp" THEN Udp ELSE Tcp

OnRead(s) == Virtual(s, HandleRead(s), UdpRead(s))
OnWrite(s) == Virtual(s, HandleWrite(s), UdpHandleWrite(s))
OnError(s) == Virtual(s, HandleError(s), UdpHandleError(s))
OnTimeout(s) == Virtual(s, HandleTimeout(s), UdpHandleTimeout(s))
OnSend(s) == Virtual(s, SendPacket(s), UdpSendPacket(s))
=============================================================================
