--------------------------- MODULE EventLoopProofs ---------------------------
(***************************************************************************)
(* Proofs about EventLoop, for every number of sockets and descriptors,    *)
(* every container size and every bound on the application's calls.        *)
(***************************************************************************)
EXTENDS EventLoop, FiniteSetTheorems, SequenceTheorems, TLAPS

USE ContainerAssumption, SocketAssumption, LoopAssumption
    DEF ContainerAssumption, SocketAssumption, LoopAssumption

-----------------------------------------------------------------------------
(* Types. *)

LEMMA CallType ==
    ASSUME TcpTypeOK, NEW s \in Sockets, NEW cb \in {"packet", "close"},
           Call(cb, s)
    PROVE  stack' \in Seq(Frames)
<1>1. [cb |-> cb, s |-> s] \in Frames
  BY DEF Frames
<1> QED  BY <1>1 DEF TcpTypeOK, Call

LEMMA NoticeType ==
    ASSUME NEW n \in Notices
    PROVE  AfterUse(n) \in Notices /\ AfterNotice(n) \in Notices
BY DEF Notices, AfterUse, AfterNotice

LEMMA BeginCloseType ==
    ASSUME TcpTypeOK, NEW s \in Sockets, NEW byApp \in BOOLEAN,
           BeginClose(s, byApp)
    PROVE  stack' \in Seq(Frames) /\ notice' \in [Sockets -> Notices]
<1>1. stack' \in Seq(Frames)
  BY CallType DEF BeginClose
<1>2. notice[s] \in Notices /\ AfterUse(notice[s]) \in Notices
  BY NoticeType DEF TcpTypeOK
<1>3. /\ AfterNotice(notice[s]) \in Notices
      /\ AfterNotice(AfterUse(notice[s])) \in Notices
  BY <1>2, NoticeType
<1> QED  BY <1>1, <1>3 DEF BeginClose, TcpTypeOK

LEMMA NoCloseType ==
    ASSUME TcpTypeOK, NEW s \in Sockets, NEW byApp \in BOOLEAN,
           NoClose(s, byApp)
    PROVE  stack' \in Seq(Frames) /\ notice' \in [Sockets -> Notices]
<1>1. notice[s] \in Notices /\ AfterUse(notice[s]) \in Notices
  BY NoticeType DEF TcpTypeOK
<1> QED  BY <1>1 DEF NoClose, TcpTypeOK

LEMMA EventsType ==
    ReadEvents \in (SUBSET Events) \ {{}} /\ ReadWriteEvents \in (SUBSET Events) \ {{}}
BY DEF Events, ReadEvents, ReadWriteEvents

LEMMA AddSocketType ==
    ASSUME TcpTypeOK, NEW s \in Sockets, NEW fd \in Fds,
           NEW events \in SUBSET Events, AddSocket(s, fd, events)
    PROVE  ContainerTypeOK'
BY DEF TcpTypeOK, ContainerTypeOK, AddSocket

LEMMA ModSocketType ==
    ASSUME TcpTypeOK, NEW fd, NEW events \in SUBSET Events,
           ModSocket(fd, events)
    PROVE  ContainerTypeOK'
BY DEF TcpTypeOK, ContainerTypeOK, ModSocket

LEMMA SameContainerType ==
    ASSUME TcpTypeOK, UNCHANGED containerVars PROVE ContainerTypeOK'
BY DEF TcpTypeOK, ContainerTypeOK, containerVars

LEMMA RefreshedType ==
    ASSUME TcpTypeOK, NEW s \in Sockets
    PROVE  Refreshed(s) \in [Sockets -> Timers]
BY DEF TcpTypeOK, Refreshed, Timers

LEMMA WriteType ==
    ASSUME TcpTypeOK, NEW s \in Sockets, NEW queued \in 1..OutCap,
           NEW byApp \in BOOLEAN, Write(s, queued, byApp)
    PROVE  TcpTypeOK'
<1>1. /\ timer' \in [Sockets -> Timers]
      /\ live' \subseteq Sockets
      /\ m_type' \in [Sockets -> SocketTypes]
      /\ m_fd' \in [Sockets -> Fds \cup {NoFd}]
      /\ m_state' \in [Sockets -> States]
      /\ fdState' \in [Fds -> FdStates]
  BY RefreshedType DEF Write, TcpTypeOK
<1>2. Unsent(s, queued) \subseteq 0..OutCap
  BY DEF Unsent
<1>3. CASE SendAll(s, byApp)
  <2>1. ContainerTypeOK'
    BY <1>3, EventsType, ModSocketType, SameContainerType
       DEF SendAll, ModSocketFails
  <2>2. stack' \in Seq(Frames) /\ notice' \in [Sockets -> Notices]
    BY <1>3, BeginCloseType, NoCloseType DEF SendAll
  <2>3. /\ m_output' \in [Sockets -> 0..OutCap]
        /\ m_isResending' \in [Sockets -> BOOLEAN]
    BY <1>3 DEF SendAll, TcpTypeOK
  <2> QED  BY <1>1, <2>1, <2>2, <2>3 DEF TcpTypeOK
<1>4. CASE SendBlocked(s, queued, byApp)
  <2>1. ContainerTypeOK'
    BY <1>4, EventsType, ModSocketType, SameContainerType
       DEF SendBlocked, ModSocketFails
  <2>2. stack' \in Seq(Frames) /\ notice' \in [Sockets -> Notices]
    BY <1>4, BeginCloseType, NoCloseType DEF SendBlocked
  <2>3. /\ m_output' \in [Sockets -> 0..OutCap]
        /\ m_isResending' \in [Sockets -> BOOLEAN]
    BY <1>2, <1>4 DEF SendBlocked, TcpTypeOK
  <2> QED  BY <1>1, <2>1, <2>2, <2>3 DEF TcpTypeOK
<1>5. CASE SendFails(s, queued, byApp)
  <2>1. ContainerTypeOK'
    BY <1>5, SameContainerType DEF SendFails
  <2>2. stack' \in Seq(Frames) /\ notice' \in [Sockets -> Notices]
    BY <1>5, BeginCloseType DEF SendFails
  <2>3. /\ m_output' \in [Sockets -> 0..OutCap]
        /\ m_isResending' \in [Sockets -> BOOLEAN]
    BY <1>2, <1>5 DEF SendFails, TcpTypeOK
  <2> QED  BY <1>1, <2>1, <2>2, <2>3 DEF TcpTypeOK
<1> QED  BY <1>3, <1>4, <1>5 DEF Write

LEMMA NewSocketType ==
    ASSUME TcpTypeOK, NEW s \in Sockets, NEW fd \in Fds,
           NEW type \in SocketTypes, NEW st \in States, NEW tm \in Timers,
           NewSocket(s, fd, type, st, tm)
    PROVE  /\ live' \subseteq Sockets
           /\ m_type' \in [Sockets -> SocketTypes]
           /\ m_fd' \in [Sockets -> Fds \cup {NoFd}]
           /\ m_state' \in [Sockets -> States]
           /\ timer' \in [Sockets -> Timers]
           /\ m_output' \in [Sockets -> 0..OutCap]
           /\ m_isResending' \in [Sockets -> BOOLEAN]
BY DEF TcpTypeOK, NewSocket

LEMMA OpenFdType ==
    ASSUME TcpTypeOK, NEW fd \in Fds, NEW st \in FdStates, OpenFd(fd, st)
    PROVE  fdState' \in [Fds -> FdStates]
BY DEF TcpTypeOK, OpenFd

LEMMA LeakFdType == TcpTypeOK /\ LeakFd => TcpTypeOK'
BY DEF TcpTypeOK, ContainerTypeOK, LeakFd, OpenFd, FdStates, containerVars,
       socketVars

LEMMA ListenType == TcpTypeOK /\ Listen => TcpTypeOK'
<1> SUFFICES ASSUME TcpTypeOK, Listen PROVE TcpTypeOK'
  OBVIOUS
<1>1. PICK s \in Sockets \ live, fd \in Fds :
         /\ OpenFd(fd, "listen")
         /\ NewSocket(s, fd, "tcp", "listen", "off")
         /\ \/ /\ AddSocket(s, fd, ReadEvents)
               /\ UNCHANGED <<stack, notice>>
            \/ /\ AddSocketFails
               /\ BeginClose(s, FALSE)
  BY DEF Listen
<1>2. /\ "tcp" \in SocketTypes /\ "listen" \in States
      /\ "off" \in Timers /\ "listen" \in FdStates
  BY DEF SocketTypes, States, Timers, FdStates
<1>3. ContainerTypeOK'
  BY <1>1, EventsType, AddSocketType, SameContainerType DEF AddSocketFails
<1>4. stack' \in Seq(Frames) /\ notice' \in [Sockets -> Notices]
  BY <1>1, BeginCloseType DEF TcpTypeOK
<1> QED  BY <1>1, <1>2, <1>3, <1>4, NewSocketType, OpenFdType DEF TcpTypeOK

LEMMA ConnectType == TcpTypeOK /\ Connect => TcpTypeOK'
<1> SUFFICES ASSUME TcpTypeOK, Connect PROVE TcpTypeOK'
  OBVIOUS
<1>1. PICK s \in Sockets \ live, fd \in Fds :
       /\ IsNewFd(fd)
       /\ \/ /\ OpenFd(fd, "up")
             /\ NewSocket(s, fd, "tcp", "connected", "off")
             /\ AddSocket(s, fd, ReadEvents)
             /\ UNCHANGED <<stack, notice>>
          \/ /\ OpenFd(fd, "syn")
             /\ NewSocket(s, fd, "tcp", "connecting", "fresh")
             /\ AddSocket(s, fd, ReadWriteEvents)
             /\ UNCHANGED <<stack, notice>>
          \/ /\ \E st \in {"up", "syn", "down"} : OpenFd(fd, st)
             /\ NewSocket(s, fd, "tcp", "close", "off")
             /\ AddSocketFails
             /\ BeginClose(s, FALSE)
  BY DEF Connect
<1>2. /\ "tcp" \in SocketTypes
      /\ {"connected", "connecting", "close"} \subseteq States
      /\ {"off", "fresh"} \subseteq Timers
      /\ {"up", "syn", "down"} \subseteq FdStates
  BY DEF SocketTypes, States, Timers, FdStates
<1>3. ContainerTypeOK'
  BY <1>1, EventsType, AddSocketType, SameContainerType DEF AddSocketFails
<1>4. stack' \in Seq(Frames) /\ notice' \in [Sockets -> Notices]
  BY <1>1, BeginCloseType DEF TcpTypeOK
<1>5. fdState' \in [Fds -> FdStates]
  BY <1>1, <1>2, OpenFdType
<1>6. /\ live' \subseteq Sockets
      /\ m_type' \in [Sockets -> SocketTypes]
      /\ m_fd' \in [Sockets -> Fds \cup {NoFd}]
      /\ m_state' \in [Sockets -> States]
      /\ timer' \in [Sockets -> Timers]
      /\ m_output' \in [Sockets -> 0..OutCap]
      /\ m_isResending' \in [Sockets -> BOOLEAN]
  BY <1>1, <1>2, NewSocketType
<1> QED  BY <1>3, <1>4, <1>5, <1>6 DEF TcpTypeOK

LEMMA AcceptType ==
    ASSUME TcpTypeOK, NEW l \in Sockets, Accept(l) PROVE TcpTypeOK'
<1>1. CASE AcceptFails(l)
  <2>1. ContainerTypeOK'
    BY <1>1, SameContainerType DEF AcceptFails
  <2>2. stack' \in Seq(Frames) /\ notice' \in [Sockets -> Notices]
    BY <1>1, BeginCloseType DEF AcceptFails
  <2>3. fdState' \in [Fds -> FdStates]
    BY <1>1, OpenFdType DEF AcceptFails, FdStates, TcpTypeOK
  <2> QED  BY <1>1, <2>1, <2>2, <2>3 DEF AcceptFails, TcpTypeOK, socketVars
<1>2. CASE Accepts
  <2>1. PICK s \in Sockets \ live, fd \in Fds :
           /\ OpenFd(fd, "up")
           /\ NewSocket(s, fd, "tcp", "accept", "fresh")
           /\ \/ /\ AddSocket(s, fd, ReadEvents)
                 /\ UNCHANGED <<stack, notice>>
              \/ /\ AddSocket(s, fd, ReadEvents)
                 /\ BeginClose(s, FALSE)
              \/ /\ AddSocketFails
                 /\ BeginClose(s, FALSE)
    BY <1>2 DEF Accepts
  <2>2. /\ "tcp" \in SocketTypes /\ "accept" \in States
        /\ "fresh" \in Timers /\ "up" \in FdStates
    BY DEF SocketTypes, States, Timers, FdStates
  <2>3. ContainerTypeOK'
    BY <2>1, EventsType, AddSocketType, SameContainerType DEF AddSocketFails
  <2>4. stack' \in Seq(Frames) /\ notice' \in [Sockets -> Notices]
    BY <2>1, BeginCloseType DEF TcpTypeOK
  <2> QED  BY <2>1, <2>2, <2>3, <2>4, NewSocketType, OpenFdType DEF TcpTypeOK
<1> QED  BY <1>1, <1>2 DEF Accept

LEMMA ReadType ==
    ASSUME TcpTypeOK, NEW s \in Sockets, Read(s) PROVE TcpTypeOK'
<1>1. ContainerTypeOK' /\ timer' \in [Sockets -> Timers]
  BY SameContainerType, RefreshedType DEF Read
<1>2. stack' \in Seq(Frames) /\ notice' \in [Sockets -> Notices]
  BY BeginCloseType, CallType DEF Read, TcpTypeOK
<1> QED  BY <1>1, <1>2 DEF Read, TcpTypeOK

LEMMA SameTcpType == TcpTypeOK /\ UNCHANGED tcpVars => TcpTypeOK'
BY DEF TcpTypeOK, ContainerTypeOK, tcpVars, containerVars, socketVars

LEMMA CloseOnlyType ==
    ASSUME TcpTypeOK, NEW s \in Sockets, NEW byApp \in BOOLEAN,
           BeginClose(s, byApp),
           UNCHANGED <<containerVars, socketVars, fdState>>
    PROVE  TcpTypeOK'
<1>1. ContainerTypeOK'
  BY SameContainerType
<1> QED  BY <1>1, BeginCloseType DEF TcpTypeOK, socketVars

LEMMA HandleReadType ==
    ASSUME TcpTypeOK, NEW s \in Sockets, HandleRead(s) PROVE TcpTypeOK'
BY AcceptType, ReadType, SameTcpType DEF HandleRead, Sessions

LEMMA HandleConnectedType ==
    ASSUME TcpTypeOK, NEW s \in Sockets, HandleConnected(s) PROVE TcpTypeOK'
<1>1. ContainerTypeOK'
  BY EventsType, ModSocketType, SameContainerType
     DEF HandleConnected, ModSocketFails
<1>2. stack' \in Seq(Frames) /\ notice' \in [Sockets -> Notices]
  BY BeginCloseType, NoCloseType DEF HandleConnected
<1>3. m_state' \in [Sockets -> States] /\ timer' \in [Sockets -> Timers]
  BY DEF HandleConnected, TcpTypeOK, States, Timers
<1> QED  BY <1>1, <1>2, <1>3 DEF HandleConnected, TcpTypeOK

LEMMA HandleWriteType ==
    ASSUME TcpTypeOK, NEW s \in Sockets, HandleWrite(s) PROVE TcpTypeOK'
<1>1. CASE HandleConnected(s)
  BY <1>1, HandleConnectedType
<1>2. CASE m_output[s] > 0 /\ Write(s, m_output[s], FALSE)
  <2>1. m_output[s] \in 1..OutCap
    BY <1>2 DEF TcpTypeOK
  <2> QED  BY <1>2, <2>1, WriteType
<1>3. CASE /\ timer' = Refreshed(s)
           /\ UNCHANGED <<containerVars, live, m_type, m_fd, m_state,
                          m_output, m_isResending, fdState, stack, notice>>
  BY <1>3, RefreshedType, SameContainerType DEF TcpTypeOK
<1>4. CASE UNCHANGED tcpVars
  BY <1>4, SameTcpType
<1> QED  BY <1>1, <1>2, <1>3, <1>4 DEF HandleWrite

LEMMA SendPacketType ==
    ASSUME TcpTypeOK, NEW s \in Sockets, SendPacket(s) PROVE TcpTypeOK'
<1>1. m_output[s] + 1 \in 1..OutCap
  BY DEF TcpTypeOK, SendPacket
<1> QED  BY <1>1, WriteType DEF SendPacket

LEMMA HandleTimeoutType ==
    ASSUME TcpTypeOK, NEW s \in Sockets, HandleTimeout(s) PROVE TcpTypeOK'
BY CloseOnlyType, SameTcpType DEF HandleTimeout

LEMMA HandleErrorType ==
    ASSUME TcpTypeOK, NEW s \in Sockets, HandleError(s) PROVE TcpTypeOK'
BY CloseOnlyType DEF HandleError

(* The methods of UdpSocket. *)
LEMMA NewUdpSocketType ==
    ASSUME TcpTypeOK, NEW st \in States, NewUdpSocket(st) PROVE TcpTypeOK'
<1>1. PICK s \in Sockets \ live, fd \in Fds :
         /\ OpenFd(fd, "up")
         /\ NewSocket(s, fd, "udp", st, "off")
         /\ \/ /\ AddSocket(s, fd, ReadEvents)
               /\ UNCHANGED <<stack, notice>>
            \/ /\ AddSocketFails
               /\ BeginClose(s, FALSE)
  BY DEF NewUdpSocket
<1>2. "udp" \in SocketTypes /\ "off" \in Timers /\ "up" \in FdStates
  BY DEF SocketTypes, Timers, FdStates
<1>3. ContainerTypeOK'
  BY <1>1, EventsType, AddSocketType, SameContainerType DEF AddSocketFails
<1>4. stack' \in Seq(Frames) /\ notice' \in [Sockets -> Notices]
  BY <1>1, BeginCloseType DEF TcpTypeOK
<1> QED  BY <1>1, <1>2, <1>3, <1>4, NewSocketType, OpenFdType DEF TcpTypeOK

LEMMA UdpReadType ==
    ASSUME TcpTypeOK, NEW s \in Sockets, UdpRead(s) PROVE TcpTypeOK'
<1>1. ContainerTypeOK' /\ timer' \in [Sockets -> Timers]
  BY SameContainerType, RefreshedType DEF UdpRead
<1>2. stack' \in Seq(Frames) /\ notice' \in [Sockets -> Notices]
  BY BeginCloseType, CallType DEF UdpRead, TcpTypeOK
<1> QED  BY <1>1, <1>2 DEF UdpRead, TcpTypeOK

LEMMA UdpSendPacketType ==
    ASSUME TcpTypeOK, NEW s \in Sockets, UdpSendPacket(s) PROVE TcpTypeOK'
<1>1. ContainerTypeOK' /\ timer' \in [Sockets -> Timers]
  BY SameContainerType, RefreshedType DEF UdpSendPacket
<1>2. stack' \in Seq(Frames) /\ notice' \in [Sockets -> Notices]
  BY NoCloseType DEF UdpSendPacket
<1> QED  BY <1>1, <1>2 DEF UdpSendPacket, TcpTypeOK

(* The virtual calls, whichever class the socket is of. *)
LEMMA VirtualType ==
    ASSUME TcpTypeOK, NEW s \in Sockets,
           OnRead(s) \/ OnWrite(s) \/ OnError(s) \/ OnTimeout(s) \/ OnSend(s)
    PROVE  TcpTypeOK'
<1>1. CASE OnRead(s)
  BY <1>1, HandleReadType, UdpReadType DEF OnRead, Virtual
<1>2. CASE OnWrite(s)
  BY <1>2, HandleWriteType, SameTcpType DEF OnWrite, Virtual, UdpHandleWrite
<1>3. CASE OnError(s)
  BY <1>3, HandleErrorType, CloseOnlyType DEF OnError, Virtual, UdpHandleError
<1>4. CASE OnTimeout(s)
  BY <1>4, HandleTimeoutType, CloseOnlyType, SameTcpType
     DEF OnTimeout, Virtual, UdpHandleTimeout
<1>5. CASE OnSend(s)
  BY <1>5, SendPacketType, UdpSendPacketType DEF OnSend, Virtual
<1> QED  BY <1>1, <1>2, <1>3, <1>4, <1>5

(* A handler call that returns leaves a stack of handler calls. *)
LEMMA PopType ==
    ASSUME stack \in Seq(Frames), stack # <<>>,
           stack' = SubSeq(stack, 1, Len(stack) - 1)
    PROVE  /\ Len(stack) \in Nat \ {0}
           /\ Top \in Frames
           /\ stack' \in Seq(Frames)
           /\ Len(stack') = Len(stack) - 1
           /\ \A i \in 1..(Len(stack) - 1) : stack'[i] = stack[i]
<1>1. Len(stack) \in Nat \ {0}
  BY EmptySeq
<1>2. \A i \in 1..Len(stack) : stack[i] \in Frames
  BY ElementOfSeq
<1>3. 1 \in Int /\ Len(stack) - 1 \in Int /\ 1 <= Len(stack)
  BY <1>1
<1>4. \A i \in 1..(Len(stack) - 1) : stack[i] \in Frames
  BY <1>1, <1>2
<1>5. /\ SubSeq(stack, 1, Len(stack) - 1) \in Seq(Frames)
      /\ Len(SubSeq(stack, 1, Len(stack) - 1))
           = IF 1 <= Len(stack) - 1 THEN (Len(stack) - 1) - 1 + 1 ELSE 0
      /\ \A i \in 1..((Len(stack) - 1) - 1 + 1) :
            SubSeq(stack, 1, Len(stack) - 1)[i] = stack[1 + i - 1]
  BY <1>3, <1>4, SubSeqProperties
<1>6. Len(stack') = Len(stack) - 1
  <2>1. ASSUME NEW n \in Nat \ {0}
        PROVE  (IF 1 <= n - 1 THEN (n - 1) - 1 + 1 ELSE 0) = n - 1
    OBVIOUS
  <2>2. Len(SubSeq(stack, 1, Len(stack) - 1)) = Len(stack) - 1
    BY <1>1, <1>5, <2>1, Zenon
  <2> QED  BY <2>2, Zenon
<1>7. ASSUME NEW i \in 1..(Len(stack) - 1) PROVE stack'[i] = stack[i]
  <2>1. i \in 1..((Len(stack) - 1) - 1 + 1) /\ 1 + i - 1 = i
    BY <1>1
  <2> QED  BY <2>1, <1>5
<1>8. Top \in Frames
  BY <1>1, <1>2 DEF Top
<1> QED  BY <1>1, <1>5, <1>6, <1>7, <1>8

(* A failed handler call is replaced by the call of HandleClose. *)
LEMMA UnpackFailedType ==
    ASSUME stack \in Seq(Frames), stack # <<>>, NEW s \in Sockets,
           notice \in [Sockets -> Notices], UnpackFailed(s)
    PROVE  /\ Len(stack) \in Nat \ {0}
           /\ Top \in Frames
           /\ stack' \in Seq(Frames)
           /\ Len(stack') = Len(stack)
           /\ stack'[Len(stack)] = [cb |-> "close", s |-> s]
           /\ \A i \in 1..(Len(stack) - 1) : stack'[i] = stack[i]
           /\ notice' \in [Sockets -> Notices]
<1>1. Len(stack) \in Nat \ {0} /\ Len(stack) \in 1..Len(stack)
  BY EmptySeq
<1>2. [cb |-> "close", s |-> s] \in Frames
  BY DEF Frames
<1>3. /\ AfterUse(notice[s]) \in Notices
      /\ AfterNotice(AfterUse(notice[s])) \in Notices
  BY NoticeType
<1>4. Top \in Frames
  BY <1>1, ElementOfSeq DEF Top
<1> QED  BY <1>1, <1>2, <1>3, <1>4 DEF UnpackFailed

LEMMA FinishCloseType ==
    ASSUME TcpTypeOK, NEW s \in Sockets, FinishClose(s),
           stack' \in Seq(Frames)
    PROVE  TcpTypeOK'
<1>1. ContainerTypeOK'
  <2>1. CASE m_fd[s] \in Fds
    <3>1. m_socketMap' \in [Fds -> Sockets \cup {NoSocket}]
      BY <2>1 DEF TcpTypeOK, ContainerTypeOK, FinishClose, DelSocket,
                  Deregister
    <3>2. m_closeSockets' \subseteq Sockets /\ m_socketNum' \in Int
      BY <2>1 DEF TcpTypeOK, ContainerTypeOK, FinishClose, DelSocket,
                  Deregister
    <3>3. interest' \in [Fds -> SUBSET Events]
      BY <2>1 DEF TcpTypeOK, ContainerTypeOK, FinishClose, DelSocket,
                  Deregister
    <3> QED  BY <3>1, <3>2, <3>3 DEF ContainerTypeOK
  <2>2. CASE m_fd[s] \notin Fds
    BY <2>2 DEF TcpTypeOK, ContainerTypeOK, FinishClose, DelSocket, Deregister
  <2> QED  BY <2>1, <2>2
<1>2. fdState' \in [Fds -> FdStates]
  BY DEF TcpTypeOK, FinishClose, CloseFd, FdStates
<1>3. /\ m_fd' \in [Sockets -> Fds \cup {NoFd}]
      /\ m_state' \in [Sockets -> States]
      /\ timer' \in [Sockets -> Timers]
  BY DEF TcpTypeOK, FinishClose, ResetFd, ResetState, States, Timers
<1> QED  BY <1>1, <1>2, <1>3 DEF TcpTypeOK, FinishClose, ResetState

-----------------------------------------------------------------------------
(* The loop.  TypeOK alone is not inductive: that the iterator of the scan  *)
(* designates an entry when it is used, and that the scan stays within its  *)
(* limit, hold only because no handler runs between the loop's test and     *)
(* the use of what was tested.                                              *)

LoopInv ==
    /\ phase \in {"scan", "wait"} => stack = <<>>
    /\ phase = "scan" => itr \in Registered \cup {EndItr}
    /\ phase = "advance" => itr \in Fds /\ checkCnt < ScanLimit
    /\ pendingWrite # NoSocket => phase = "dispatch"

TypeInv == TypeOK /\ LoopInv

LEMMA InitType == Init => TypeInv
<1> SUFFICES ASSUME Init PROVE TypeInv
  OBVIOUS
<1>1. <<>> \in Seq(Frames)
  OBVIOUS
<1>2. TcpTypeOK
  <2>1. ContainerTypeOK
    BY DEF Init, TcpInit, ContainerInit, ContainerTypeOK
  <2>2. /\ live \subseteq Sockets
        /\ m_type \in [Sockets -> SocketTypes]
        /\ m_fd \in [Sockets -> Fds \cup {NoFd}]
        /\ m_output \in [Sockets -> 0..OutCap]
        /\ m_isResending \in [Sockets -> BOOLEAN]
    BY DEF Init, TcpInit, SocketTypes
  <2>3. /\ m_state \in [Sockets -> States]
        /\ timer \in [Sockets -> Timers]
        /\ fdState \in [Fds -> FdStates]
        /\ notice \in [Sockets -> Notices]
    BY DEF Init, TcpInit, States, Timers, FdStates, Notices
  <2>4. stack \in Seq(Frames)
    BY <1>1 DEF Init, TcpInit
  <2> QED  BY <2>1, <2>2, <2>3, <2>4 DEF TcpTypeOK
<1>3. TypeOK
  <2>1. batch \in [Fds -> SUBSET Events]
    BY DEF Init, NoEvents
  <2>2. phase \in Phases /\ checkCnt \in 0..ScanLimit /\ calls \in 0..MaxCalls
    BY DEF Init, Phases
  <2> QED  BY <1>2, <2>1, <2>2 DEF Init, TypeOK
<1> QED  BY <1>3 DEF TypeInv, LoopInv, Init

(* Where the application runs, the loop is not between a test and its use. *)
LEMMA AppStepType ==
    ASSUME TypeInv, AppMayCall, calls' = calls + 1, UNCHANGED loopVars,
           TcpTypeOK'
    PROVE  TypeInv'
<1>1. phase \notin {"scan", "wait"}
  BY DEF TypeInv, LoopInv, AppMayCall
<1>2. calls' \in 0..MaxCalls
  BY DEF TypeInv, TypeOK, AppMayCall
<1> QED  BY <1>1, <1>2 DEF TypeInv, TypeOK, LoopInv, loopVars

LEMMA AppType == TypeInv /\ App => TypeInv'
<1> SUFFICES ASSUME TypeInv, App PROVE TypeInv'
  OBVIOUS
<1> USE AppStepType
<1>0. TcpTypeOK
  BY DEF TypeInv, TypeOK
<1>1. CASE AppListen
  <2>1. Listen
    BY <1>1 DEF AppListen, AppCall
  <2> QED  BY <1>0, <1>1, <2>1, ListenType DEF AppListen, AppCall
<1>2. CASE AppConnect
  <2>1. Connect
    BY <1>2 DEF AppConnect, AppCall
  <2> QED  BY <1>0, <1>2, <2>1, ConnectType DEF AppConnect, AppCall
<1>3. CASE AppLeak
  <2>1. LeakFd
    BY <1>3 DEF AppLeak, AppCall
  <2> QED  BY <1>0, <1>3, <2>1, LeakFdType DEF AppLeak, AppCall
<1>4. ASSUME NEW s \in Sockets, AppSend(s) PROVE TypeInv'
  <2>1. OnSend(s)
    BY <1>4 DEF AppSend, AppCall
  <2> QED  BY <1>0, <1>4, <2>1, VirtualType DEF AppSend, AppCall
<1>5. ASSUME NEW s \in Sockets, AppClose(s) PROVE TypeInv'
  <2>1. BeginClose(s, TRUE) /\ UNCHANGED <<containerVars, socketVars, fdState>>
    BY <1>5 DEF AppClose, AppCall
  <2>2. TcpTypeOK'
    BY <1>0, <2>1, CloseOnlyType
  <2> QED  BY <1>5, <2>2 DEF AppClose, AppCall
<1>6. ASSUME NEW s \in Sockets, AppSetTimeout(s) PROVE TypeInv'
  <2>1. /\ \E t \in Timers : timer' = [timer EXCEPT ![s] = t]
        /\ UNCHANGED <<containerVars, live, m_type, m_fd, m_state, m_output,
                       m_isResending, fdState, stack, notice>>
    BY <1>6 DEF AppSetTimeout, AppCall
  <2>2. TcpTypeOK'
    BY <1>0, <2>1, SameContainerType DEF TcpTypeOK
  <2> QED  BY <1>6, <2>2 DEF AppSetTimeout, AppCall
<1>7. CASE AppUdpListen \/ AppUdpConnect
  <2>1. \E st \in States : NewUdpSocket(st)
    BY <1>7 DEF AppUdpListen, AppUdpConnect, AppCall, UdpListen, UdpConnect,
                States
  <2>2. TcpTypeOK'
    BY <1>0, <2>1, NewUdpSocketType
  <2> QED  BY <1>7, <2>2 DEF AppUdpListen, AppUdpConnect, AppCall
<1> QED  BY <1>1, <1>2, <1>3, <1>4, <1>5, <1>6, <1>7 DEF App

LEMMA ReturnType == TypeInv /\ HandlerReturns => TypeInv'
<1> SUFFICES ASSUME TypeInv, HandlerReturns PROVE TypeInv'
  OBVIOUS
<1>0. stack \in Seq(Frames) /\ TcpTypeOK
  BY DEF TypeInv, TypeOK, TcpTypeOK
<1>1. phase \notin {"scan", "wait"}
  BY DEF TypeInv, LoopInv, HandlerReturns, PacketReturns, CloseReturns
<1>2. stack # <<>> /\ Top \in Frames
  <2>1. stack # <<>>
    BY DEF HandlerReturns, PacketReturns, CloseReturns
  <2>2. Len(stack) \in 1..Len(stack)
    BY <1>0, <2>1, EmptySeq
  <2> QED  BY <1>0, <2>1, <2>2, ElementOfSeq DEF Top
<1>3. CASE PacketReturns
  <2>1. stack' \in Seq(Frames) /\ notice' \in [Sockets -> Notices]
    <3>1. Top.s \in Sockets /\ notice \in [Sockets -> Notices]
      BY <1>0, <1>2 DEF Frames, TcpTypeOK
    <3> QED  BY <1>0, <1>2, <1>3, <3>1, PopType, UnpackFailedType
             DEF PacketReturns
  <2>2. TcpTypeOK'
    BY <1>0, <1>3, <2>1, SameContainerType
       DEF PacketReturns, TcpTypeOK, socketVars
  <2> QED  BY <1>1, <1>3, <2>2
           DEF PacketReturns, TypeInv, TypeOK, LoopInv, loopVars
<1>4. CASE CloseReturns
  <2>1. Top.s \in Sockets
    BY <1>2 DEF Frames
  <2>2. TcpTypeOK'
    BY <1>0, <1>2, <1>4, <2>1, PopType, FinishCloseType DEF CloseReturns
  <2>3. itrErased' \in BOOLEAN
    BY <1>4 DEF CloseReturns, TypeInv, TypeOK
  <2> QED  BY <1>1, <1>4, <2>2, <2>3 DEF CloseReturns, TypeInv, TypeOK, LoopInv
<1> QED  BY <1>3, <1>4 DEF HandlerReturns

LEMMA EnvironmentType == TypeInv /\ (Net \/ Clock) => TypeInv'
<1> SUFFICES ASSUME TypeInv, Net \/ Clock PROVE TypeInv'
  OBVIOUS
<1>1. CASE Net
  <2>1. fdState' \in [Fds -> FdStates]
    BY <1>1 DEF Net, NetEstablish, NetRefuse, TypeInv, TypeOK, TcpTypeOK,
                FdStates
  <2>2. UNCHANGED <<containerVars, socketVars, stack, notice, loopVars, calls>>
    BY <1>1 DEF Net, NetEstablish, NetRefuse
  <2> QED  BY <2>1, <2>2
           DEF TypeInv, TypeOK, TcpTypeOK, ContainerTypeOK, LoopInv,
               Registered, containerVars, socketVars, loopVars
<1>2. CASE Clock
  <2>1. timer' \in [Sockets -> Timers]
    BY <1>2 DEF Clock, TimePasses, TypeInv, TypeOK, TcpTypeOK, Timers
  <2>2. UNCHANGED <<containerVars, live, m_type, m_fd, m_state, m_output,
                    m_isResending, fdState, stack, notice, loopVars, calls>>
    BY <1>2 DEF Clock, TimePasses
  <2> QED  BY <2>1, <2>2
           DEF TypeInv, TypeOK, TcpTypeOK, ContainerTypeOK, LoopInv,
               Registered, containerVars, loopVars
<1> QED  BY <1>1, <1>2

LEMMA LoopType == TypeInv /\ Loop => TypeInv'
<1> SUFFICES ASSUME TypeInv, Loop PROVE TypeInv'
  OBVIOUS
<1>0. TcpTypeOK /\ TypeOK /\ stack \in Seq(Frames)
  BY DEF TypeInv, TypeOK, TcpTypeOK
<1>1. CASE HandleSockets
  <2>1. ContainerTypeOK'
    BY <1>0, <1>1 DEF HandleSockets, ClearCloseSockets, TcpTypeOK,
                      ContainerTypeOK
  <2>2. TcpTypeOK'
    BY <1>0, <1>1, <2>1 DEF HandleSockets, TcpTypeOK, Notices, SocketTypes
  <2>3. itr' \in Registered' \cup {EndItr}
    BY <1>1 DEF HandleSockets, ClearCloseSockets, IsUpperBound, Registered
  <2>4. stack' = <<>>
    BY <1>1 DEF HandleSockets, AtLoop
  <2> QED  BY <1>0, <1>1, <2>2, <2>3, <2>4
           DEF HandleSockets, AtLoop, TypeInv, TypeOK, LoopInv, Phases, Registered
<1>2. CASE ScanSocket
  <2>1. itr \in Fds /\ m_socketMap[itr] \in Sockets /\ checkCnt < ScanLimit
    BY <1>0, <1>2 DEF ScanSocket, AtLoop, TypeInv, LoopInv, Registered,
                      TcpTypeOK, ContainerTypeOK
  <2>2. TcpTypeOK'
    BY <1>0, <1>2, <2>1, VirtualType DEF ScanSocket
  <2> QED  BY <1>0, <1>2, <2>1, <2>2
           DEF ScanSocket, AtLoop, TypeInv, TypeOK, LoopInv, Phases
<1>3. CASE ScanAdvance
  <2>1. TcpTypeOK'
    BY <1>0, <1>3, SameTcpType DEF ScanAdvance
  <2>2. itr' \in Registered' \cup {EndItr} /\ stack' = <<>>
    BY <1>3 DEF ScanAdvance, AtLoop, IsUpperBound, Registered, tcpVars,
                containerVars
  <2>3. checkCnt' \in 0..ScanLimit
    BY <1>0, <1>3 DEF ScanAdvance, AtLoop, TypeInv, LoopInv, TypeOK
  <2> QED  BY <1>0, <1>3, <2>1, <2>2, <2>3
           DEF ScanAdvance, AtLoop, TypeInv, TypeOK, LoopInv, Phases, Registered
<1>4. CASE ScanAdvanceErased
  <2>1. TcpTypeOK'
    BY <1>0, <1>4, SameTcpType DEF ScanAdvanceErased
  <2>2. itr' \in Registered' \cup {EndItr} /\ stack' = <<>>
    BY <1>4 DEF ScanAdvanceErased, AtLoop, Registered, tcpVars, containerVars
  <2>3. checkCnt' \in 0..ScanLimit
    BY <1>0, <1>4 DEF ScanAdvanceErased, AtLoop, TypeInv, LoopInv, TypeOK
  <2>4. phase' \in {"scan", "crashed"}
    BY <1>4 DEF ScanAdvanceErased
  <2> QED  BY <1>0, <1>4, <2>1, <2>2, <2>3, <2>4
           DEF ScanAdvanceErased, AtLoop, TypeInv, TypeOK, LoopInv, Phases, Registered
<1>5. CASE ScanEnd
  <2>1. TcpTypeOK' /\ stack' = <<>>
    BY <1>0, <1>5, SameTcpType DEF ScanEnd, AtLoop, tcpVars
  <2> QED  BY <1>0, <1>5, <2>1 DEF ScanEnd, AtLoop, TypeInv, TypeOK, LoopInv, Phases
<1>6. CASE EpollWait
  <2>1. TcpTypeOK'
    BY <1>0, <1>6, SameTcpType DEF EpollWait
  <2> QED  BY <1>0, <1>6, <2>1 DEF EpollWait, AtLoop, TypeInv, TypeOK, LoopInv, Phases
<1>7. ASSUME NEW fd \in Fds, DispatchEvent(fd) PROVE TypeInv'
  <2>1. TcpTypeOK' /\ pendingWrite' \in Sockets \cup {NoSocket}
    <3>1. m_socketMap[fd] \in Sockets \cup {NoSocket}
      BY <1>0 DEF TcpTypeOK, ContainerTypeOK
    <3>2. pendingWrite \in Sockets \cup {NoSocket}
      BY <1>0 DEF TypeOK
    <3> QED  BY <1>0, <1>7, <3>1, <3>2, SameTcpType, VirtualType
             DEF DispatchEvent
  <2>2. batch' \in [Fds -> SUBSET Events]
    BY <1>0, <1>7 DEF DispatchEvent, TypeOK
  <2>3. phase = "dispatch" /\ phase' = phase
    BY <1>7 DEF DispatchEvent, AtLoop
  <2> QED  BY <1>0, <1>7, <2>1, <2>2, <2>3
           DEF DispatchEvent, AtLoop, TypeInv, TypeOK, LoopInv
<1>8. CASE DispatchWrite
  <2>1. pendingWrite \in Sockets
    BY <1>0, <1>8 DEF DispatchWrite, TypeOK
  <2>2. TcpTypeOK'
    BY <1>0, <1>8, <2>1, VirtualType DEF DispatchWrite
  <2> QED  BY <1>0, <1>8, <2>2
           DEF DispatchWrite, AtLoop, TypeInv, TypeOK, LoopInv
<1>9. CASE DispatchEnd
  <2>1. TcpTypeOK'
    BY <1>0, <1>9, SameTcpType DEF DispatchEnd
  <2> QED  BY <1>0, <1>9, <2>1 DEF DispatchEnd, AtLoop, TypeInv, TypeOK, LoopInv, Phases
<1> QED  BY <1>1, <1>2, <1>3, <1>4, <1>5, <1>6, <1>7, <1>8, <1>9 DEF Loop

LEMMA SameType == TypeInv /\ UNCHANGED vars => TypeInv'
BY DEF TypeInv, TypeOK, LoopInv, TcpTypeOK, ContainerTypeOK, Registered,
       vars, tcpVars, containerVars, socketVars, loopVars

LEMMA NextType == TypeInv /\ [Next]_vars => TypeInv'
BY AppType, ReturnType, EnvironmentType, LoopType, SameType DEF Next, Halted

(* Every variable keeps its type.  The scan's iterator designates an entry *)
(* of m_socketMap whenever CheckTimeoutSocket follows it, so that the call *)
(* of HandleTimeout through it is one on a socket.                         *)
THEOREM TypeInvariant == Spec => []TypeInv
<1>1. Init => TypeInv
  BY InitType
<1>2. TypeInv /\ [Next]_vars => TypeInv'
  BY NextType
<1> QED  BY <1>1, <1>2, PTL DEF Spec

(* The event loop is type correct. *)
THEOREM TypeCorrect == Spec => []TypeOK
<1>1. TypeInv => TypeOK
  BY DEF TypeInv
<1> QED  BY <1>1, TypeInvariant, PTL
=============================================================================
