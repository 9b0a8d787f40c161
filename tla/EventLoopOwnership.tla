------------------------- MODULE EventLoopOwnership -------------------------
(***************************************************************************)
(* Who owns what in EventLoop: proofs that sockets, descriptors, registry  *)
(* entries and the kernel's interest list stay in step, and that the loop  *)
(* implements SocketLifecycle, for every value of the constants.           *)
(*                                                                         *)
(* The argument does not go action by action.  Every step of the program   *)
(* does one of five things to the owners: nothing (perhaps starting a      *)
(* handler call), returning from HandlePacket, creating a socket,          *)
(* finishing Close of one, or deleting the closed ones.  The first part    *)
(* says so of every action, the second that each of the five preserves the *)
(* invariant.                                                              *)
(***************************************************************************)
EXTENDS EventLoopProofs

USE ContainerAssumption DEF ContainerAssumption

Held(fd) == fdState[fd] \notin {"closed", "orphan"}

(* Nothing changes hands: at most what a descriptor is watched for, or how  *)
(* far its connection has come.                                             *)
SameOwners ==
    /\ UNCHANGED <<m_socketMap, m_closeSockets, m_socketNum, live, m_fd>>
    /\ \A fd \in Fds : interest'[fd] = {} <=> interest[fd] = {}
    /\ \A fd \in Fds : Held(fd)' <=> Held(fd)

Pushed(s) == \E cb \in {"packet", "close"} : Call(cb, s)

Quiet ==
    /\ SameOwners
    /\ UNCHANGED stack \/ \E s \in live : Pushed(s)

Created(s, fd) ==
    /\ s \in Sockets \ live
    /\ fd \in Fds
    /\ ~ Held(fd)
    /\ live' = live \cup {s}
    /\ m_fd' = [m_fd EXCEPT ![s] = fd]
    /\ Held(fd)'
    /\ \A g \in Fds \ {fd} : fdState'[g] = fdState[g]
    /\ \/ \E events \in (SUBSET Events) \ {{}} :
             /\ AddSocket(s, fd, events)
             /\ UNCHANGED stack \/ Call("close", s)
       \/ /\ AddSocketFails
          /\ Call("close", s)

TcpStep == Quiet \/ \E s, fd : Created(s, fd)

-----------------------------------------------------------------------------
(* The methods of TcpSocket, on a socket that exists. *)

LEMMA ModSocketKeeps ==
    ASSUME TcpTypeOK, NEW fd, NEW events \in (SUBSET Events) \ {{}},
           ModSocket(fd, events)
    PROVE  /\ UNCHANGED <<m_socketMap, m_closeSockets, m_socketNum>>
           /\ \A g \in Fds : interest'[g] = {} <=> interest[g] = {}
BY DEF ModSocket, TcpTypeOK, ContainerTypeOK

LEMMA SameContainerKeeps ==
    ASSUME UNCHANGED containerVars
    PROVE  /\ UNCHANGED <<m_socketMap, m_closeSockets, m_socketNum>>
           /\ \A g \in Fds : interest'[g] = {} <=> interest[g] = {}
BY DEF containerVars

LEMMA BeginClosePushes ==
    ASSUME NEW s \in live, NEW byApp \in BOOLEAN,
           BeginClose(s, byApp) \/ NoClose(s, byApp)
    PROVE  UNCHANGED stack \/ \E t \in live : Pushed(t)
BY DEF BeginClose, NoClose, Pushed

LEMMA WriteQuiet ==
    ASSUME TcpTypeOK, NEW s \in live, NEW queued, NEW byApp \in BOOLEAN,
           Write(s, queued, byApp)
    PROVE  Quiet
<1>1. /\ UNCHANGED <<m_socketMap, m_closeSockets, m_socketNum>>
      /\ \A g \in Fds : interest'[g] = {} <=> interest[g] = {}
  BY EventsType, ModSocketKeeps, SameContainerKeeps
     DEF Write, SendAll, SendBlocked, SendFails, ModSocketFails
<1>2. UNCHANGED stack \/ \E t \in live : Pushed(t)
  BY BeginClosePushes DEF Write, SendAll, SendBlocked, SendFails
<1> QED  BY <1>1, <1>2 DEF Write, Quiet, SameOwners, Held

LEMMA CloseOnlyQuiet ==
    ASSUME NEW s \in live, NEW byApp \in BOOLEAN, BeginClose(s, byApp),
           UNCHANGED <<containerVars, socketVars, fdState>>
    PROVE  Quiet
<1>1. UNCHANGED stack \/ \E t \in live : Pushed(t)
  BY BeginClosePushes
<1> QED  BY <1>1, SameContainerKeeps DEF Quiet, SameOwners, Held, socketVars

LEMMA SameTcpQuiet == UNCHANGED tcpVars => Quiet
BY SameContainerKeeps DEF Quiet, SameOwners, Held, tcpVars, socketVars

LEMMA OpenFdHolds ==
    ASSUME TcpTypeOK, NEW fd \in Fds, IsNewFd(fd),
           NEW st \in {"listen", "up", "syn", "down"}, OpenFd(fd, st)
    PROVE  /\ ~ Held(fd)
           /\ Held(fd)'
           /\ \A g \in Fds \ {fd} : fdState'[g] = fdState[g]
BY DEF TcpTypeOK, IsNewFd, OpenFd, Held

LEMMA LeakFdQuiet == TcpTypeOK /\ LeakFd => Quiet
<1> SUFFICES ASSUME TcpTypeOK, LeakFd PROVE Quiet
  OBVIOUS
<1>1. \A fd \in Fds : Held(fd)' <=> Held(fd)
  BY DEF TcpTypeOK, LeakFd, IsNewFd, OpenFd, Held
<1> QED  BY <1>1, SameContainerKeeps DEF LeakFd, Quiet, SameOwners, socketVars

LEMMA ListenCreates ==
    ASSUME TcpTypeOK, Listen PROVE \E s, fd : Created(s, fd)
<1>1. PICK s \in Sockets \ live, fd \in Fds :
         /\ IsNewFd(fd)
         /\ OpenFd(fd, "listen")
         /\ NewSocket(s, fd, "tcp", "listen", "off")
         /\ \/ /\ AddSocket(s, fd, ReadEvents)
               /\ UNCHANGED <<stack, notice>>
            \/ /\ AddSocketFails
               /\ BeginClose(s, FALSE)
  BY DEF Listen
<1>2. Created(s, fd)
  BY <1>1, OpenFdHolds, EventsType DEF Created, NewSocket, BeginClose
<1> QED  BY <1>2

LEMMA ConnectCreates ==
    ASSUME TcpTypeOK, Connect PROVE \E s, fd : Created(s, fd)
<1>1. PICK s \in Sockets \ live, fd \in Fds :
       /\ IsNewFd(fd)
       /\ \/ /\ OpenFd(fd, "up")
             /\ NewSocket(s, fd, "tcp", "connected", "off")
             /\ AddSocket(s, fd, ReadEvents)
             /\ UNCHANGED <<stack, notice>>
          \/ /\ OpenFd(fd, "syn")
             /\ NewSocket(s, fd, "tcp", "connecting", "fresh")
             /\ AddSocket(s, fd, ReadWriteEvents)
             /\ UNCHANGED <<stack, notice>>
          \/ /\ \E st \in {"up", "syn", "down"} : OpenFd(fd, st)
             /\ NewSocket(s, fd, "tcp", "close", "off")
             /\ AddSocketFails
             /\ BeginClose(s, FALSE)
  BY DEF Connect
<1>2. /\ ~ Held(fd)
      /\ Held(fd)'
      /\ \A g \in Fds \ {fd} : fdState'[g] = fdState[g]
  BY <1>1, OpenFdHolds
<1>3. Created(s, fd)
  BY <1>1, <1>2, EventsType DEF Created, NewSocket, BeginClose
<1> QED  BY <1>3

LEMMA AcceptSteps ==
    ASSUME TcpTypeOK, NEW l \in live, Accept(l) PROVE TcpStep
<1>1. CASE AcceptFails(l)
  <2>1. \A fd \in Fds : Held(fd)' <=> Held(fd)
    BY <1>1 DEF TcpTypeOK, AcceptFails, IsNewFd, OpenFd, Held
  <2>2. UNCHANGED stack \/ \E t \in live : Pushed(t)
    BY <1>1, BeginClosePushes DEF AcceptFails
  <2> QED  BY <1>1, <2>1, <2>2, SameContainerKeeps
           DEF AcceptFails, TcpStep, Quiet, SameOwners, socketVars
<1>2. CASE Accepts
  <2>1. PICK s \in Sockets \ live, fd \in Fds :
           /\ IsNewFd(fd)
           /\ OpenFd(fd, "up")
           /\ NewSocket(s, fd, "tcp", "accept", "fresh")
           /\ \/ /\ AddSocket(s, fd, ReadEvents)
                 /\ UNCHANGED <<stack, notice>>
              \/ /\ AddSocket(s, fd, ReadEvents)
                 /\ BeginClose(s, FALSE)
              \/ /\ AddSocketFails
                 /\ BeginClose(s, FALSE)
    BY <1>2 DEF Accepts
  <2>2. Created(s, fd)
    BY <2>1, OpenFdHolds, EventsType DEF Created, NewSocket, BeginClose
  <2> QED  BY <2>2 DEF TcpStep
<1> QED  BY <1>1, <1>2 DEF Accept

LEMMA ReadQuiet ==
    ASSUME NEW s \in live, Read(s) PROVE Quiet
<1>1. UNCHANGED stack \/ \E t \in live : Pushed(t)
  BY BeginClosePushes DEF Read, Pushed
<1> QED  BY <1>1, SameContainerKeeps DEF Read, Quiet, SameOwners, Held

LEMMA HandleReadSteps ==
    ASSUME TcpTypeOK, NEW s \in live, HandleRead(s) PROVE TcpStep
BY AcceptSteps, ReadQuiet, SameTcpQuiet DEF HandleRead, TcpStep, Sessions

LEMMA HandleWriteQuiet ==
    ASSUME TcpTypeOK, NEW s \in live, HandleWrite(s) PROVE Quiet
<1>1. CASE HandleConnected(s)
  <2>1. /\ UNCHANGED <<m_socketMap, m_closeSockets, m_socketNum>>
        /\ \A g \in Fds : interest'[g] = {} <=> interest[g] = {}
    BY <1>1, EventsType, ModSocketKeeps, SameContainerKeeps
       DEF HandleConnected, ModSocketFails
  <2>2. UNCHANGED stack \/ \E t \in live : Pushed(t)
    BY <1>1, BeginClosePushes DEF HandleConnected
  <2> QED  BY <1>1, <2>1, <2>2 DEF HandleConnected, Quiet, SameOwners, Held
<1>2. CASE Write(s, m_output[s], FALSE)
  BY <1>2, WriteQuiet
<1>3. CASE UNCHANGED <<containerVars, live, m_type, m_fd, m_state, m_output,
                       m_isResending, fdState, stack, notice>>
  BY <1>3, SameContainerKeeps DEF Quiet, SameOwners, Held
<1>4. CASE UNCHANGED tcpVars
  BY <1>4, SameTcpQuiet
<1> QED  BY <1>1, <1>2, <1>3, <1>4 DEF HandleWrite

(* The methods of UdpSocket, and the virtual calls. *)
LEMMA UdpCreates ==
    ASSUME TcpTypeOK, NEW st, NewUdpSocket(st)
    PROVE  \E s, fd : Created(s, fd)
<1>1. PICK s \in Sockets \ live, fd \in Fds :
         /\ IsNewFd(fd)
         /\ OpenFd(fd, "up")
         /\ NewSocket(s, fd, "udp", st, "off")
         /\ \/ /\ AddSocket(s, fd, ReadEvents)
               /\ UNCHANGED <<stack, notice>>
            \/ /\ AddSocketFails
               /\ BeginClose(s, FALSE)
  BY DEF NewUdpSocket
<1>2. Created(s, fd)
  BY <1>1, OpenFdHolds, EventsType DEF Created, NewSocket, BeginClose
<1> QED  BY <1>2

LEMMA UdpReadQuiet ==
    ASSUME NEW s \in live, UdpRead(s) PROVE Quiet
<1>1. UNCHANGED stack \/ \E t \in live : Pushed(t)
  BY BeginClosePushes DEF UdpRead, Pushed
<1> QED  BY <1>1, SameContainerKeeps DEF UdpRead, Quiet, SameOwners, Held

LEMMA UdpSendPacketQuiet ==
    ASSUME NEW s \in live, UdpSendPacket(s) PROVE Quiet
<1>1. UNCHANGED stack \/ \E t \in live : Pushed(t)
  BY BeginClosePushes DEF UdpSendPacket
<1> QED  BY <1>1, SameContainerKeeps
         DEF UdpSendPacket, Quiet, SameOwners, Held

LEMMA OnReadSteps ==
    ASSUME TcpTypeOK, NEW s \in live, OnRead(s) PROVE TcpStep
BY HandleReadSteps, UdpReadQuiet DEF OnRead, Virtual, TcpStep

LEMMA VirtualQuiet ==
    ASSUME TcpTypeOK, NEW s \in live,
           OnWrite(s) \/ OnError(s) \/ OnTimeout(s) \/ OnSend(s)
    PROVE  Quiet
<1>1. CASE OnWrite(s)
  BY <1>1, HandleWriteQuiet, SameTcpQuiet DEF OnWrite, Virtual, UdpHandleWrite
<1>2. CASE OnError(s)
  BY <1>2, CloseOnlyQuiet DEF OnError, Virtual, HandleError, UdpHandleError
<1>3. CASE OnTimeout(s)
  BY <1>3, CloseOnlyQuiet, SameTcpQuiet
     DEF OnTimeout, Virtual, HandleTimeout, UdpHandleTimeout
<1>4. CASE OnSend(s)
  BY <1>4, WriteQuiet, UdpSendPacketQuiet DEF OnSend, Virtual, SendPacket
<1> QED  BY <1>1, <1>2, <1>3, <1>4

-----------------------------------------------------------------------------
(* Handler calls that begin and return. *)

LEMMA PushFrame ==
    ASSUME stack \in Seq(Frames), NEW s \in Sockets,
           NEW cb \in {"packet", "close"}, Call(cb, s)
    PROVE  /\ \A i \in DOMAIN stack' :
                 \/ i \in DOMAIN stack /\ stack'[i] = stack[i]
                 \/ stack'[i] = [cb |-> cb, s |-> s]
           /\ \A i \in DOMAIN stack :
                 i \in DOMAIN stack' /\ stack'[i] = stack[i]
           /\ \E i \in DOMAIN stack' : stack'[i] = [cb |-> cb, s |-> s]
<1> DEFINE f == [cb |-> cb, s |-> s]
<1>1. f \in Frames
  BY DEF Frames
<1>2. /\ stack' = Append(stack, f)
      /\ Len(stack) \in Nat
      /\ DOMAIN stack = 1..Len(stack)
  BY LenProperties DEF Call
<1> HIDE DEF f
<1>3. /\ stack' \in Seq(Frames)
      /\ Len(stack') = Len(stack) + 1
      /\ \A i \in 1..Len(stack) : stack'[i] = stack[i]
      /\ stack'[Len(stack) + 1] = f
  BY <1>1, <1>2, AppendProperties
<1>4. DOMAIN stack' = 1..(Len(stack) + 1)
  BY <1>3, LenProperties
<1> QED  BY <1>2, <1>3, <1>4 DEF f

LEMMA PopFrame ==
    ASSUME stack \in Seq(Frames), stack # <<>>,
           stack' = SubSeq(stack, 1, Len(stack) - 1)
    PROVE  /\ \A i \in DOMAIN stack' : i \in DOMAIN stack /\ stack'[i] = stack[i]
           /\ \A i \in DOMAIN stack :
                 stack[i] = Top \/ (i \in DOMAIN stack' /\ stack'[i] = stack[i])
           /\ \E i \in DOMAIN stack : stack[i] = Top
<1>1. /\ Len(stack) \in Nat \ {0}
      /\ stack' \in Seq(Frames)
      /\ Len(stack') = Len(stack) - 1
      /\ \A i \in 1..(Len(stack) - 1) : stack'[i] = stack[i]
  BY PopType
<1>2. DOMAIN stack = 1..Len(stack) /\ DOMAIN stack' = 1..(Len(stack) - 1)
  BY <1>1, LenProperties
<1> QED  BY <1>1, <1>2 DEF Top

LEMMA FailedFrame ==
    ASSUME TcpTypeOK, stack # <<>>, UnpackFailed(Top.s)
    PROVE  /\ DOMAIN stack' = DOMAIN stack
           /\ Top \in Frames
           /\ \A i \in DOMAIN stack :
                 \/ stack'[i] = stack[i]
                 \/ /\ stack[i] = Top
                    /\ stack'[i] = [cb |-> "close", s |-> Top.s]
           /\ \E i \in DOMAIN stack :
                 /\ stack[i] = Top
                 /\ stack'[i] = [cb |-> "close", s |-> Top.s]
<1>1. /\ stack \in Seq(Frames) /\ Len(stack) \in 1..Len(stack)
      /\ notice \in [Sockets -> Notices]
  BY EmptySeq DEF TcpTypeOK
<1>2. Top.s \in Sockets
  <2>1. Top \in Frames
    BY <1>1, ElementOfSeq DEF Top
  <2> QED  BY <2>1 DEF Frames
<1>3. /\ Len(stack) \in Nat \ {0}
      /\ Top \in Frames
      /\ stack' \in Seq(Frames)
      /\ Len(stack') = Len(stack)
      /\ stack'[Len(stack)] = [cb |-> "close", s |-> Top.s]
      /\ \A i \in 1..(Len(stack) - 1) : stack'[i] = stack[i]
  BY <1>1, <1>2, UnpackFailedType
<1>4. DOMAIN stack = 1..Len(stack) /\ DOMAIN stack' = 1..Len(stack)
  BY <1>1, <1>3, LenProperties
<1> QED  BY <1>1, <1>3, <1>4 DEF Top

-----------------------------------------------------------------------------
(* The owners.  The last part, which no run needs to name, is why a socket  *)
(* whose Close is entered twice gives back one descriptor only.             *)

ClosedHasNoFd == \A s \in m_closeSockets : m_fd[s] = NoFd

OwnInv ==
    /\ RegisteredSocketOwnsFd
    /\ FdOwnership
    /\ NoDanglingSocket
    /\ NoLostSocket
    /\ ClosedHasNoFd

OwnStep ==
    \/ TcpStep /\ pendingWrite' \in live \cup {NoSocket}
    \/ PacketReturns
    \/ CloseReturns
    \/ HandleSockets

LEMMA AppOwns ==
    ASSUME TypeInv, OwnInv, App PROVE OwnStep
<1>0. TcpTypeOK /\ pendingWrite \in live \cup {NoSocket}
  BY DEF TypeInv, TypeOK, OwnInv, NoDanglingSocket
<1>1. UNCHANGED pendingWrite
  BY DEF App, AppListen, AppConnect, AppUdpListen, AppUdpConnect, AppLeak,
         AppSend, AppClose, AppSetTimeout, AppCall, loopVars
<1>2. TcpStep
  <2>1. CASE AppListen
    BY <1>0, <2>1, ListenCreates DEF AppListen, AppCall, TcpStep
  <2>2. CASE AppConnect
    BY <1>0, <2>2, ConnectCreates DEF AppConnect, AppCall, TcpStep
  <2>3. CASE AppLeak
    BY <1>0, <2>3, LeakFdQuiet DEF AppLeak, AppCall, TcpStep
  <2>4. ASSUME NEW s \in Sockets, AppSend(s) PROVE TcpStep
    BY <1>0, <2>4, VirtualQuiet DEF AppSend, AppCall, TcpStep
  <2>5. ASSUME NEW s \in Sockets, AppClose(s) PROVE TcpStep
    BY <1>0, <2>5, CloseOnlyQuiet DEF AppClose, AppCall, TcpStep
  <2>6. ASSUME NEW s \in Sockets, AppSetTimeout(s) PROVE TcpStep
    <3>1. UNCHANGED <<containerVars, live, m_fd, fdState, stack>>
      BY <2>6 DEF AppSetTimeout, AppCall
    <3> QED  BY <3>1, SameContainerKeeps DEF TcpStep, Quiet, SameOwners, Held
  <2>7. CASE AppUdpListen \/ AppUdpConnect
    BY <1>0, <2>7, UdpCreates
       DEF AppUdpListen, AppUdpConnect, AppCall, UdpListen, UdpConnect, TcpStep
  <2> QED  BY <2>1, <2>2, <2>3, <2>4, <2>5, <2>6, <2>7 DEF App
<1> QED  BY <1>0, <1>1, <1>2 DEF OwnStep

LEMMA EnvironmentOwns ==
    ASSUME TypeInv, OwnInv, Net \/ Clock \/ UNCHANGED vars PROVE OwnStep
<1>1. UNCHANGED <<containerVars, live, m_fd, stack, pendingWrite>>
  BY DEF Net, NetEstablish, NetRefuse, Clock, TimePasses, vars, tcpVars,
         socketVars, loopVars
<1>2. \A fd \in Fds : Held(fd)' <=> Held(fd)
  BY DEF Net, NetEstablish, NetRefuse, Clock, TimePasses, vars, tcpVars,
         Held, TypeInv, TypeOK, TcpTypeOK
<1> QED  BY <1>1, <1>2, SameContainerKeeps
         DEF OwnStep, TcpStep, Quiet, SameOwners, OwnInv, NoDanglingSocket

LEMMA LoopOwns ==
    ASSUME TypeInv, OwnInv, Loop PROVE OwnStep
<1>0. /\ TcpTypeOK
      /\ pendingWrite \in live \cup {NoSocket}
      /\ \A fd \in Fds : m_socketMap[fd] \in live \cup {NoSocket}
  BY DEF TypeInv, TypeOK, OwnInv, NoDanglingSocket, RegisteredSocketOwnsFd,
         Registered
<1>1. CASE HandleSockets
  BY <1>1 DEF OwnStep
<1>2. CASE ScanSocket
  <2>1. m_socketMap[itr] \in live
    BY <1>0, <1>2 DEF ScanSocket, AtLoop, TypeInv, LoopInv, Registered
  <2>2. Quiet
    BY <1>0, <1>2, <2>1, VirtualQuiet DEF ScanSocket
  <2> QED  BY <1>0, <1>2, <2>2 DEF ScanSocket, OwnStep, TcpStep
<1>3. CASE ScanAdvance \/ ScanAdvanceErased \/ ScanEnd \/ EpollWait
             \/ DispatchEnd
  <2>1. UNCHANGED tcpVars /\ UNCHANGED pendingWrite
    BY <1>3 DEF ScanAdvance, ScanAdvanceErased, ScanEnd, EpollWait,
                DispatchEnd
  <2> QED  BY <1>0, <2>1, SameTcpQuiet DEF OwnStep, TcpStep
<1>4. ASSUME NEW fd \in Fds, DispatchEvent(fd) PROVE OwnStep
  <2>1. TcpStep
    BY <1>0, <1>4, SameTcpQuiet, OnReadSteps, VirtualQuiet
       DEF DispatchEvent, TcpStep
  <2>2. pendingWrite' \in live \cup {NoSocket}
    BY <1>0, <1>4 DEF DispatchEvent
  <2> QED  BY <2>1, <2>2 DEF OwnStep
<1>5. CASE DispatchWrite
  <2>1. Quiet
    BY <1>0, <1>5, VirtualQuiet DEF DispatchWrite
  <2> QED  BY <1>5, <2>1 DEF DispatchWrite, OwnStep, TcpStep
<1> QED  BY <1>1, <1>2, <1>3, <1>4, <1>5 DEF Loop

(* Every step of the program does one of the five things. *)
LEMMA EveryStepOwns ==
    ASSUME TypeInv, OwnInv, [Next]_vars PROVE OwnStep
BY AppOwns, EnvironmentOwns, LoopOwns DEF Next, HandlerReturns, OwnStep, Halted

-----------------------------------------------------------------------------
(* Each of the five preserves the ownership invariant. *)

LEMMA QuietStack ==
    ASSUME TcpTypeOK, Quiet
    PROVE  /\ \A i \in DOMAIN stack' :
                 \/ i \in DOMAIN stack /\ stack'[i] = stack[i]
                 \/ stack'[i].s \in live
           /\ \A i \in DOMAIN stack :
                 i \in DOMAIN stack' /\ stack'[i] = stack[i]
<1>1. CASE UNCHANGED stack
  BY <1>1
<1>2. ASSUME NEW s \in live, NEW cb \in {"packet", "close"}, Call(cb, s)
      PROVE  /\ \A i \in DOMAIN stack' :
                   \/ i \in DOMAIN stack /\ stack'[i] = stack[i]
                   \/ stack'[i].s \in live
             /\ \A i \in DOMAIN stack :
                   i \in DOMAIN stack' /\ stack'[i] = stack[i]
  BY <1>2, PushFrame DEF TcpTypeOK
<1> QED  BY <1>1, <1>2 DEF Quiet, Pushed

LEMMA ClosingKept ==
    ASSUME \A i \in DOMAIN stack :
              i \in DOMAIN stack' /\ stack'[i] = stack[i],
           NEW s, Closing(s)
    PROVE  Closing(s)'
BY DEF Closing

LEMMA QuietKeeps ==
    ASSUME TypeInv, OwnInv, Quiet, pendingWrite' \in live \cup {NoSocket}
    PROVE  OwnInv'
<1>0. TcpTypeOK
  BY DEF TypeInv, TypeOK
<1>1. UNCHANGED <<m_socketMap, m_closeSockets, live, m_fd>>
  BY DEF Quiet, SameOwners
<1>2. RegisteredSocketOwnsFd' /\ ClosedHasNoFd'
  BY <1>1 DEF OwnInv, RegisteredSocketOwnsFd, Registered, ClosedHasNoFd
<1>3. FdOwnership'
  <2>1. \A s \in Sockets : m_fd[s] # NoFd => m_fd[s] \in Fds
    BY <1>0 DEF TcpTypeOK
  <2> QED  BY <1>1, <2>1 DEF OwnInv, FdOwnership, Quiet, SameOwners, Held
<1>4. NoDanglingSocket'
  BY <1>0, <1>1, QuietStack DEF OwnInv, NoDanglingSocket
<1>5. NoLostSocket'
  BY <1>0, <1>1, QuietStack, ClosingKept DEF OwnInv, NoLostSocket, Registered
<1> QED  BY <1>2, <1>3, <1>4, <1>5 DEF OwnInv

LEMMA CreatedStack ==
    ASSUME TcpTypeOK, NEW s, NEW fd, Created(s, fd)
    PROVE  /\ \A i \in DOMAIN stack' :
                 \/ i \in DOMAIN stack /\ stack'[i] = stack[i]
                 \/ stack'[i] = [cb |-> "close", s |-> s]
           /\ \A i \in DOMAIN stack :
                 i \in DOMAIN stack' /\ stack'[i] = stack[i]
           /\ \/ AddSocketFails /\ Closing(s)'
              \/ m_socketMap' = [m_socketMap EXCEPT ![fd] = s]
<1>1. UNCHANGED stack \/ Call("close", s)
  BY DEF Created
<1>2. CASE Call("close", s)
  <2>1. s \in Sockets
    BY DEF Created
  <2>2. Closing(s)'
    BY <1>2, <2>1, PushFrame DEF TcpTypeOK, Closing
  <2>3. \/ AddSocketFails
        \/ m_socketMap' = [m_socketMap EXCEPT ![fd] = s]
    BY DEF Created, AddSocket
  <2> QED  BY <1>2, <2>1, <2>2, <2>3, PushFrame DEF TcpTypeOK
<1>3. CASE UNCHANGED stack /\ ~ Call("close", s)
  <2>1. m_socketMap' = [m_socketMap EXCEPT ![fd] = s]
    BY <1>3 DEF Created, AddSocket
  <2> QED  BY <1>3, <2>1
<1> QED  BY <1>1, <1>2, <1>3

LEMMA CreatedKeeps ==
    ASSUME TypeInv, OwnInv, NEW s, NEW fd, Created(s, fd),
           pendingWrite' \in live \cup {NoSocket}
    PROVE  OwnInv'
<1>0. /\ TcpTypeOK
      /\ s \in Sockets \ live /\ fd \in Fds /\ fd # NoFd
      /\ s # NoSocket
  <2>1. s \in Sockets \ live /\ fd \in Fds
    BY DEF Created
  <2> QED  BY <2>1 DEF TypeInv, TypeOK, NoFd
<1>1. /\ live' = live \cup {s}
      /\ m_fd' = [m_fd EXCEPT ![s] = fd]
      /\ UNCHANGED m_closeSockets
      /\ m_fd \in [Sockets -> Fds \cup {NoFd}]
      /\ m_socketMap \in [Fds -> Sockets \cup {NoSocket}]
  BY <1>0 DEF Created, AddSocket, AddSocketFails, containerVars, TcpTypeOK,
              ContainerTypeOK
<1>2. \/ AddSocketFails /\ UNCHANGED m_socketMap /\ Closing(s)'
      \/ m_socketMap' = [m_socketMap EXCEPT ![fd] = s]
  BY <1>0, CreatedStack DEF AddSocketFails, containerVars
<1>3. \A t \in Sockets : m_fd[t] # fd
  BY <1>0 DEF Created, OwnInv, FdOwnership, Held
<1>4. m_fd[s] = NoFd /\ s \notin m_closeSockets
  BY <1>0 DEF OwnInv, FdOwnership, NoDanglingSocket
<1>5. ASSUME NEW g \in Fds, m_socketMap'[g] # NoSocket
      PROVE  /\ m_socketMap'[g] \in live' \ m_closeSockets'
             /\ m_fd'[m_socketMap'[g]] = g
  <2>1. CASE m_socketMap'[g] = m_socketMap[g]
    <3>1. m_socketMap[g] \in live \ m_closeSockets /\ m_fd[m_socketMap[g]] = g
      BY <1>5, <2>1 DEF OwnInv, RegisteredSocketOwnsFd, Registered
    <3> QED  BY <1>0, <1>1, <2>1, <3>1
  <2>2. CASE g = fd /\ m_socketMap'[g] = s
    BY <1>0, <1>1, <1>4, <2>2
  <2> QED  BY <1>1, <1>2, <2>1, <2>2
<1>6. RegisteredSocketOwnsFd'
  BY <1>5 DEF RegisteredSocketOwnsFd, Registered
<1>7. FdOwnership'
  <2>1. \A g \in Fds \ {fd} : Held(g)' <=> Held(g)
    BY DEF Created, Held
  <2>2. Held(fd)'
    BY DEF Created
  <2>3. ASSUME NEW t \in Sockets, NEW u \in Sockets,
               m_fd'[t] = m_fd'[u], m_fd'[t] # NoFd
        PROVE  t = u
    BY <1>0, <1>1, <1>3, <2>3 DEF OwnInv, FdOwnership
  <2>4. ASSUME NEW t \in Sockets, m_fd'[t] # NoFd
        PROVE  t \in live' /\ m_fd'[t] \in Fds /\ Held(m_fd[t])'
    BY <1>0, <1>1, <1>3, <2>1, <2>2, <2>4 DEF OwnInv, FdOwnership, Held
  <2>5. ASSUME NEW g \in Fds, Held(g)'
        PROVE  \E t \in live' : m_fd'[t] = g
    <3>1. CASE g = fd
      BY <1>0, <1>1, <3>1
    <3>2. CASE g # fd
      <4>1. PICK t \in live : m_fd[t] = g
        BY <2>1, <2>5, <3>2 DEF OwnInv, FdOwnership, Held
      <4> QED  BY <1>0, <1>1, <4>1
    <3> QED  BY <3>1, <3>2
  <2> QED  BY <2>3, <2>4, <2>5 DEF FdOwnership, Held
<1>8. NoDanglingSocket'
  BY <1>0, <1>1, CreatedStack DEF OwnInv, NoDanglingSocket
<1>9. NoLostSocket'
  <2>1. ASSUME NEW t \in live
        PROVE  \/ m_fd'[t] \in Registered' /\ m_socketMap'[m_fd'[t]] = t
               \/ t \in m_closeSockets'
               \/ Closing(t)'
    <3>1. t # s /\ m_fd'[t] = m_fd[t] /\ m_fd[t] # fd
      BY <1>0, <1>1, <1>3 DEF TcpTypeOK
    <3>2. CASE m_fd[t] \in Registered /\ m_socketMap[m_fd[t]] = t
      BY <1>1, <1>2, <3>1, <3>2 DEF Registered
    <3>3. CASE t \in m_closeSockets
      BY <1>1, <3>3
    <3>4. CASE Closing(t)
      BY <1>0, <3>4, CreatedStack, ClosingKept
    <3> QED  BY <3>2, <3>3, <3>4 DEF OwnInv, NoLostSocket
  <2>2. \/ m_fd'[s] \in Registered' /\ m_socketMap'[m_fd'[s]] = s
        \/ Closing(s)'
    <3>1. m_fd'[s] = fd
      BY <1>0, <1>1
    <3>2. CASE m_socketMap' = [m_socketMap EXCEPT ![fd] = s]
      <4>1. m_socketMap'[fd] = s
        BY <1>0, <1>1, <3>2
      <4> QED  BY <1>0, <3>1, <4>1 DEF Registered
    <3> QED  BY <1>2, <3>2
  <2> QED  BY <1>1, <2>1, <2>2 DEF NoLostSocket
<1>10. ClosedHasNoFd'
  BY <1>0, <1>1, <1>4 DEF OwnInv, ClosedHasNoFd
<1> QED  BY <1>6, <1>7, <1>8, <1>9, <1>10 DEF OwnInv

LEMMA PacketReturnKeeps ==
    ASSUME TypeInv, OwnInv, PacketReturns
    PROVE  OwnInv'
<1>1. /\ UNCHANGED <<m_socketMap, m_closeSockets, live, m_fd, fdState>>
      /\ UNCHANGED pendingWrite
      /\ \/ stack' = SubSeq(stack, 1, Len(stack) - 1)
         \/ UnpackFailed(Top.s)
      /\ stack # <<>> /\ Top.cb = "packet"
  BY DEF PacketReturns, containerVars, socketVars, loopVars
<1>2. stack \in Seq(Frames) /\ TcpTypeOK
  BY DEF TypeInv, TypeOK, TcpTypeOK
<1>3. NoDanglingSocket'
  <2>1. CASE stack' = SubSeq(stack, 1, Len(stack) - 1)
    BY <1>1, <1>2, <2>1, PopFrame DEF OwnInv, NoDanglingSocket
  <2>2. CASE UnpackFailed(Top.s)
    BY <1>1, <1>2, <2>2, FailedFrame DEF OwnInv, NoDanglingSocket
  <2> QED  BY <1>1, <2>1, <2>2
<1>4. ASSUME NEW s, Closing(s) PROVE Closing(s)'
  <2>1. PICK i \in DOMAIN stack : stack[i] = [cb |-> "close", s |-> s]
    BY <1>4 DEF Closing
  <2>2. stack[i] # Top
    BY <1>1, <2>1
  <2> QED  BY <1>1, <1>2, <2>1, <2>2, PopFrame, FailedFrame DEF Closing
<1>5. NoLostSocket'
  BY <1>1, <1>4 DEF OwnInv, NoLostSocket, Registered
<1>6. RegisteredSocketOwnsFd' /\ FdOwnership' /\ ClosedHasNoFd'
  BY <1>1 DEF OwnInv, RegisteredSocketOwnsFd, Registered, FdOwnership,
              ClosedHasNoFd
<1> QED  BY <1>3, <1>5, <1>6 DEF OwnInv

(* The socket whose Close goes on, and whether it was closed in between. *)
LEMMA ClosingSocket ==
    ASSUME TypeInv, OwnInv, CloseReturns
    PROVE  /\ Top.s \in live
           /\ Closing(Top.s)
           /\ FinishClose(Top.s)
           /\ \A i \in DOMAIN stack' :
                 i \in DOMAIN stack /\ stack'[i] = stack[i]
           /\ \A t : Closing(t) /\ t # Top.s => Closing(t)'
<1>1. /\ stack \in Seq(Frames) /\ stack # <<>> /\ Top.cb = "close"
      /\ stack' = SubSeq(stack, 1, Len(stack) - 1)
  BY DEF TypeInv, TypeOK, TcpTypeOK, CloseReturns
<1>2. Top \in Frames /\ Top = [cb |-> "close", s |-> Top.s]
  BY <1>1, PopType DEF Frames
<1>3. PICK i \in DOMAIN stack : stack[i] = Top
  BY <1>1, PopFrame
<1>4. Top.s \in live /\ Closing(Top.s)
  BY <1>2, <1>3 DEF OwnInv, NoDanglingSocket, Closing
<1>5. ASSUME NEW t, Closing(t), t # Top.s PROVE Closing(t)'
  <2>1. PICK j \in DOMAIN stack : stack[j] = [cb |-> "close", s |-> t]
    BY <1>5 DEF Closing
  <2>2. stack[j] # Top
    BY <1>2, <1>5, <2>1
  <2> QED  BY <1>1, <2>1, <2>2, PopFrame DEF Closing
<1> QED  BY <1>1, <1>4, <1>5, PopFrame DEF CloseReturns

LEMMA FinishKeeps ==
    ASSUME TypeInv, OwnInv, CloseReturns
    PROVE  OwnInv'
<1> DEFINE s == Top.s
<1>0. /\ TcpTypeOK
      /\ s \in live /\ s \in Sockets
      /\ FinishClose(s)
  BY ClosingSocket DEF TypeInv, TypeOK, TcpTypeOK
<1>1. /\ m_closeSockets' = m_closeSockets \cup {s}
      /\ UNCHANGED <<live, pendingWrite>>
      /\ m_fd' = [m_fd EXCEPT ![s] = NoFd]
      /\ m_fd \in [Sockets -> Fds \cup {NoFd}]
      /\ m_socketMap \in [Fds -> Sockets \cup {NoSocket}]
  BY <1>0 DEF FinishClose, DelSocket, ResetFd, CloseReturns, TcpTypeOK,
              ContainerTypeOK
<1>2. \A i \in DOMAIN stack' : i \in DOMAIN stack /\ stack'[i] = stack[i]
  BY ClosingSocket
<1>3. \A t : Closing(t) /\ t # s => Closing(t)'
  BY ClosingSocket
<1> HIDE DEF s
<1>4. \A g \in Fds : m_socketMap'[g] = IF g = m_fd[s] THEN NoSocket
                                      ELSE m_socketMap[g]
  BY <1>0, <1>1 DEF FinishClose, DelSocket, Deregister
<1>5. \A g \in Fds : fdState'[g] = IF g = m_fd[s] THEN "closed"
                                  ELSE fdState[g]
  BY <1>0 DEF FinishClose, CloseFd, TcpTypeOK
<1>6. \A t \in Sockets : m_fd'[t] = IF t = s THEN NoFd ELSE m_fd[t]
  BY <1>0, <1>1
<1>7. RegisteredSocketOwnsFd'
  <2>1. ASSUME NEW g \in Fds, m_socketMap'[g] # NoSocket
        PROVE  /\ m_socketMap'[g] \in live' \ m_closeSockets'
               /\ m_fd'[m_socketMap'[g]] = g
    <3>1. g # m_fd[s] /\ m_socketMap'[g] = m_socketMap[g]
      BY <1>4, <2>1
    <3>2. m_socketMap[g] \in live \ m_closeSockets /\ m_fd[m_socketMap[g]] = g
      BY <2>1, <3>1 DEF OwnInv, RegisteredSocketOwnsFd, Registered
    <3>3. m_socketMap[g] # s
      BY <3>1, <3>2
    <3> QED  BY <1>0, <1>1, <1>6, <3>1, <3>2, <3>3 DEF TcpTypeOK
  <2> QED  BY <2>1 DEF RegisteredSocketOwnsFd, Registered
<1>8. FdOwnership'
  <2>1. ASSUME NEW t \in Sockets, NEW u \in Sockets,
               m_fd'[t] = m_fd'[u], m_fd'[t] # NoFd
        PROVE  t = u
    BY <1>6, <2>1 DEF OwnInv, FdOwnership
  <2>2. ASSUME NEW t \in Sockets, m_fd'[t] # NoFd
        PROVE  t \in live' /\ fdState'[m_fd'[t]] \notin {"closed", "orphan"}
    <3>1. t # s /\ m_fd'[t] = m_fd[t] /\ m_fd[t] \in Fds
      BY <1>1, <1>6, <2>2
    <3>2. m_fd[t] # m_fd[s]
      BY <1>0, <2>2, <3>1 DEF OwnInv, FdOwnership
    <3> QED  BY <1>1, <1>5, <2>2, <3>1, <3>2 DEF OwnInv, FdOwnership
  <2>3. ASSUME NEW g \in Fds, fdState'[g] \notin {"closed", "orphan"}
        PROVE  \E t \in live' : m_fd'[t] = g
    <3>1. g # m_fd[s] /\ fdState[g] \notin {"closed", "orphan"}
      BY <1>5, <2>3
    <3>2. PICK t \in live : m_fd[t] = g
      BY <3>1 DEF OwnInv, FdOwnership
    <3> QED  BY <1>0, <1>1, <1>6, <3>1, <3>2 DEF TcpTypeOK
  <2> QED  BY <2>1, <2>2, <2>3 DEF FdOwnership
<1>9. NoDanglingSocket'
  BY <1>0, <1>1, <1>2 DEF OwnInv, NoDanglingSocket
<1>10. NoLostSocket'
  <2>1. ASSUME NEW t \in live', t # s
        PROVE  \/ m_fd'[t] \in Registered' /\ m_socketMap'[m_fd'[t]] = t
               \/ t \in m_closeSockets'
               \/ Closing(t)'
    <3>1. t \in live /\ t \in Sockets /\ m_fd'[t] = m_fd[t]
      BY <1>0, <1>1, <1>6, <2>1 DEF TcpTypeOK
    <3>2. CASE m_fd[t] \in Registered /\ m_socketMap[m_fd[t]] = t
      <4>1. m_fd[t] \in Fds /\ m_fd[t] # NoFd
        BY <3>2 DEF Registered, NoFd
      <4>2. m_fd[t] # m_fd[s]
        BY <1>0, <2>1, <3>1, <4>1 DEF OwnInv, FdOwnership
      <4> QED  BY <1>4, <3>1, <3>2, <4>1, <4>2 DEF Registered
    <3> QED  BY <1>1, <1>3, <2>1, <3>1, <3>2 DEF OwnInv, NoLostSocket
  <2> QED  BY <1>1, <2>1 DEF NoLostSocket
<1>11. ClosedHasNoFd'
  BY <1>0, <1>1, <1>6 DEF OwnInv, ClosedHasNoFd, TcpTypeOK, ContainerTypeOK
<1> QED  BY <1>7, <1>8, <1>9, <1>10, <1>11 DEF OwnInv

LEMMA DeleteKeeps ==
    ASSUME TypeInv, OwnInv, HandleSockets
    PROVE  OwnInv'
<1>1. /\ live' = live \ m_closeSockets
      /\ m_closeSockets' = {}
      /\ UNCHANGED <<m_socketMap, m_fd, fdState, stack, pendingWrite>>
      /\ stack = <<>>
      /\ phase = "idle"
  BY DEF HandleSockets, ClearCloseSockets, AtLoop
<1>2. pendingWrite = NoSocket
  BY <1>1 DEF TypeInv, LoopInv
<1>3. \A t : ~ Closing(t)
  BY <1>1 DEF Closing
<1>4. RegisteredSocketOwnsFd'
  BY <1>1 DEF OwnInv, RegisteredSocketOwnsFd, Registered
<1>5. FdOwnership'
  <2>1. ASSUME NEW t \in Sockets, m_fd[t] # NoFd PROVE t \notin m_closeSockets
    BY <2>1 DEF OwnInv, ClosedHasNoFd
  <2>2. \A g \in Fds : g # NoFd
    BY DEF NoFd
  <2>3. live \subseteq Sockets
    BY DEF TypeInv, TypeOK, TcpTypeOK
  <2> QED  BY <1>1, <2>1, <2>2, <2>3 DEF OwnInv, FdOwnership
<1>6. NoDanglingSocket'
  BY <1>1, <1>2 DEF OwnInv, NoDanglingSocket
<1>7. NoLostSocket'
  BY <1>1, <1>3 DEF OwnInv, NoLostSocket, Registered
<1>8. ClosedHasNoFd'
  BY <1>1 DEF ClosedHasNoFd
<1> QED  BY <1>4, <1>5, <1>6, <1>7, <1>8 DEF OwnInv

LEMMA InitOwns == Init => OwnInv
<1> SUFFICES ASSUME Init PROVE OwnInv
  OBVIOUS
<1>1. /\ m_closeSockets = {} /\ live = {} /\ stack = <<>>
      /\ pendingWrite = NoSocket
      /\ m_fd = [s \in Sockets |-> NoFd]
      /\ m_socketMap = [fd \in Fds |-> NoSocket]
      /\ fdState = [fd \in Fds |-> "closed"]
  BY DEF Init, TcpInit, ContainerInit
<1> QED  BY <1>1 DEF OwnInv, RegisteredSocketOwnsFd, Registered, FdOwnership,
                     NoDanglingSocket, NoLostSocket, ClosedHasNoFd

LEMMA NextOwns == TypeInv /\ OwnInv /\ [Next]_vars => OwnInv'
<1> SUFFICES ASSUME TypeInv, OwnInv, [Next]_vars PROVE OwnInv'
  OBVIOUS
<1>1. OwnStep
  BY EveryStepOwns
<1>2. CASE TcpStep /\ pendingWrite' \in live \cup {NoSocket}
  BY <1>2, QuietKeeps, CreatedKeeps DEF TcpStep
<1> QED  BY <1>1, <1>2, PacketReturnKeeps, FinishKeeps, DeleteKeeps
         DEF OwnStep

(* The ownership invariant holds of every execution. *)
THEOREM Ownership == Spec => []OwnInv
<1>1. Init => TypeInv /\ OwnInv
  BY InitType, InitOwns
<1>2. TypeInv /\ OwnInv /\ [Next]_vars => TypeInv' /\ OwnInv'
  BY NextType, NextOwns
<1> QED  BY <1>1, <1>2, PTL DEF Spec

(* DelSocket always erases the entry of the socket being closed: an entry   *)
(* is a live, not closed socket that has the descriptor it is entered for.  *)
THEOREM EntriesAreOwned == Spec => []RegisteredSocketOwnsFd
<1>1. OwnInv => RegisteredSocketOwnsFd
  BY DEF OwnInv
<1> QED  BY <1>1, Ownership, PTL

(* close(2) is called once for every descriptor a socket was created with,  *)
(* and no two sockets ever have the same one.                               *)
THEOREM FdsAreOwned == Spec => []FdOwnership
<1>1. OwnInv => FdOwnership
  BY DEF OwnInv
<1> QED  BY <1>1, Ownership, PTL

(* Every pointer the loop holds is to a socket that is not deleted yet.     *)
THEOREM PointersAreLive == Spec => []NoDanglingSocket
<1>1. OwnInv => NoDanglingSocket
  BY DEF OwnInv
<1> QED  BY <1>1, Ownership, PTL

(* No socket is leaked.                                                     *)
THEOREM SocketsAreReachable == Spec => []NoLostSocket
<1>1. OwnInv => NoLostSocket
  BY DEF OwnInv
<1> QED  BY <1>1, Ownership, PTL

-----------------------------------------------------------------------------
(* The two registries and the counter. *)

LEMMA RegisteredFinite ==
    TypeInv => IsFiniteSet(Registered) /\ Cardinality(Registered) \in Nat
<1>1. Registered \subseteq Fds
  BY DEF Registered
<1>2. IsFiniteSet(Registered)
  BY <1>1, FS_Subset
<1> QED  BY <1>2, FS_CardinalityType

LEMMA SameRegistryKeeps ==
    ASSUME ContainerMatchesKernel,
           UNCHANGED <<m_socketMap, m_socketNum>>,
           \A fd \in Fds : interest'[fd] = {} <=> interest[fd] = {}
    PROVE  ContainerMatchesKernel'
BY DEF ContainerMatchesKernel, Registered

LEMMA CreatedRegistry ==
    ASSUME TypeInv, ContainerMatchesKernel, NEW s, NEW fd, Created(s, fd)
    PROVE  ContainerMatchesKernel'
<1>0. /\ s \in Sockets /\ s # NoSocket /\ fd \in Fds
      /\ m_socketMap \in [Fds -> Sockets \cup {NoSocket}]
      /\ interest \in [Fds -> SUBSET Events]
  BY DEF Created, TypeInv, TypeOK, TcpTypeOK, ContainerTypeOK
<1>1. CASE AddSocketFails
  BY <1>1, SameRegistryKeeps DEF AddSocketFails, containerVars
<1>2. ASSUME NEW events \in (SUBSET Events) \ {{}}, AddSocket(s, fd, events)
      PROVE  ContainerMatchesKernel'
  <2>1. Registered' = Registered \cup {fd} /\ fd \notin Registered
    BY <1>0, <1>2 DEF AddSocket, Registered
  <2>2. Cardinality(Registered') = Cardinality(Registered) + 1
    BY <2>1, RegisteredFinite, FS_AddElement
  <2>3. m_socketNum' = Cardinality(Registered') /\ m_socketNum' <= MaxFdCount
    BY <1>2, <2>2, RegisteredFinite DEF AddSocket, ContainerMatchesKernel
  <2>4. \A g \in Fds : m_socketMap'[g] # NoSocket <=> interest'[g] # {}
    BY <1>0, <1>2 DEF AddSocket, ContainerMatchesKernel
  <2> QED  BY <2>3, <2>4 DEF ContainerMatchesKernel
<1> QED  BY <1>1, <1>2 DEF Created

LEMMA FinishRegistry ==
    ASSUME TypeInv, OwnInv, ContainerMatchesKernel, CloseReturns
    PROVE  ContainerMatchesKernel'
<1> DEFINE fd == m_fd[Top.s]
<1>0. /\ Deregister(fd)
      /\ m_socketMap \in [Fds -> Sockets \cup {NoSocket}]
      /\ interest \in [Fds -> SUBSET Events]
  BY ClosingSocket DEF FinishClose, DelSocket, TypeInv, TypeOK, TcpTypeOK,
                       ContainerTypeOK
<1> HIDE DEF fd
<1>1. CASE fd \in Registered
  <2>1. Registered' = Registered \ {fd} /\ fd \in Fds
    BY <1>0, <1>1 DEF Deregister, Registered
  <2>2. Cardinality(Registered') = Cardinality(Registered) - 1
    BY <1>1, <2>1, RegisteredFinite, FS_RemoveElement
  <2>3. m_socketNum' = m_socketNum - 1
    BY <1>0, <1>1, <2>1 DEF Deregister, Registered
  <2>4. m_socketNum' = Cardinality(Registered') /\ m_socketNum' <= MaxFdCount
    BY <2>2, <2>3, RegisteredFinite DEF ContainerMatchesKernel
  <2>5. \A g \in Fds : m_socketMap'[g] # NoSocket <=> interest'[g] # {}
    BY <1>0, <2>1 DEF Deregister, ContainerMatchesKernel
  <2> QED  BY <2>4, <2>5 DEF ContainerMatchesKernel
<1>2. CASE fd \in Fds \ Registered
  <2>1. m_socketMap[fd] = NoSocket /\ interest[fd] = {}
    BY <1>2 DEF Registered, ContainerMatchesKernel
  <2>2. UNCHANGED <<m_socketMap, m_socketNum, interest>>
    BY <1>0, <1>2, <2>1, ZenonT(60) DEF Deregister
  <2> QED  BY <2>2, SameRegistryKeeps
<1>3. CASE fd \notin Fds
  BY <1>0, <1>3, SameRegistryKeeps DEF Deregister
<1> QED  BY <1>1, <1>2, <1>3

LEMMA InitRegistry == Init => ContainerMatchesKernel
<1> SUFFICES ASSUME Init PROVE ContainerMatchesKernel
  OBVIOUS
<1>1. Registered = {} /\ m_socketNum = 0
  BY DEF Init, TcpInit, ContainerInit, Registered
<1>2. \A fd \in Fds : m_socketMap[fd] = NoSocket /\ interest[fd] = {}
  BY DEF Init, TcpInit, ContainerInit
<1> QED  BY <1>1, <1>2, FS_EmptySet DEF ContainerMatchesKernel

LEMMA NextRegistry ==
    ASSUME TypeInv, OwnInv, ContainerMatchesKernel, [Next]_vars
    PROVE  ContainerMatchesKernel'
<1>1. OwnStep
  BY EveryStepOwns
<1>2. CASE Quiet
  BY <1>2, SameRegistryKeeps DEF Quiet, SameOwners
<1>3. CASE PacketReturns
  BY <1>3, SameRegistryKeeps DEF PacketReturns, containerVars
<1>4. CASE HandleSockets
  BY <1>4, SameRegistryKeeps DEF HandleSockets, ClearCloseSockets
<1> QED  BY <1>1, <1>2, <1>3, <1>4, CreatedRegistry, FinishRegistry
         DEF OwnStep, TcpStep

(* m_socketMap, the epoll interest list and the counter SocketNum() returns *)
(* agree after every step, and m_maxFdCount is never exceeded.              *)
THEOREM RegistriesAgree == Spec => []ContainerMatchesKernel
<1>1. Init => TypeInv /\ OwnInv /\ ContainerMatchesKernel
  BY InitType, InitOwns, InitRegistry
<1>2. TypeInv /\ OwnInv /\ ContainerMatchesKernel /\ [Next]_vars
        => TypeInv' /\ OwnInv' /\ ContainerMatchesKernel'
  BY NextType, NextOwns, NextRegistry
<1> QED  BY <1>1, <1>2, PTL DEF Spec

-----------------------------------------------------------------------------
(* The event loop implements SocketLifecycle: every step of the program is *)
(* a step of the life cycle of one socket, the deletion of the closed      *)
(* ones, or nothing to the life cycle at all.                              *)

(* The stages are read off live, m_closeSockets and the handler calls. *)
LEMMA SameStage ==
    ASSUME UNCHANGED <<live, m_closeSockets>>, NEW s,
           Closing(s)' <=> Closing(s)
    PROVE  Stage(s)' = Stage(s)
BY DEF Stage

LEMMA PushedClosing ==
    ASSUME TcpTypeOK, NEW s \in Sockets, NEW cb \in {"packet", "close"},
           Call(cb, s)
    PROVE  \A t : Closing(t)' <=> Closing(t) \/ (cb = "close" /\ t = s)
<1>1. stack \in Seq(Frames)
  BY DEF TcpTypeOK
<1>2. ASSUME NEW t, Closing(t)' PROVE Closing(t) \/ (cb = "close" /\ t = s)
  <2>1. PICK i \in DOMAIN stack' : stack'[i] = [cb |-> "close", s |-> t]
    BY <1>2 DEF Closing
  <2>2. CASE i \in DOMAIN stack /\ stack'[i] = stack[i]
    BY <2>1, <2>2 DEF Closing
  <2>3. CASE stack'[i] = [cb |-> cb, s |-> s]
    <3>1. [cb |-> "close", s |-> t] = [cb |-> cb, s |-> s]
      BY <2>1, <2>3
    <3>2. [cb |-> "close", s |-> t].cb = cb /\ [cb |-> "close", s |-> t].s = s
      BY <3>1
    <3> QED  BY <3>2
  <2> QED  BY <1>1, <2>2, <2>3, PushFrame
<1>3. ASSUME NEW t, Closing(t) PROVE Closing(t)'
  BY <1>1, <1>3, PushFrame DEF Closing
<1>4. cb = "close" => Closing(s)'
  BY <1>1, PushFrame DEF Closing
<1> QED  BY <1>2, <1>3, <1>4

LEMMA InitLifecycle == Init => Lifecycle!Init
BY DEF Init, TcpInit, Lifecycle!Init, Stage

LEMMA QuietLifecycle ==
    ASSUME TypeInv, OwnInv, Quiet
    PROVE  \/ \E s \in Sockets : Lifecycle!Announce(s)
           \/ UNCHANGED <<[s \in Sockets |-> Stage(s)], m_fd>>
<1>1. /\ UNCHANGED <<live, m_closeSockets, m_fd>>
      /\ TcpTypeOK /\ live \subseteq Sockets
  BY DEF Quiet, SameOwners, TypeInv, TypeOK, TcpTypeOK
<1>2. CASE UNCHANGED stack
  <2>1. \A t \in Sockets : Stage(t)' = Stage(t)
    BY <1>1, <1>2 DEF Stage, Closing
  <2> QED  BY <1>1, <2>1
<1>3. ASSUME NEW s \in live, NEW cb \in {"packet", "close"}, Call(cb, s)
      PROVE  \/ Lifecycle!Announce(s)
             \/ UNCHANGED <<[t \in Sockets |-> Stage(t)], m_fd>>
  <2>1. \A t : Closing(t)' <=> Closing(t) \/ (cb = "close" /\ t = s)
    BY <1>1, <1>3, PushedClosing
  <2>2. CASE Stage(s)' = Stage(s)
    <3>1. \A t \in Sockets : Stage(t)' = Stage(t)
      BY <1>1, <2>1, <2>2, SameStage
    <3> QED  BY <1>1, <3>1
  <2>3. CASE Stage(s)' # Stage(s)
    <3>1. Stage(s) = "open" /\ Stage(s)' = "announced"
      BY <1>1, <2>1, <2>3 DEF Stage
    <3>2. \A t \in Sockets \ {s} : Stage(t)' = Stage(t)
      BY <1>1, <2>1, SameStage
    <3> QED  BY <1>1, <3>1, <3>2 DEF Lifecycle!Announce
  <2> QED  BY <2>2, <2>3
<1> QED  BY <1>1, <1>2, <1>3 DEF Quiet, Pushed

LEMMA CreatedLifecycle ==
    ASSUME TypeInv, OwnInv, NEW s, NEW fd, Created(s, fd)
    PROVE  Lifecycle!Create(s, fd)
<1>1. /\ s \in Sockets \ live /\ fd \in Fds
      /\ live' = live \cup {s}
      /\ m_fd' = [m_fd EXCEPT ![s] = fd]
      /\ UNCHANGED m_closeSockets
      /\ s \notin m_closeSockets
  BY DEF Created, AddSocket, AddSocketFails, containerVars, OwnInv,
         NoDanglingSocket
<1>2. \A t \in Sockets : m_fd[t] # fd
  BY <1>1 DEF Created, OwnInv, FdOwnership, Held, NoFd
<1>3. ASSUME NEW t \in Sockets \ {s} PROVE Stage(t)' = Stage(t)
  <2>1. CASE UNCHANGED stack
    BY <1>1, <2>1 DEF Stage, Closing
  <2>2. CASE Call("close", s)
    <3>1. Closing(t)' <=> Closing(t)
      BY <1>1, <2>2, PushedClosing DEF TypeInv, TypeOK
    <3> QED  BY <1>1, <3>1 DEF Stage
  <2> QED  BY <2>1, <2>2 DEF Created
<1>4. Stage(s) = "absent" /\ Stage(s)' \in {"open", "announced"}
  BY <1>1 DEF Stage
<1> QED  BY <1>1, <1>2, <1>3, <1>4 DEF Lifecycle!Create

LEMMA PacketReturnLifecycle ==
    ASSUME TypeInv, OwnInv, PacketReturns
    PROVE  \/ \E s \in Sockets : Lifecycle!Announce(s)
           \/ UNCHANGED <<[s \in Sockets |-> Stage(s)], m_fd>>
<1>1. /\ UNCHANGED <<live, m_closeSockets, m_fd>>
      /\ \/ stack' = SubSeq(stack, 1, Len(stack) - 1)
         \/ UnpackFailed(Top.s)
      /\ stack # <<>> /\ Top.cb = "packet"
      /\ stack \in Seq(Frames) /\ TcpTypeOK
  BY DEF PacketReturns, containerVars, socketVars, TypeInv, TypeOK, TcpTypeOK
<1>2. ASSUME NEW t, NEW i \in DOMAIN stack,
             stack[i] = [cb |-> "close", s |-> t]
      PROVE  stack[i] # Top
  BY <1>1, <1>2
<1>3. CASE stack' = SubSeq(stack, 1, Len(stack) - 1)
  <2>1. \A t \in Sockets : Closing(t)' <=> Closing(t)
    BY <1>1, <1>2, <1>3, PopFrame DEF Closing
  <2>2. \A t \in Sockets : Stage(t)' = Stage(t)
    BY <1>1, <2>1, SameStage
  <2> QED  BY <1>1, <2>2
<1>4. CASE UnpackFailed(Top.s)
  <2>1. PICK s \in Sockets : s = Top.s
    BY <1>1, <1>4, FailedFrame DEF Frames
  <2>2. s \in live /\ Closing(s)'
    BY <1>1, <1>4, <2>1, FailedFrame DEF Closing, OwnInv, NoDanglingSocket
  <2>3. ASSUME NEW t, t # s PROVE Closing(t)' <=> Closing(t)
    <3>1. [cb |-> "close", s |-> s] # [cb |-> "close", s |-> t]
      <4>1. [cb |-> "close", s |-> s].s = s /\ [cb |-> "close", s |-> t].s = t
        OBVIOUS
      <4> QED  BY <2>3, <4>1
    <3> QED  BY <1>1, <1>2, <1>4, <2>1, <3>1, FailedFrame DEF Closing
  <2>4. ASSUME Closing(s) PROVE \A t \in Sockets : Stage(t)' = Stage(t)
    BY <1>1, <2>2, <2>3, <2>4, SameStage
  <2>5. CASE Closing(s)
    BY <1>1, <2>4, <2>5
  <2>6. CASE s \in m_closeSockets
    <3>1. \A t \in Sockets : Stage(t)' = Stage(t)
      BY <1>1, <2>3, <2>6 DEF Stage
    <3> QED  BY <1>1, <3>1
  <2>7. CASE ~ Closing(s) /\ s \notin m_closeSockets
    <3>1. Stage(s) = "open" /\ Stage(s)' = "announced"
      BY <1>1, <2>2, <2>7 DEF Stage
    <3>2. \A t \in Sockets \ {s} : Stage(t)' = Stage(t)
      BY <1>1, <2>3, SameStage
    <3> QED  BY <1>1, <3>1, <3>2 DEF Lifecycle!Announce
  <2> QED  BY <2>5, <2>6, <2>7
<1> QED  BY <1>1, <1>3, <1>4

LEMMA FinishLifecycle ==
    ASSUME TypeInv, OwnInv, CloseReturns
    PROVE  \/ \E s \in Sockets : Lifecycle!Release(s)
           \/ UNCHANGED <<[s \in Sockets |-> Stage(s)], m_fd>>
<1>0. PICK s \in Sockets : s = Top.s
  BY ClosingSocket DEF TypeInv, TypeOK, TcpTypeOK
<1>1. /\ s \in live
      /\ Closing(s)
      /\ \A t : t # s => (Closing(t)' <=> Closing(t))
  BY <1>0, ClosingSocket DEF Closing
<1>2. /\ UNCHANGED live
      /\ m_closeSockets' = m_closeSockets \cup {s}
      /\ m_fd' = [m_fd EXCEPT ![s] = NoFd]
      /\ m_fd \in [Sockets -> Fds \cup {NoFd}]
  BY <1>0, ClosingSocket DEF FinishClose, DelSocket, ResetFd, TypeInv, TypeOK,
                             TcpTypeOK
<1>3. \A t \in Sockets \ {s} : Stage(t)' = Stage(t)
  BY <1>1, <1>2 DEF Stage
<1>4. CASE s \in m_closeSockets
  <2>1. Stage(s)' = Stage(s)
    BY <1>1, <1>2, <1>4 DEF Stage
  <2>2. m_fd' = m_fd
    BY <1>1, <1>2, <1>4 DEF OwnInv, ClosedHasNoFd
  <2> QED  BY <1>3, <2>1, <2>2
<1>5. CASE s \notin m_closeSockets
  <2>1. Stage(s) = "announced" /\ Stage(s)' = "closed"
    BY <1>1, <1>2, <1>5 DEF Stage
  <2>2. Lifecycle!Release(s)
    BY <1>1, <1>2, <1>3, <2>1 DEF Lifecycle!Release
  <2> QED  BY <1>1, <2>2
<1> QED  BY <1>4, <1>5

LEMMA DeleteLifecycle ==
    ASSUME TypeInv, HandleSockets
    PROVE  Lifecycle!Delete
<1>1. /\ live' = live \ m_closeSockets
      /\ m_closeSockets' = {}
      /\ UNCHANGED <<m_fd, stack>>
  BY DEF HandleSockets, ClearCloseSockets
<1>2. ASSUME NEW t \in Sockets
      PROVE  Stage(t)' = IF Stage(t) = "closed" THEN "absent" ELSE Stage(t)
  BY <1>1 DEF Stage, Closing
<1> QED  BY <1>1, <1>2 DEF Lifecycle!Delete

LEMMA NextLifecycle ==
    ASSUME TypeInv, OwnInv, [Next]_vars
    PROVE  [Lifecycle!Next]_<<[s \in Sockets |-> Stage(s)], m_fd>>
<1>1. OwnStep
  BY EveryStepOwns
<1>2. CASE Quiet
  BY <1>2, QuietLifecycle DEF Lifecycle!Next
<1>3. ASSUME NEW s, NEW fd, Created(s, fd) PROVE Lifecycle!Next
  <2>1. s \in Sockets /\ fd \in Fds
    BY <1>3 DEF Created
  <2> QED  BY <1>3, <2>1, CreatedLifecycle DEF Lifecycle!Next
<1>4. CASE PacketReturns
  BY <1>4, PacketReturnLifecycle DEF Lifecycle!Next
<1>5. CASE CloseReturns
  BY <1>5, FinishLifecycle DEF Lifecycle!Next
<1>6. CASE HandleSockets
  BY <1>6, DeleteLifecycle DEF Lifecycle!Next
<1> QED  BY <1>1, <1>2, <1>3, <1>4, <1>5, <1>6 DEF OwnStep, TcpStep

(* Whatever fails and however Close is re-entered, every socket goes through *)
(* creation, HandleClose, the release of its descriptor and deletion once    *)
(* each and in this order.                                                   *)
THEOREM Refinement == Spec => ImplementsLifecycle
<1>1. Init => Lifecycle!Init
  BY InitLifecycle
<1>2. TypeInv /\ OwnInv /\ [Next]_vars
        => [Lifecycle!Next]_<<[s \in Sockets |-> Stage(s)], m_fd>>
  BY NextLifecycle
<1> QED  BY <1>1, <1>2, TypeInvariant, Ownership, PTL
         DEF Spec, ImplementsLifecycle, Lifecycle!Spec
=============================================================================
