--------------------------- MODULE EpollContainer ---------------------------
(***************************************************************************)
(* The socket registry of net/epoll_container.cpp (Linux branch): the map  *)
(* from descriptors to sockets, the set of closed sockets waiting to be    *)
(* deleted, the socket counter, and the part of the kernel it drives, the  *)
(* epoll interest list.  The operators below are the container's methods;  *)
(* each says what the method does to the container's variables, and the    *)
(* modules that call them conjoin them into their own actions.             *)
(***************************************************************************)
EXTENDS Integers, FiniteSets

CONSTANTS
    Sockets,      \* the addresses a SocketBase object can have
    NoSocket,     \* nullptr
    Fds,          \* the descriptors the kernel can hand out
    MaxFdCount    \* m_maxFdCount

ASSUME ContainerAssumption ==
    /\ NoSocket \notin Sockets
    /\ Fds \subseteq Nat
    /\ IsFiniteSet(Fds)
    /\ MaxFdCount \in Nat

NoFd == -1                       \* the value of m_fd without a descriptor
EndItr == -1                     \* m_socketMap.end()

Events == {"in", "out", "err"}   \* SOCKET_EVENT_READ, _WRITE, _ERROR
ReadEvents == {"in", "err"}
ReadWriteEvents == {"in", "out", "err"}

VARIABLES
    m_socketMap,      \* [Fds -> Sockets or NoSocket], NoSocket: no entry
    m_closeSockets,   \* closed sockets that CheckCloseSocket will delete
    m_socketNum,      \* the counter SocketNum() returns
    interest          \* the epoll interest list; {}: not in the list

containerVars == <<m_socketMap, m_closeSockets, m_socketNum, interest>>

ContainerTypeOK ==
    /\ m_socketMap \in [Fds -> Sockets \cup {NoSocket}]
    /\ m_closeSockets \subseteq Sockets
    /\ m_socketNum \in Int
    /\ interest \in [Fds -> SUBSET Events]

Registered == {fd \in Fds : m_socketMap[fd] # NoSocket}

ContainerInit ==
    /\ m_socketMap = [fd \in Fds |-> NoSocket]
    /\ m_closeSockets = {}
    /\ m_socketNum = 0
    /\ interest = [fd \in Fds |-> {}]

(***************************************************************************)
(* AddSocket.  It fails when the container is full, when the descriptor    *)
(* has an entry, and whenever the kernel refuses EPOLL_CTL_ADD (which it   *)
(* may for want of memory), always before anything is changed.             *)
(***************************************************************************)
AddSocket(s, fd, events) ==
    /\ Cardinality(Registered) < MaxFdCount
    /\ m_socketMap[fd] = NoSocket
    /\ interest[fd] = {}
    /\ interest' = [interest EXCEPT ![fd] = events]
    /\ m_socketMap' = [m_socketMap EXCEPT ![fd] = s]
    /\ m_socketNum' = m_socketNum + 1
    /\ UNCHANGED m_closeSockets

AddSocketFails == UNCHANGED containerVars

(***************************************************************************)
(* ModSocket.  It fails when the descriptor has no entry or the kernel     *)
(* refuses EPOLL_CTL_MOD.                                                  *)
(***************************************************************************)
ModSocket(fd, events) ==
    /\ m_socketMap[fd] # NoSocket
    /\ interest[fd] # {}
    /\ interest' = [interest EXCEPT ![fd] = events]
    /\ UNCHANGED <<m_socketMap, m_closeSockets, m_socketNum>>

ModSocketFails == UNCHANGED containerVars

(* Wrong: the counter is not decremented. *)
Deregister_KeepsCount(fd) ==
    IF fd \in Fds
    THEN /\ interest' = [interest EXCEPT ![fd] = {}]
         /\ m_socketMap' = [m_socketMap EXCEPT ![fd] = NoSocket]
         /\ UNCHANGED m_socketNum
    ELSE UNCHANGED <<interest, m_socketMap, m_socketNum>>

(***************************************************************************)
(* DelSocket.  It looks the entry up by the socket's current descriptor,   *)
(* erases whatever it finds there, and queues the socket for deletion.     *)
(***************************************************************************)
Deregister(fd) ==
    IF fd \in Fds
    THEN /\ interest' = [interest EXCEPT ![fd] = {}]
         /\ m_socketMap' = [m_socketMap EXCEPT ![fd] = NoSocket]
         /\ m_socketNum' = IF m_socketMap[fd] # NoSocket
                           THEN m_socketNum - 1 ELSE m_socketNum
    ELSE UNCHANGED <<interest, m_socketMap, m_socketNum>>

(* Wrong: the socket is not queued for deletion. *)
DelSocket_NotQueued(s, fd) == Deregister(fd) /\ UNCHANGED m_closeSockets

DelSocket(s, fd) ==
    /\ Deregister(fd)
    /\ m_closeSockets' = m_closeSockets \cup {s}

(* CheckCloseSocket: the queued sockets are deleted (see live in TcpSocket). *)
ClearCloseSockets ==
    /\ m_closeSockets' = {}
    /\ UNCHANGED <<m_socketMap, m_socketNum, interest>>

(***************************************************************************)
(* i is the iterator that m_socketMap.upper_bound(fd) returns: the entry   *)
(* with the least key above fd, or end().                                  *)
(***************************************************************************)
IsUpperBound(i, fd) ==
    \/ /\ i \in Registered
       /\ i > fd
       /\ \A g \in Registered : g > fd => i <= g
    \/ /\ i = EndItr
       /\ \A g \in Registered : g <= fd
=============================================================================
