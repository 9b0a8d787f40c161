-------------------------- MODULE EventLoopNotices --------------------------
(***************************************************************************)
(* Proofs about EventLoop: what the application is told of a socket, and   *)
(* what epoll watches it for, for every value of the constants.            *)
(*                                                                         *)
(* A step of a method changes one socket, s below: its state, its output,  *)
(* what it is watched for, and what the application knows of it.  The      *)
(* first part says so of every method (OneSocket), the second that such a  *)
(* step preserves the two invariants, and then the same of the steps that  *)
(* end a Close or delete the closed sockets.  The last part proves what it *)
(* takes for a stale event to make a socket connected: without a Connect   *)
(* between the events of a batch none does.                                *)
(***************************************************************************)
EXTENDS EventLoopOwnership

(* HandleClose has been called of just those sockets that are being closed  *)
(* or are closed; and a closed one is in the state in which no event finds  *)
(* anything to do.                                                          *)
NoticeInv ==
    /\ \A s \in Sockets : notice[s] # "twice"
    /\ \A s \in Sockets :
          notice[s] # "none" <=> s \in live /\ (Closing(s) \/ s \in m_closeSockets)
    /\ \A s \in m_closeSockets : m_state[s] = "close"

(* A socket watched for writing either waits for its connection or knows,   *)
(* by m_isResending, that it has to end the watch when all is sent.         *)
Watched(s) ==
    /\ "out" \in interest[m_fd[s]]
          <=> m_state[s] = "connecting" \/ m_output[s] > 0
    /\ m_state[s] = "connecting" => m_output[s] = 0
    /\ "out" \in interest[m_fd[s]] /\ m_state[s] # "connecting"
          => m_isResending[s]

WatchInv ==
    \A s \in live : m_fd[s] \in Registered => Closing(s) \/ Watched(s)

-----------------------------------------------------------------------------
(* What a step may do. *)

(* What the application knows of s, and which calls of HandleClose run. *)
NoteOf(s) ==
    /\ \A t \in Sockets \ {s} : (Closing(t)' <=> Closing(t))
                                /\ notice'[t] = notice[t]
    /\ \/ Closing(s)' /\ notice'[s] \notin {"none", "twice"}
       \/ (Closing(s)' <=> Closing(s))
          /\ notice'[s] \in {notice[s], AfterUse(notice[s])}

FieldsOf(s) ==
    /\ s \in Sockets /\ live' = live \cup {s}
    /\ UNCHANGED m_closeSockets
    /\ \A t \in Sockets \ {s} :
          /\ m_fd'[t] = m_fd[t]
          /\ m_state'[t] = m_state[t]
          /\ m_output'[t] = m_output[t]
          /\ m_isResending'[t] = m_isResending[t]
    /\ \A g \in Fds : g # m_fd'[s] => /\ interest'[g] = interest[g]
                                      /\ m_socketMap'[g] = m_socketMap[g]
    /\ s \in live /\ m_state[s] = "close" => m_state'[s] = "close"

OneSocket(s) ==
    /\ NoteOf(s)
    /\ FieldsOf(s)
    /\ m_fd'[s] \in Registered' => Closing(s)' \/ Watched(s)'

Unnoticed ==
    /\ UNCHANGED <<m_socketMap, m_closeSockets, interest, live, m_fd, m_state,
                   m_output, m_isResending, notice>>
    /\ \A t \in Sockets : Closing(t)' <=> Closing(t)

MethodStep == Unnoticed \/ \E s : OneSocket(s)

Known == TypeInv /\ OwnInv /\ NoticeInv /\ WatchInv

-----------------------------------------------------------------------------
(* Handler calls that begin. *)

LEMMA SameClosing ==
    ASSUME UNCHANGED stack, NEW t PROVE Closing(t)' <=> Closing(t)
BY DEF Closing

LEMMA PacketCall ==
    ASSUME TcpTypeOK, NEW s \in Sockets, Call("packet", s), NEW t
    PROVE  Closing(t)' <=> Closing(t)
<1>1. stack \in Seq(Frames)
  BY DEF TcpTypeOK
<1>2. /\ \A i \in DOMAIN stack' :
            \/ i \in DOMAIN stack /\ stack'[i] = stack[i]
            \/ stack'[i] = [cb |-> "packet", s |-> s]
      /\ \A i \in DOMAIN stack : i \in DOMAIN stack' /\ stack'[i] = stack[i]
  BY <1>1, PushFrame
<1>3. [cb |-> "packet", s |-> s] # [cb |-> "close", s |-> t]
  OBVIOUS
<1> QED  BY <1>2, <1>3 DEF Closing

LEMMA CloseCall ==
    ASSUME TcpTypeOK, NEW s \in Sockets, Call("close", s)
    PROVE  Closing(s)' /\ \A t : t # s => (Closing(t)' <=> Closing(t))
<1>1. stack \in Seq(Frames)
  BY DEF TcpTypeOK
<1>2. /\ \A i \in DOMAIN stack' :
            \/ i \in DOMAIN stack /\ stack'[i] = stack[i]
            \/ stack'[i] = [cb |-> "close", s |-> s]
      /\ \A i \in DOMAIN stack : i \in DOMAIN stack' /\ stack'[i] = stack[i]
      /\ \E i \in DOMAIN stack' : stack'[i] = [cb |-> "close", s |-> s]
  BY <1>1, PushFrame
<1>3. Closing(s)'
  BY <1>2 DEF Closing
<1>4. ASSUME NEW t, t # s PROVE Closing(t)' <=> Closing(t)
  <2>1. [cb |-> "close", s |-> s] # [cb |-> "close", s |-> t]
    BY <1>4
  <2> QED  BY <1>2, <2>1 DEF Closing
<1> QED  BY <1>3, <1>4

LEMMA TellOnce ==
    ASSUME NEW n \in Notices, n # "twice"
    PROVE  /\ AfterNotice(AfterUse(n)) \notin {"none", "twice"}
           /\ n = "none" => AfterNotice(n) \notin {"none", "twice"}
BY DEF Notices, AfterNotice, AfterUse

LEMMA BeginCloseNote ==
    ASSUME TcpTypeOK, NEW s \in Sockets, NEW byApp \in BOOLEAN,
           notice[s] # "twice", byApp \/ notice[s] = "none",
           BeginClose(s, byApp)
    PROVE  NoteOf(s) /\ Closing(s)'
<1>1. /\ Closing(s)' /\ \A t : t # s => (Closing(t)' <=> Closing(t))
  BY CloseCall DEF BeginClose
<1>2. notice \in [Sockets -> Notices] /\ notice[s] \in Notices
  BY DEF TcpTypeOK
<1>3. /\ notice'[s] \notin {"none", "twice"}
      /\ \A t \in Sockets \ {s} : notice'[t] = notice[t]
  BY <1>2, TellOnce DEF BeginClose
<1> QED  BY <1>1, <1>3 DEF NoteOf

LEMMA NoCloseNote ==
    ASSUME TcpTypeOK, NEW s \in Sockets, NEW byApp \in BOOLEAN,
           NoClose(s, byApp)
    PROVE  NoteOf(s)
<1>1. \A t : Closing(t)' <=> Closing(t)
  BY SameClosing DEF NoClose
<1>2. /\ notice'[s] \in {notice[s], AfterUse(notice[s])}
      /\ \A t \in Sockets \ {s} : notice'[t] = notice[t]
  BY DEF NoClose, TcpTypeOK
<1> QED  BY <1>1, <1>2 DEF NoteOf

LEMMA SilentNote ==
    ASSUME UNCHANGED notice, NEW s \in Sockets,
           \A t : Closing(t)' <=> Closing(t)
    PROVE  NoteOf(s)
BY DEF NoteOf

-----------------------------------------------------------------------------
(* The methods. *)

(* What is known of a socket that a method is called on. *)
LEMMA Knowledge ==
    ASSUME Known, NEW s \in live
    PROVE  /\ TcpTypeOK /\ s \in Sockets /\ notice[s] # "twice"
           /\ m_fd[s] \in Registered => Closing(s) \/ Watched(s)
           /\ live \cup {s} = live
BY DEF Known, TypeInv, TypeOK, TcpTypeOK, NoticeInv, WatchInv

LEMMA CloseOnlyStep ==
    ASSUME Known, NEW s \in live, NEW byApp \in BOOLEAN,
           byApp \/ notice[s] = "none", BeginClose(s, byApp),
           UNCHANGED <<containerVars, m_fd, m_state, m_output, m_isResending, live>>
    PROVE  OneSocket(s)
<1>1. NoteOf(s) /\ Closing(s)'
  BY Knowledge, BeginCloseNote
<1>2. FieldsOf(s)
  BY Knowledge DEF FieldsOf, containerVars
<1> QED  BY <1>1, <1>2 DEF OneSocket

(* Steps of s that change neither its output nor what it is watched for. *)
LEMMA SameFieldsStep ==
    ASSUME Known, NEW s \in live, NoteOf(s),
           UNCHANGED <<containerVars, m_fd, m_state, m_output, m_isResending, live>>
    PROVE  OneSocket(s)
<1>1. FieldsOf(s)
  BY Knowledge DEF FieldsOf, containerVars
<1>2. m_fd[s] \in Registered => Closing(s)' \/ Watched(s)'
  <2>1. Closing(s) => Closing(s)'
    BY DEF NoteOf
  <2>2. Watched(s) => Watched(s)'
    BY DEF Watched, containerVars
  <2> QED  BY <2>1, <2>2, Knowledge
<1>3. Registered' = Registered /\ m_fd' = m_fd
  BY DEF Registered, containerVars
<1> QED  BY <1>1, <1>2, <1>3 DEF OneSocket

LEMMA WriteStep ==
    ASSUME Known, NEW s \in live, NEW byApp \in BOOLEAN,
           byApp \/ notice[s] = "none",
           m_state[s] \in {"accept", "connected"},
           NEW queued \in 1..OutCap, Write(s, queued, byApp)
    PROVE  OneSocket(s)
<1>0. /\ TcpTypeOK /\ s \in Sockets /\ live \cup {s} = live
      /\ notice[s] # "twice"
      /\ m_fd[s] \in Registered => Closing(s) \/ Watched(s)
  BY Knowledge
<1>1. /\ UNCHANGED <<live, m_fd, m_state>>
      /\ m_output \in [Sockets -> 0..OutCap]
      /\ m_isResending \in [Sockets -> BOOLEAN]
      /\ interest \in [Fds -> SUBSET Events]
      /\ m_state[s] # "connecting" /\ m_state'[s] = m_state[s]
  BY <1>0 DEF Write, TcpTypeOK, ContainerTypeOK
<1>2. NoteOf(s) /\ (BeginClose(s, byApp) => Closing(s)')
  BY <1>0, BeginCloseNote, NoCloseNote
     DEF Write, SendAll, SendBlocked, SendFails
<1>3. /\ UNCHANGED <<m_socketMap, m_closeSockets>>
      /\ \A g \in Fds : g # m_fd[s] => interest'[g] = interest[g]
      /\ \A t \in Sockets \ {s} : /\ m_output'[t] = m_output[t]
                                  /\ m_isResending'[t] = m_isResending[t]
  BY <1>1 DEF Write, SendAll, SendBlocked, SendFails, ModSocket,
              ModSocketFails, containerVars
<1>4. FieldsOf(s)
  BY <1>0, <1>1, <1>3 DEF FieldsOf
<1>5. ASSUME m_fd[s] \in Registered PROVE Closing(s)' \/ Watched(s)'
  <2>0. m_fd[s] \in Fds
    BY <1>5 DEF Registered
  <2>1. CASE BeginClose(s, byApp)
    BY <1>2, <2>1
  <2>2. CASE Closing(s)
    BY <1>2, <2>2 DEF NoteOf
  <2>3. CASE ~ Closing(s) /\ SendAll(s, byApp) /\ ~ BeginClose(s, byApp)
    <3>1. Watched(s) /\ m_output'[s] = 0
      BY <1>0, <1>1, <1>5, <2>3 DEF SendAll
    <3>2. "out" \notin interest'[m_fd[s]]
      <4>1. CASE ~ m_isResending[s] /\ UNCHANGED containerVars
        BY <1>1, <3>1, <4>1 DEF Watched, containerVars
      <4>2. CASE ModSocket(m_fd[s], ReadEvents)
        BY <1>1, <2>0, <4>2 DEF ModSocket, ReadEvents
      <4> QED  BY <2>3, <4>1, <4>2 DEF SendAll
    <3> QED  BY <1>1, <3>1, <3>2 DEF Watched
  <2>4. CASE SendBlocked(s, queued, byApp) /\ ~ BeginClose(s, byApp)
    <3>1. m_output'[s] > 0 /\ m_isResending'[s]
      BY <1>1, <1>0, <2>4 DEF SendBlocked, Unsent
    <3>2. "out" \in interest'[m_fd[s]]
      BY <1>1, <2>0, <2>4 DEF SendBlocked, ModSocket, ReadWriteEvents
    <3> QED  BY <1>1, <3>1, <3>2 DEF Watched
  <2> QED  BY <2>1, <2>2, <2>3, <2>4 DEF Write, SendFails
<1>6. Registered' = Registered /\ m_fd' = m_fd
  BY <1>1, <1>3 DEF Registered
<1> QED  BY <1>2, <1>4, <1>5, <1>6 DEF OneSocket

LEMMA HandleConnectedStep ==
    ASSUME Known, NEW s \in live, notice[s] = "none", HandleConnected(s)
    PROVE  OneSocket(s)
<1>0. /\ TcpTypeOK /\ s \in Sockets /\ live \cup {s} = live
      /\ m_fd[s] \in Registered => Closing(s) \/ Watched(s)
  BY Knowledge
<1>1. /\ UNCHANGED <<live, m_fd, m_output, m_isResending>>
      /\ m_state' = [m_state EXCEPT ![s] = "connected"]
      /\ m_state \in [Sockets -> States] /\ m_state[s] = "connecting"
      /\ interest \in [Fds -> SUBSET Events]
      /\ m_output \in [Sockets -> 0..OutCap]
  BY <1>0 DEF HandleConnected, TcpTypeOK, ContainerTypeOK
<1>2. NoteOf(s) /\ (BeginClose(s, FALSE) => Closing(s)')
  BY <1>0, BeginCloseNote, NoCloseNote DEF HandleConnected
<1>3. /\ UNCHANGED <<m_socketMap, m_closeSockets>>
      /\ \A g \in Fds : g # m_fd[s] => interest'[g] = interest[g]
  BY <1>1 DEF HandleConnected, ModSocket, ModSocketFails, containerVars
<1>4. FieldsOf(s)
  BY <1>0, <1>1, <1>3 DEF FieldsOf
<1>5. ASSUME m_fd[s] \in Registered PROVE Closing(s)' \/ Watched(s)'
  <2>0. m_fd[s] \in Fds
    BY <1>5 DEF Registered
  <2>1. CASE BeginClose(s, FALSE)
    BY <1>2, <2>1
  <2>2. CASE Closing(s)
    BY <1>2, <2>2 DEF NoteOf
  <2>3. CASE ~ Closing(s) /\ ModSocket(m_fd[s], ReadEvents)
    <3>1. m_output'[s] = 0 /\ m_state'[s] = "connected"
      BY <1>0, <1>1, <1>5, <2>3 DEF Watched
    <3>2. "out" \notin interest'[m_fd[s]]
      BY <1>1, <2>0, <2>3 DEF ModSocket, ReadEvents
    <3> QED  BY <1>1, <3>1, <3>2 DEF Watched
  <2> QED  BY <2>1, <2>2, <2>3 DEF HandleConnected
<1>6. Registered' = Registered /\ m_fd' = m_fd
  BY <1>1, <1>3 DEF Registered
<1> QED  BY <1>2, <1>4, <1>5, <1>6 DEF OneSocket

(* A new socket is watched for writing if it is connecting. *)
Born(s, fd, type, st, tm, events) ==
    /\ NewSocket(s, fd, type, st, tm)
    /\ \/ AddSocket(s, fd, events) /\ UNCHANGED <<stack, notice>>
       \/ /\ AddSocket(s, fd, events) \/ AddSocketFails
          /\ BeginClose(s, FALSE)

LEMMA NewSocketStep ==
    ASSUME Known, NEW s \in Sockets \ live, NEW fd \in Fds,
           NEW type, NEW st, NEW tm, NEW events \in SUBSET Events,
           "out" \in events <=> st = "connecting",
           Born(s, fd, type, st, tm, events)
    PROVE  OneSocket(s)
<1> USE DEF Born
<1>0. TcpTypeOK /\ notice[s] = "none" /\ s \in Sockets
  BY DEF Known, TypeInv, TypeOK, NoticeInv
<1>1. /\ live' = live \cup {s}
      /\ m_fd'[s] = fd /\ m_state'[s] = st /\ m_output'[s] = 0
      /\ \A t \in Sockets \ {s} :
            /\ m_fd'[t] = m_fd[t]
            /\ m_state'[t] = m_state[t]
            /\ m_output'[t] = m_output[t]
            /\ m_isResending'[t] = m_isResending[t]
  BY <1>0 DEF NewSocket, TcpTypeOK
<1>2. /\ UNCHANGED m_closeSockets
      /\ \A g \in Fds : g # fd => /\ interest'[g] = interest[g]
                                  /\ m_socketMap'[g] = m_socketMap[g]
  BY <1>0 DEF AddSocket, AddSocketFails, containerVars, TcpTypeOK,
              ContainerTypeOK
<1>3. FieldsOf(s)
  BY <1>0, <1>1, <1>2 DEF FieldsOf
<1>4. CASE AddSocket(s, fd, events) /\ UNCHANGED <<stack, notice>>
  <2>1. NoteOf(s)
    BY <1>0, <1>4, SameClosing, SilentNote
  <2>2. interest'[fd] = events
    BY <1>0, <1>4 DEF AddSocket, TcpTypeOK, ContainerTypeOK
  <2>3. Watched(s)'
    BY <1>1, <2>2 DEF Watched
  <2> QED  BY <1>3, <2>1, <2>3 DEF OneSocket
<1>5. CASE BeginClose(s, FALSE)
  <2>1. NoteOf(s) /\ Closing(s)'
    BY <1>0, <1>5, BeginCloseNote
  <2> QED  BY <1>3, <2>1 DEF OneSocket
<1> QED  BY <1>4, <1>5

LEMMA ListenStep == Known /\ Listen => \E s : OneSocket(s)
<1> SUFFICES ASSUME Known, Listen PROVE \E s : OneSocket(s)
  OBVIOUS
<1>1. PICK s \in Sockets \ live, fd \in Fds :
         /\ NewSocket(s, fd, "tcp", "listen", "off")
         /\ \/ /\ AddSocket(s, fd, ReadEvents)
               /\ UNCHANGED <<stack, notice>>
            \/ /\ AddSocketFails
               /\ BeginClose(s, FALSE)
  BY DEF Listen
<1>2. ReadEvents \in SUBSET Events /\ "out" \notin ReadEvents
  BY DEF ReadEvents, Events
<1>3. Born(s, fd, "tcp", "listen", "off", ReadEvents)
  BY <1>1 DEF Born
<1>4. OneSocket(s)
  BY <1>2, <1>3, NewSocketStep
<1> QED  BY <1>4

LEMMA ConnectStep == Known /\ Connect => \E s : OneSocket(s)
<1> SUFFICES ASSUME Known, Connect PROVE \E s : OneSocket(s)
  OBVIOUS
<1>1. PICK s \in Sockets \ live, fd \in Fds :
       \/ /\ NewSocket(s, fd, "tcp", "connected", "off")
          /\ AddSocket(s, fd, ReadEvents)
          /\ UNCHANGED <<stack, notice>>
       \/ /\ NewSocket(s, fd, "tcp", "connecting", "fresh")
          /\ AddSocket(s, fd, ReadWriteEvents)
          /\ UNCHANGED <<stack, notice>>
       \/ /\ NewSocket(s, fd, "tcp", "close", "off")
          /\ AddSocketFails
          /\ BeginClose(s, FALSE)
  BY DEF Connect
<1>2. /\ ReadEvents \in SUBSET Events /\ "out" \notin ReadEvents
      /\ ReadWriteEvents \in SUBSET Events /\ "out" \in ReadWriteEvents
  BY DEF ReadEvents, ReadWriteEvents, Events
<1>3. \/ Born(s, fd, "tcp", "connected", "off", ReadEvents)
      \/ Born(s, fd, "tcp", "connecting", "fresh", ReadWriteEvents)
      \/ Born(s, fd, "tcp", "close", "off", ReadEvents)
  BY <1>1 DEF Born
<1>4. OneSocket(s)
  BY <1>2, <1>3, NewSocketStep
<1> QED  BY <1>4

LEMMA UdpStep == ASSUME Known, NEW st \in {"listen", "connected"},
                        NewUdpSocket(st)
                 PROVE  \E s : OneSocket(s)
<1>1. PICK s \in Sockets \ live, fd \in Fds :
         /\ NewSocket(s, fd, "udp", st, "off")
         /\ \/ /\ AddSocket(s, fd, ReadEvents)
               /\ UNCHANGED <<stack, notice>>
            \/ /\ AddSocketFails
               /\ BeginClose(s, FALSE)
  BY DEF NewUdpSocket
<1>2. ReadEvents \in SUBSET Events /\ "out" \notin ReadEvents
  BY DEF ReadEvents, Events
<1>3. Born(s, fd, "udp", st, "off", ReadEvents)
  BY <1>1 DEF Born
<1>4. OneSocket(s)
  BY <1>2, <1>3, NewSocketStep
<1> QED  BY <1>4

LEMMA AcceptStep ==
    ASSUME Known, NEW l \in live, notice[l] = "none", Accept(l)
    PROVE  \E s : OneSocket(s)
<1>1. CASE AcceptFails(l)
  <2>1. /\ BeginClose(l, FALSE)
        /\ UNCHANGED <<containerVars, m_fd, m_state, m_output, m_isResending, live>>
    BY <1>1 DEF AcceptFails, socketVars
  <2> QED  BY <2>1, CloseOnlyStep
<1>2. CASE Accepts
  <2>1. PICK s \in Sockets \ live, fd \in Fds :
           /\ NewSocket(s, fd, "tcp", "accept", "fresh")
           /\ \/ /\ AddSocket(s, fd, ReadEvents)
                 /\ UNCHANGED <<stack, notice>>
              \/ /\ AddSocket(s, fd, ReadEvents)
                 /\ BeginClose(s, FALSE)
              \/ /\ AddSocketFails
                 /\ BeginClose(s, FALSE)
    BY <1>2 DEF Accepts
  <2>2. ReadEvents \in SUBSET Events /\ "out" \notin ReadEvents
    BY DEF ReadEvents, Events
  <2>3. Born(s, fd, "tcp", "accept", "fresh", ReadEvents)
    BY <2>1 DEF Born
  <2>4. OneSocket(s)
    BY <2>2, <2>3, NewSocketStep
  <2> QED  BY <2>4
<1> QED  BY <1>1, <1>2 DEF Accept

LEMMA ReadStep ==
    ASSUME Known, NEW s \in live, notice[s] = "none", Read(s) \/ UdpRead(s)
    PROVE  OneSocket(s)
<1>1. UNCHANGED <<containerVars, m_fd, m_state, m_output, m_isResending, live>>
  BY DEF Read, UdpRead
<1>2. \/ UNCHANGED <<stack, notice>>
      \/ BeginClose(s, FALSE)
      \/ Call("packet", s) /\ UNCHANGED notice
  BY DEF Read, UdpRead
<1>3. CASE BeginClose(s, FALSE)
  BY <1>1, <1>3, CloseOnlyStep
<1>4. CASE UNCHANGED <<stack, notice>>
  <2>1. NoteOf(s)
    BY <1>4, Knowledge, SameClosing, SilentNote
  <2> QED  BY <1>1, <2>1, SameFieldsStep
<1>5. CASE Call("packet", s) /\ UNCHANGED notice
  <2>1. \A t : Closing(t)' <=> Closing(t)
    BY <1>5, Knowledge, PacketCall
  <2>2. NoteOf(s)
    BY <1>5, <2>1, Knowledge, SilentNote
  <2> QED  BY <1>1, <2>2, SameFieldsStep
<1> QED  BY <1>2, <1>3, <1>4, <1>5

LEMMA SameTcpUnnoticed == UNCHANGED tcpVars => Unnoticed
<1> SUFFICES ASSUME UNCHANGED tcpVars PROVE Unnoticed
  OBVIOUS
<1>1. \A t : Closing(t)' <=> Closing(t)
  BY SameClosing DEF tcpVars
<1> QED  BY <1>1 DEF Unnoticed, tcpVars, containerVars, socketVars

LEMMA OnReadStep ==
    ASSUME Known, NEW s \in live, notice[s] = "none", OnRead(s)
    PROVE  MethodStep
BY AcceptStep, ReadStep, SameTcpUnnoticed
   DEF OnRead, Virtual, HandleRead, Sessions, MethodStep

(* The one method called on a socket that may be closed already. *)
LEMMA OnWriteStep ==
    ASSUME Known, NEW s \in live,
           notice[s] = "none" \/ m_state[s] = "close", OnWrite(s)
    PROVE  MethodStep
<1>1. CASE HandleConnected(s)
  <2>1. notice[s] = "none"
    BY <1>1 DEF HandleConnected
  <2> QED  BY <1>1, <2>1, HandleConnectedStep DEF MethodStep
<1>2. CASE /\ m_state[s] \in {"accept", "connected"}
           /\ m_output[s] > 0 /\ Write(s, m_output[s], FALSE)
  <2>1. m_output[s] \in 1..OutCap
    BY <1>2, Knowledge DEF TcpTypeOK
  <2>2. notice[s] = "none"
    BY <1>2
  <2> QED  BY <1>2, <2>1, <2>2, WriteStep DEF MethodStep
<1>3. CASE UNCHANGED <<containerVars, live, m_type, m_fd, m_state, m_output,
                       m_isResending, fdState, stack, notice>>
  <2>1. \A t : Closing(t)' <=> Closing(t)
    BY <1>3, SameClosing
  <2> QED  BY <1>3, <2>1 DEF MethodStep, Unnoticed, containerVars
<1>4. CASE UNCHANGED tcpVars
  BY <1>4, SameTcpUnnoticed DEF MethodStep
<1> QED  BY <1>1, <1>2, <1>3, <1>4
         DEF OnWrite, Virtual, HandleWrite, UdpHandleWrite

LEMMA OnErrorStep ==
    ASSUME Known, NEW s \in live, notice[s] = "none",
           OnError(s) \/ OnTimeout(s)
    PROVE  MethodStep
<1>1. CASE BeginClose(s, FALSE)
           /\ UNCHANGED <<containerVars, socketVars, fdState>>
  BY <1>1, CloseOnlyStep DEF MethodStep, socketVars
<1> QED  BY <1>1, SameTcpUnnoticed
         DEF OnError, OnTimeout, Virtual, HandleError, UdpHandleError,
             HandleTimeout, UdpHandleTimeout, MethodStep

LEMMA OnSendStep ==
    ASSUME Known, NEW s \in live, OnSend(s) PROVE MethodStep
<1>1. CASE SendPacket(s)
  <2>1. m_output[s] + 1 \in 1..OutCap
    <3>1. TcpTypeOK /\ s \in Sockets
      BY Knowledge
    <3>2. m_output[s] \in 0..OutCap /\ m_output[s] < OutCap
      BY <1>1, <3>1 DEF SendPacket, TcpTypeOK
    <3> QED  BY <3>2, SocketAssumption
  <2>2. /\ m_state[s] \in {"accept", "connected"}
        /\ Write(s, m_output[s] + 1, TRUE)
    BY <1>1 DEF SendPacket
  <2>3. OneSocket(s)
    BY <2>1, <2>2, WriteStep
  <2> QED  BY <2>3 DEF MethodStep
<1>2. CASE UdpSendPacket(s)
  <2>1. NoteOf(s)
    BY <1>2, Knowledge, NoCloseNote DEF UdpSendPacket
  <2> QED  BY <1>2, <2>1, SameFieldsStep DEF UdpSendPacket, MethodStep
<1> QED  BY <1>1, <1>2 DEF OnSend, Virtual

(* HandlePacket of a UdpSocket fails: the call of HandleClose takes the     *)
(* place of the one that returned.                                          *)
LEMMA PacketReturnsStep ==
    ASSUME Known, PacketReturns PROVE MethodStep
<1>1. /\ stack # <<>> /\ Top.cb = "packet" /\ TcpTypeOK
      /\ UNCHANGED <<containerVars, socketVars>>
      /\ stack \in Seq(Frames)
  BY DEF PacketReturns, Known, TypeInv, TypeOK, TcpTypeOK
<1>2. CASE stack' = SubSeq(stack, 1, Len(stack) - 1) /\ UNCHANGED notice
  <2>1. ASSUME NEW t PROVE Closing(t)' <=> Closing(t)
    <3>1. \A i \in DOMAIN stack : stack[i] = [cb |-> "close", s |-> t]
                                    => stack[i] # Top
      BY <1>1
    <3> QED  BY <1>1, <1>2, <3>1, PopFrame DEF Closing
  <2> QED  BY <1>1, <1>2, <2>1
           DEF MethodStep, Unnoticed, containerVars, socketVars
<1>3. CASE UnpackFailed(Top.s)
  <2>1. /\ DOMAIN stack' = DOMAIN stack
        /\ Top \in Frames
        /\ \A i \in DOMAIN stack :
              \/ stack'[i] = stack[i]
              \/ /\ stack[i] = Top
                 /\ stack'[i] = [cb |-> "close", s |-> Top.s]
        /\ \E i \in DOMAIN stack :
              /\ stack[i] = Top
              /\ stack'[i] = [cb |-> "close", s |-> Top.s]
    BY <1>1, <1>3, FailedFrame
  <2>2. PICK s \in live : s = Top.s /\ s \in Sockets
    BY <2>1 DEF Known, OwnInv, NoDanglingSocket, Frames
  <2>3. Closing(s)'
    BY <2>1, <2>2 DEF Closing
  <2>4. ASSUME NEW t, t # s PROVE Closing(t)' <=> Closing(t)
    <3>1. [cb |-> "close", s |-> Top.s] # [cb |-> "close", s |-> t]
      BY <2>2, <2>4
    <3>2. Top # [cb |-> "close", s |-> t]
      BY <1>1
    <3> QED  BY <2>1, <3>1, <3>2 DEF Closing
  <2>5. /\ notice'[s] \notin {"none", "twice"}
        /\ \A t \in Sockets \ {s} : notice'[t] = notice[t]
    <3>1. notice \in [Sockets -> Notices] /\ notice[s] \in Notices
          /\ notice[s] # "twice"
      BY <1>1, <2>2 DEF TcpTypeOK, Known, NoticeInv
    <3> QED  BY <1>3, <2>2, <3>1, TellOnce DEF UnpackFailed
  <2>6. NoteOf(s)
    BY <2>3, <2>4, <2>5 DEF NoteOf
  <2>7. OneSocket(s)
    BY <1>1, <2>2, <2>6, SameFieldsStep DEF socketVars
  <2> QED  BY <2>7 DEF MethodStep
<1> QED  BY <1>2, <1>3 DEF PacketReturns

-----------------------------------------------------------------------------
(* Every step but the end of a Close and the deletion is such a step. *)

LEMMA AppStep == ASSUME Known, App PROVE MethodStep
<1>1. CASE AppListen
  BY <1>1, ListenStep DEF AppListen, AppCall, MethodStep
<1>2. CASE AppConnect
  BY <1>2, ConnectStep DEF AppConnect, AppCall, MethodStep
<1>3. CASE AppLeak
  <2>1. UNCHANGED <<containerVars, socketVars, stack, notice>>
    BY <1>3 DEF AppLeak, AppCall, LeakFd
  <2>2. \A t : Closing(t)' <=> Closing(t)
    BY <2>1, SameClosing
  <2> QED  BY <2>1, <2>2 DEF MethodStep, Unnoticed, containerVars, socketVars
<1>4. ASSUME NEW s \in Sockets, AppSend(s) PROVE MethodStep
  BY <1>4, OnSendStep DEF AppSend, AppCall
<1>5. ASSUME NEW s \in Sockets, AppClose(s) PROVE MethodStep
  <2>1. /\ s \in live /\ BeginClose(s, TRUE)
        /\ UNCHANGED <<containerVars, m_fd, m_state, m_output, m_isResending, live>>
    BY <1>5 DEF AppClose, AppCall, socketVars
  <2> QED  BY <2>1, CloseOnlyStep DEF MethodStep
<1>6. ASSUME NEW s \in Sockets, AppSetTimeout(s) PROVE MethodStep
  <2>1. UNCHANGED <<containerVars, live, m_fd, m_state, m_output,
                    m_isResending, stack, notice>>
    BY <1>6 DEF AppSetTimeout, AppCall
  <2>2. \A t : Closing(t)' <=> Closing(t)
    BY <2>1, SameClosing
  <2> QED  BY <2>1, <2>2 DEF MethodStep, Unnoticed, containerVars
<1>7. CASE AppUdpListen \/ AppUdpConnect
  BY <1>7, UdpStep
     DEF AppUdpListen, AppUdpConnect, AppCall, UdpListen, UdpConnect, MethodStep
<1> QED  BY <1>1, <1>2, <1>3, <1>4, <1>5, <1>6, <1>7 DEF App

LEMMA EnvironmentStep ==
    ASSUME Net \/ Clock \/ UNCHANGED vars PROVE MethodStep
<1>1. UNCHANGED <<containerVars, live, m_fd, m_state, m_output, m_isResending,
                  stack, notice>>
  BY DEF Net, NetEstablish, NetRefuse, Clock, TimePasses, vars, tcpVars,
         socketVars
<1>2. \A t : Closing(t)' <=> Closing(t)
  BY <1>1, SameClosing
<1> QED  BY <1>1, <1>2 DEF MethodStep, Unnoticed, containerVars

(* The loop calls only sockets that the application was told nothing of. *)
LEMMA FreshEntry ==
    ASSUME Known, stack = <<>>, NEW fd \in Registered
    PROVE  m_socketMap[fd] \in live /\ notice[m_socketMap[fd]] = "none"
<1>1. m_socketMap[fd] \in live \ m_closeSockets
  BY DEF Known, OwnInv, RegisteredSocketOwnsFd
<1>2. \A t : ~ Closing(t)
  BY DEF Closing
<1> QED  BY <1>1, <1>2, Knowledge DEF Known, NoticeInv

LEMMA LoopStep == ASSUME Known, Loop, ~ HandleSockets PROVE MethodStep
<1>1. CASE ScanSocket
  <2>1. stack = <<>> /\ itr \in Registered /\ OnTimeout(m_socketMap[itr])
    BY <1>1 DEF ScanSocket, AtLoop, Known, TypeInv, LoopInv
  <2> QED  BY <2>1, FreshEntry, OnErrorStep
<1>2. CASE ScanAdvance \/ ScanAdvanceErased \/ ScanEnd \/ EpollWait
             \/ DispatchEnd
  <2>1. UNCHANGED tcpVars
    BY <1>2 DEF ScanAdvance, ScanAdvanceErased, ScanEnd, EpollWait,
                DispatchEnd
  <2> QED  BY <2>1, SameTcpUnnoticed DEF MethodStep
<1>3. ASSUME NEW fd \in Fds, DispatchEvent(fd) PROVE MethodStep
  <2>1. CASE m_socketMap[fd] = NoSocket
    <3>1. UNCHANGED tcpVars
      BY <1>3, <2>1 DEF DispatchEvent
    <3> QED  BY <3>1, SameTcpUnnoticed DEF MethodStep
  <2>2. CASE m_socketMap[fd] # NoSocket
    <3>1. m_socketMap[fd] \in live /\ notice[m_socketMap[fd]] = "none"
      BY <1>3, <2>2, FreshEntry DEF DispatchEvent, AtLoop, Registered
    <3>2. \/ OnError(m_socketMap[fd])
          \/ OnRead(m_socketMap[fd])
          \/ OnWrite(m_socketMap[fd])
      BY <1>3, <2>2 DEF DispatchEvent
    <3> QED  BY <3>1, <3>2, OnErrorStep, OnReadStep, OnWriteStep
  <2> QED  BY <2>1, <2>2
<1>4. CASE DispatchWrite
  <2>1. /\ pendingWrite \in live /\ stack = <<>> /\ OnWrite(pendingWrite)
        /\ pendingWrite \in Sockets
    BY <1>4, Knowledge
       DEF DispatchWrite, AtLoop, Known, OwnInv, NoDanglingSocket
  <2>2. ~ Closing(pendingWrite)
    BY <2>1 DEF Closing
  <2>3. notice[pendingWrite] = "none" \/ m_state[pendingWrite] = "close"
    BY <2>1, <2>2 DEF Known, NoticeInv
  <2> QED  BY <2>1, <2>3, OnWriteStep
<1> QED  BY <1>1, <1>2, <1>3, <1>4 DEF Loop

LEMMA EveryStep ==
    ASSUME Known, [Next]_vars
    PROVE  MethodStep \/ CloseReturns \/ HandleSockets
BY AppStep, EnvironmentStep, LoopStep, PacketReturnsStep
   DEF Next, HandlerReturns, Halted

-----------------------------------------------------------------------------
(* The invariants are preserved. *)

LEMMA OneSocketNotice ==
    ASSUME Known, NEW s, OneSocket(s) PROVE NoticeInv'
<1>1. /\ s \in Sockets /\ live' = live \cup {s}
      /\ m_closeSockets' = m_closeSockets
      /\ \A t \in Sockets \ {s} : m_state'[t] = m_state[t]
      /\ s \in live /\ m_state[s] = "close" => m_state'[s] = "close"
  BY DEF OneSocket, FieldsOf
<1>2. NoteOf(s)
  BY DEF OneSocket
<1>3. m_closeSockets \subseteq live /\ live \subseteq Sockets
  BY DEF Known, OwnInv, NoDanglingSocket, TypeInv, TypeOK, TcpTypeOK
<1>4. /\ notice[s] \in Notices /\ notice[s] # "twice"
      /\ AfterUse(notice[s]) # "twice"
      /\ AfterUse(notice[s]) = "none" <=> notice[s] = "none"
  BY <1>1 DEF Known, TypeInv, TypeOK, TcpTypeOK, NoticeInv, AfterUse, Notices
<1>5. s \notin live => ~ Closing(s)
  BY DEF Known, OwnInv, NoDanglingSocket, Closing
<1>6. \A t \in Sockets : notice'[t] # "twice"
  BY <1>2, <1>4 DEF Known, NoticeInv, NoteOf
<1>7. ASSUME NEW t \in Sockets \ {s}
      PROVE  notice'[t] # "none"
                <=> t \in live' /\ (Closing(t)' \/ t \in m_closeSockets')
  <2>1. notice'[t] = notice[t] /\ (Closing(t)' <=> Closing(t))
    BY <1>2 DEF NoteOf
  <2>2. notice[t] # "none"
           <=> t \in live /\ (Closing(t) \/ t \in m_closeSockets)
    BY DEF Known, NoticeInv
  <2> QED  BY <1>1, <2>1, <2>2
<1>8. notice'[s] # "none"
         <=> s \in live' /\ (Closing(s)' \/ s \in m_closeSockets')
  <2>1. notice[s] # "none"
           <=> s \in live /\ (Closing(s) \/ s \in m_closeSockets)
    BY <1>1 DEF Known, NoticeInv
  <2>2. CASE Closing(s)' /\ notice'[s] \notin {"none", "twice"}
    BY <1>1, <2>2
  <2>3. CASE /\ Closing(s)' <=> Closing(s)
             /\ notice'[s] \in {notice[s], AfterUse(notice[s])}
    BY <1>1, <1>3, <1>4, <1>5, <2>1, <2>3
  <2> QED  BY <1>2, <2>2, <2>3 DEF NoteOf
<1>9. \A t \in m_closeSockets' : m_state'[t] = "close"
  BY <1>1, <1>3 DEF Known, NoticeInv
<1> QED  BY <1>6, <1>7, <1>8, <1>9 DEF NoticeInv

LEMMA OneSocketWatch ==
    ASSUME Known, OwnInv', NEW s, OneSocket(s) PROVE WatchInv'
<1>1. /\ s \in Sockets /\ live' = live \cup {s}
      /\ \A t \in Sockets \ {s} :
            /\ m_fd'[t] = m_fd[t]
            /\ m_state'[t] = m_state[t]
            /\ m_output'[t] = m_output[t]
            /\ m_isResending'[t] = m_isResending[t]
      /\ \A g \in Fds : g # m_fd'[s] => /\ interest'[g] = interest[g]
                                        /\ m_socketMap'[g] = m_socketMap[g]
  BY DEF OneSocket, FieldsOf
<1>2. live \subseteq Sockets
  BY DEF Known, TypeInv, TypeOK, TcpTypeOK
<1>3. ASSUME NEW t \in live', m_fd'[t] \in Registered', t # s
      PROVE  Closing(t)' \/ Watched(t)'
  <2>1. /\ t \in live /\ t \in Sockets
        /\ m_fd'[t] \in Fds /\ m_fd'[t] # NoFd /\ m_fd'[t] = m_fd[t]
    BY ContainerAssumption, <1>1, <1>2, <1>3 DEF Registered, NoFd
  <2>2. m_fd'[t] # m_fd'[s]
    BY <1>1, <1>3, <2>1 DEF OwnInv, FdOwnership
  <2>3. /\ m_fd[t] \in Registered
        /\ interest'[m_fd[t]] = interest[m_fd[t]]
    BY <1>1, <1>3, <2>1, <2>2 DEF Registered
  <2>4. Closing(t) \/ Watched(t)
    BY <2>1, <2>3 DEF Known, WatchInv
  <2>5. Closing(t) => Closing(t)'
    BY <1>3, <2>1 DEF OneSocket, NoteOf
  <2>6. Watched(t) => Watched(t)'
    BY <1>1, <1>3, <2>1, <2>3 DEF Watched
  <2> QED  BY <2>4, <2>5, <2>6
<1>4. m_fd'[s] \in Registered' => Closing(s)' \/ Watched(s)'
  BY DEF OneSocket
<1> QED  BY <1>3, <1>4 DEF WatchInv

LEMMA UnnoticedKeeps ==
    ASSUME Known, Unnoticed PROVE NoticeInv' /\ WatchInv'
<1>1. /\ UNCHANGED <<m_socketMap, m_closeSockets, interest, live, m_fd,
                     m_state, m_output, m_isResending, notice>>
      /\ \A t \in Sockets : Closing(t)' <=> Closing(t)
  BY DEF Unnoticed
<1>2. live \subseteq Sockets /\ NoticeInv /\ WatchInv
  BY DEF Known, TypeInv, TypeOK, TcpTypeOK
<1>3. NoticeInv'
  BY <1>1, <1>2 DEF NoticeInv
<1>4. \A t \in live : Watched(t) => Watched(t)'
  BY <1>1 DEF Watched
<1>5. Registered' = Registered
  BY <1>1 DEF Registered
<1>6. WatchInv'
  BY <1>1, <1>2, <1>4, <1>5 DEF WatchInv
<1> QED  BY <1>3, <1>6

(* The end of Close: what was being closed is closed, with its handler      *)
(* called, and is registered no more.                                       *)
LEMMA CloseKeeps ==
    ASSUME Known, CloseReturns, OwnInv' PROVE NoticeInv' /\ WatchInv'
<1>0. TypeInv /\ OwnInv /\ TcpTypeOK /\ NoticeInv /\ WatchInv
  BY DEF Known, TypeInv, TypeOK
<1>1. PICK s \in live : s = Top.s /\ Closing(s) /\ FinishClose(s)
  BY <1>0, ClosingSocket
<1>2. /\ \A i \in DOMAIN stack' : i \in DOMAIN stack /\ stack'[i] = stack[i]
      /\ \A t : Closing(t) /\ t # s => Closing(t)'
  BY <1>0, <1>1, ClosingSocket
<1>3. \A t : Closing(t)' => Closing(t)
  BY <1>2 DEF Closing
<1>4. /\ s \in Sockets /\ live \subseteq Sockets
      /\ m_closeSockets' = m_closeSockets \cup {s}
      /\ UNCHANGED <<live, m_output, m_isResending, notice>>
      /\ m_state'[s] = "close"
      /\ \A t \in Sockets \ {s} :
            m_state'[t] = m_state[t] /\ m_fd'[t] = m_fd[t]
  BY <1>0, <1>1 DEF FinishClose, DelSocket, ResetFd, ResetState, TcpTypeOK
<1>5. \A g \in Fds : g # m_fd[s] => /\ interest'[g] = interest[g]
                                    /\ m_socketMap'[g] = m_socketMap[g]
  <2>1. Deregister(m_fd[s])
    BY <1>1 DEF FinishClose, DelSocket
  <2>2. /\ interest \in [Fds -> SUBSET Events]
        /\ m_socketMap \in [Fds -> Sockets \cup {NoSocket}]
    BY <1>0 DEF TcpTypeOK, ContainerTypeOK
  <2>3. CASE m_fd[s] \in Fds
    BY <2>1, <2>2, <2>3 DEF Deregister
  <2>4. CASE m_fd[s] \notin Fds
    BY <2>1, <2>4 DEF Deregister
  <2> QED  BY <2>3, <2>4
<1>6. NoticeInv'
  <2>1. \A t \in m_closeSockets' : m_state'[t] = "close"
    BY <1>0, <1>4 DEF NoticeInv, TcpTypeOK, ContainerTypeOK
  <2>2. ASSUME NEW t \in Sockets
        PROVE  notice'[t] # "none"
                  <=> t \in live' /\ (Closing(t)' \/ t \in m_closeSockets')
    <3>1. notice[t] # "none"
             <=> t \in live /\ (Closing(t) \/ t \in m_closeSockets)
      BY <1>0 DEF NoticeInv
    <3>2. CASE t = s
      BY <1>1, <1>4, <3>1, <3>2
    <3>3. CASE t # s
      BY <1>2, <1>3, <1>4, <3>1, <3>3
    <3> QED  BY <3>2, <3>3
  <2>3. \A t \in Sockets : notice'[t] # "twice"
    BY <1>0, <1>4 DEF NoticeInv
  <2> QED  BY <2>1, <2>2, <2>3 DEF NoticeInv
<1>7. WatchInv'
  <2>1. ASSUME NEW t \in live', m_fd'[t] \in Registered'
        PROVE  Closing(t)' \/ Watched(t)'
    <3>1. t # s
      <4>1. /\ m_fd'[t] \in Fds /\ m_socketMap'[m_fd'[t]] \in live' \ m_closeSockets'
            /\ m_fd'[m_socketMap'[m_fd'[t]]] = m_fd'[t]
        BY <2>1 DEF OwnInv, RegisteredSocketOwnsFd, Registered
      <4>2. m_fd'[t] # NoFd
        BY ContainerAssumption, <4>1 DEF NoFd
      <4>3. t \in Sockets /\ m_socketMap'[m_fd'[t]] \in Sockets
        BY <1>4, <2>1, <4>1
      <4>4. m_socketMap'[m_fd'[t]] = t
        BY <4>1, <4>2, <4>3 DEF OwnInv, FdOwnership
      <4> QED  BY <1>4, <4>1, <4>4
    <3>2. t \in live /\ t \in Sockets /\ m_fd'[t] = m_fd[t] /\ m_fd[t] \in Fds
      BY <1>4, <2>1, <3>1 DEF Registered
    <3>3. m_fd[t] # m_fd[s]
      BY ContainerAssumption, <1>0, <1>4, <3>1, <3>2
         DEF OwnInv, FdOwnership, NoFd
    <3>4. m_fd[t] \in Registered
      BY <1>5, <2>1, <3>2, <3>3 DEF Registered
    <3>5. Watched(t) => Watched(t)'
      BY <1>4, <1>5, <3>1, <3>2, <3>3 DEF Watched
    <3>6. Closing(t) => Closing(t)'
      BY <1>2, <3>1
    <3> QED  BY <1>0, <3>2, <3>4, <3>5, <3>6 DEF WatchInv
  <2> QED  BY <2>1 DEF WatchInv
<1> QED  BY <1>6, <1>7

(* Deletion forgets what was said of the sockets it deletes. *)
LEMMA DeleteKeepsNotices ==
    ASSUME Known, HandleSockets PROVE NoticeInv' /\ WatchInv'
<1>0. /\ OwnInv /\ NoticeInv /\ WatchInv /\ live \subseteq Sockets
      /\ m_closeSockets \subseteq Sockets
  BY DEF Known, TypeInv, TypeOK, TcpTypeOK, ContainerTypeOK
<1>1. /\ live' = live \ m_closeSockets
      /\ m_closeSockets' = {}
      /\ UNCHANGED <<m_socketMap, interest, m_fd, m_state, stack>>
      /\ \A s \in Sockets :
            notice'[s] = IF s \in m_closeSockets THEN "none" ELSE notice[s]
      /\ \A s \in Sockets \ m_closeSockets :
            /\ m_output'[s] = m_output[s]
            /\ m_isResending'[s] = m_isResending[s]
      /\ stack = <<>>
  <2>1. /\ live' = live \ m_closeSockets
        /\ m_closeSockets' = {}
        /\ UNCHANGED <<m_socketMap, interest, m_fd, m_state, stack>>
        /\ stack = <<>>
    BY DEF HandleSockets, ClearCloseSockets, AtLoop
  <2>2. \A s \in Sockets :
           notice'[s] = IF s \in m_closeSockets THEN "none" ELSE notice[s]
    BY DEF HandleSockets
  <2>3. \A s \in Sockets \ m_closeSockets :
           /\ m_output'[s] = m_output[s]
           /\ m_isResending'[s] = m_isResending[s]
    <3>1. m_isResending \in [Sockets -> BOOLEAN]
      BY DEF Known, TypeInv, TypeOK, TcpTypeOK
    <3> QED  BY <3>1 DEF HandleSockets
  <2> QED  BY <2>1, <2>2, <2>3
<1>2. \A t : ~ Closing(t) /\ ~ Closing(t)'
  BY <1>1 DEF Closing
<1>3. NoticeInv'
  BY <1>0, <1>1, <1>2 DEF NoticeInv
<1>4. WatchInv'
  <2>1. ASSUME NEW t \in live', m_fd'[t] \in Registered' PROVE Watched(t)'
    <3>1. /\ t \in live /\ t \in Sockets \ m_closeSockets
          /\ m_fd[t] \in Registered
      BY <1>0, <1>1, <2>1 DEF Registered
    <3>2. Watched(t)
      BY <1>0, <1>2, <3>1 DEF WatchInv
    <3> QED  BY <1>1, <3>1, <3>2 DEF Watched
  <2> QED  BY <2>1 DEF WatchInv
<1> QED  BY <1>3, <1>4

LEMMA NextKnown == Known /\ [Next]_vars => Known'
<1> SUFFICES ASSUME Known, [Next]_vars PROVE Known'
  OBVIOUS
<1>1. TypeInv' /\ OwnInv'
  BY NextType, NextOwns DEF Known
<1>2. MethodStep \/ CloseReturns \/ HandleSockets
  BY EveryStep
<1>3. NoticeInv' /\ WatchInv'
  BY <1>1, <1>2, OneSocketNotice, OneSocketWatch, UnnoticedKeeps, CloseKeeps,
     DeleteKeepsNotices DEF MethodStep
<1> QED  BY <1>1, <1>3 DEF Known

LEMMA InitKnown == Init => Known
<1> SUFFICES ASSUME Init PROVE Known
  OBVIOUS
<1>1. NoticeInv /\ WatchInv
  BY DEF Init, TcpInit, ContainerInit, NoticeInv, WatchInv
<1> QED  BY <1>1, InitType, InitOwns DEF Known

LEMMA KnownAlways == Spec => []Known
<1> QED  BY InitKnown, NextKnown, PTL DEF Spec

(* HandleClose is called for every socket before it is closed, and the loop *)
(* never calls it a second time for one: an error, an event and a timeout   *)
(* never each report the same socket.                                       *)
THEOREM ToldOnce == Spec => []NotifiedOnce
<1>1. Known => NotifiedOnce
  BY DEF Known, NoticeInv, NotifiedOnce, OwnInv, NoDanglingSocket, TypeInv,
         TypeOK, TcpTypeOK, ContainerTypeOK
<1> QED  BY <1>1, KnownAlways, PTL

(* A registered socket is watched for writability exactly while it is       *)
(* connecting or has output waiting, whatever ModSocket calls failed.       *)
THEOREM WatchesAreRight == Spec => []WatchedForWriting
<1>1. Known => WatchedForWriting
  <2> SUFFICES ASSUME Known, NEW fd \in Registered
               PROVE  LET s == m_socketMap[fd] IN
                      Closing(s) \/ ("out" \in interest[fd]
                         <=> m_state[s] = "connecting" \/ m_output[s] > 0)
    BY DEF WatchedForWriting
  <2>1. m_socketMap[fd] \in live /\ m_fd[m_socketMap[fd]] = fd
    BY DEF Known, OwnInv, RegisteredSocketOwnsFd
  <2>2. Closing(m_socketMap[fd]) \/ Watched(m_socketMap[fd])
    BY <2>1 DEF Known, WatchInv
  <2> QED  BY <2>1, <2>2 DEF Watched
<1> QED  BY <1>1, KnownAlways, PTL

-----------------------------------------------------------------------------
(* What it takes to violate ConnectedMeansEstablished, which TLC finds the  *)
(* code to violate: it only happens to sockets that begin to connect while  *)
(* events wait to be handled.                                               *)

Begins(s) == s \notin live /\ s \in live' /\ m_state'[s] = "connecting"

ConnectsBetweenBatches ==
    [][\A s \in Sockets : Begins(s) => phase # "dispatch"]_vars

(* An event to write waits for s. *)
Writable(s) ==
    pendingWrite = s \/ (m_fd[s] \in Fds /\ "out" \in batch[m_fd[s]])

Up(s) == m_fd[s] \in Fds /\ fdState[m_fd[s]] = "up"

EventInv ==
    /\ phase # "dispatch" => batch = NoEvents
    /\ \A s \in live : m_state[s] = "connecting" /\ Writable(s) => Up(s)
    /\ \A s \in live : m_state[s] = "connected" => Closing(s) \/ Up(s)

(* No connection ends and no socket that exists changes its state.          *)
Steady ==
    /\ live \subseteq live'
    /\ \A fd \in Fds : fdState[fd] = "up" => fdState'[fd] = "up"
    /\ \A t \in live : m_state'[t] = m_state[t] /\ m_fd'[t] = m_fd[t]
    /\ \A t \in live' \ live : m_state'[t] = "connected" => Up(t)'

(* s, for which an event waited, becomes connected.                         *)
Promoted(s) ==
    /\ Up(s)
    /\ UNCHANGED <<live, m_fd, fdState>>
    /\ \A t \in live \ {s} : m_state'[t] = m_state[t]
    /\ m_state'[s] = "connected"

LEMMA SameSteady == UNCHANGED <<live, m_fd, m_state, fdState>> => Steady
BY DEF Steady

LEMMA NewFdSteady ==
    ASSUME TcpTypeOK, NEW fd \in Fds, IsNewFd(fd),
           NEW st \in FdStates, OpenFd(fd, st)
    PROVE  /\ \A g \in Fds : fdState[g] = "up" => fdState'[g] = "up"
           /\ fdState'[fd] = st
BY DEF TcpTypeOK, IsNewFd, OpenFd

LEMMA NewSocketSteady ==
    ASSUME TcpTypeOK, NEW s \in Sockets \ live, NEW fd \in Fds, IsNewFd(fd),
           NEW kind \in FdStates, OpenFd(fd, kind),
           NEW type, NEW st, NEW tm, NewSocket(s, fd, type, st, tm),
           st = "connected" => kind = "up"
    PROVE  Steady
<1>1. /\ \A g \in Fds : fdState[g] = "up" => fdState'[g] = "up"
      /\ fdState'[fd] = kind
  BY NewFdSteady
<1>2. /\ live' = live \cup {s}
      /\ m_fd'[s] = fd /\ m_state'[s] = st
      /\ \A t \in live : m_state'[t] = m_state[t] /\ m_fd'[t] = m_fd[t]
  BY DEF NewSocket, TcpTypeOK
<1> QED  BY <1>1, <1>2 DEF Steady, Up

LEMMA CreationSteady ==
    ASSUME TcpTypeOK,
           \/ Listen \/ Connect \/ UdpListen \/ UdpConnect \/ LeakFd
           \/ \E l : Accept(l)
    PROVE  Steady
<1>0. {"listen", "up", "syn", "down", "orphan"} \subseteq FdStates
  BY DEF FdStates
<1>1. CASE Listen
  BY <1>0, <1>1, NewSocketSteady DEF Listen
<1>2. CASE Connect
  BY <1>0, <1>2, NewSocketSteady DEF Connect
<1>3. CASE UdpListen \/ UdpConnect
  BY <1>0, <1>3, NewSocketSteady DEF UdpListen, UdpConnect, NewUdpSocket
<1>4. CASE LeakFd
  BY <1>0, <1>4, NewFdSteady DEF LeakFd, Steady, socketVars
<1>5. ASSUME NEW l, Accept(l) PROVE Steady
  <2>1. CASE AcceptFails(l)
    BY <1>0, <2>1, NewFdSteady DEF AcceptFails, Steady, socketVars
  <2>2. CASE Accepts
    BY <1>0, <2>2, NewSocketSteady DEF Accepts
  <2> QED  BY <1>5, <2>1, <2>2 DEF Accept
<1> QED  BY <1>1, <1>2, <1>3, <1>4, <1>5

LEMMA MethodSteady ==
    ASSUME TcpTypeOK, NEW s \in live,
           OnRead(s) \/ OnError(s) \/ OnTimeout(s) \/ OnSend(s)
    PROVE  Steady
<1>1. CASE OnRead(s)
  BY <1>1, CreationSteady, SameSteady
     DEF OnRead, Virtual, HandleRead, Read, UdpRead, tcpVars, socketVars
<1>2. CASE OnError(s) \/ OnTimeout(s)
  BY <1>2, SameSteady
     DEF OnError, OnTimeout, Virtual, HandleError, HandleTimeout,
         UdpHandleError, UdpHandleTimeout, tcpVars, socketVars
<1>3. CASE OnSend(s)
  BY <1>3, SameSteady DEF OnSend, Virtual, SendPacket, Write, UdpSendPacket
<1> QED  BY <1>1, <1>2, <1>3

LEMMA OnWriteSteady ==
    ASSUME TcpTypeOK, NEW s \in live, OnWrite(s),
           m_state[s] = "connecting" => Up(s)
    PROVE  Steady \/ Promoted(s)
<1>1. CASE HandleConnected(s)
  BY <1>1 DEF HandleConnected, Promoted, TcpTypeOK
<1>2. CASE ~ HandleConnected(s)
  BY <1>2, SameSteady
     DEF OnWrite, Virtual, HandleWrite, UdpHandleWrite, Write, tcpVars, socketVars
<1> QED  BY <1>1, <1>2

(* Sockets change their state by Steady and Promoted steps, but for those    *)
(* that close or delete them.                                               *)
LEMMA StepSteady ==
    ASSUME Known, EventInv, [Next]_vars, ~ CloseReturns, ~ HandleSockets
    PROVE  Steady \/ \E s \in live : Promoted(s)
<1>0. TcpTypeOK /\ live \subseteq Sockets /\ EventInv /\ LoopInv
  BY DEF Known, TypeInv, TypeOK, TcpTypeOK
<1>1. ASSUME NEW fd \in Fds, m_socketMap[fd] # NoSocket
      PROVE  m_socketMap[fd] \in live /\ m_fd[m_socketMap[fd]] = fd
  BY <1>1 DEF Known, OwnInv, RegisteredSocketOwnsFd, Registered
<1>2. CASE App
  BY <1>0, <1>2, CreationSteady, MethodSteady, SameSteady
     DEF App, AppListen, AppConnect, AppUdpListen, AppUdpConnect, AppLeak,
         AppSend, AppClose, AppSetTimeout, AppCall, socketVars
<1>3. CASE Net
  BY <1>0, <1>3 DEF Net, NetEstablish, NetRefuse, TcpTypeOK, Steady, socketVars
<1>4. CASE Clock \/ PacketReturns \/ UNCHANGED vars
  BY <1>4, SameSteady DEF Clock, TimePasses, PacketReturns, vars, tcpVars, socketVars
<1>5. CASE ScanAdvance \/ ScanAdvanceErased \/ ScanEnd \/ EpollWait \/ DispatchEnd
  BY <1>5, SameSteady DEF ScanAdvance, ScanAdvanceErased, ScanEnd, EpollWait,
                          DispatchEnd, tcpVars, socketVars
<1>6. CASE ScanSocket
  <2>1. m_socketMap[itr] \in live /\ OnTimeout(m_socketMap[itr])
    BY <1>0, <1>1, <1>6 DEF ScanSocket, AtLoop, LoopInv, Registered
  <2> QED  BY <1>0, <2>1, MethodSteady
<1>7. ASSUME NEW fd \in Fds, DispatchEvent(fd)
      PROVE  Steady \/ \E s \in live : Promoted(s)
  <2> DEFINE s == m_socketMap[fd]
  <2>1. CASE s = NoSocket
    BY <1>7, <2>1, SameSteady DEF DispatchEvent, tcpVars, socketVars
  <2>2. CASE s # NoSocket
    <3>1. s \in live /\ m_fd[s] = fd
      BY <1>1, <2>2
    <3>2. CASE OnError(s) \/ OnRead(s)
      BY <1>0, <3>1, <3>2, MethodSteady
    <3>3. CASE OnWrite(s) /\ batch[fd] = {"out"}
      <4>1. m_state[s] = "connecting" => Up(s)
        BY <3>1, <3>3 DEF EventInv, Writable
      <4> QED  BY <1>0, <3>1, <3>3, <4>1, OnWriteSteady
    <3> QED  BY <1>7, <2>2, <3>2, <3>3 DEF DispatchEvent
  <2> QED  BY <2>1, <2>2
<1>8. CASE DispatchWrite
  <2>1. pendingWrite \in live /\ OnWrite(pendingWrite)
    BY <1>8 DEF DispatchWrite, Known, OwnInv, NoDanglingSocket
  <2>2. m_state[pendingWrite] = "connecting" => Up(pendingWrite)
    BY <2>1 DEF EventInv, Writable
  <2> QED  BY <1>0, <2>1, <2>2, OnWriteSteady
<1> QED  BY <1>2, <1>3, <1>4, <1>5, <1>6, <1>7, <1>8
         DEF Next, Loop, HandlerReturns, Halted

(* An event to write comes from epoll_wait, for a descriptor that is up, and *)
(* of a socket that just began to connect there is none.                    *)
EventStep ==
    /\ phase' # "dispatch" => batch' = NoEvents
    /\ \A t \in live : Writable(t)' /\ m_fd'[t] = m_fd[t] => Writable(t) \/ Up(t)
    /\ \A t \in live' \ live : m_state'[t] = "connecting" => ~ Writable(t)'

LEMMA StepEvents ==
    ASSUME Known, EventInv, [Next]_vars,
           \A s \in Sockets : Begins(s) => phase # "dispatch"
    PROVE  EventStep
<1>0. /\ TypeOK /\ LoopInv /\ NoSocket \notin Sockets
      /\ live \subseteq Sockets /\ live' \subseteq Sockets
      /\ batch \in [Fds -> SUBSET Events]
      /\ phase # "dispatch" => batch = NoEvents /\ pendingWrite = NoSocket
  <2>1. TypeInv' /\ TypeInv
    BY NextType DEF Known
  <2>2. /\ live \subseteq Sockets /\ live' \subseteq Sockets
        /\ batch \in [Fds -> SUBSET Events]
    BY <2>1 DEF TypeInv, TypeOK, TcpTypeOK
  <2>3. phase # "dispatch" => batch = NoEvents /\ pendingWrite = NoSocket
    BY <2>1 DEF TypeInv, LoopInv, EventInv
  <2> QED  BY <2>1, <2>2, <2>3, ContainerAssumption DEF TypeInv
<1>1. CASE UNCHANGED <<phase, batch, pendingWrite>>
  <2>1. \A t : Writable(t)' /\ m_fd'[t] = m_fd[t] => Writable(t)
    BY <1>1 DEF Writable
  <2>2. ASSUME NEW t \in live' \ live, m_state'[t] = "connecting"
        PROVE  ~ Writable(t)'
    BY <1>0, <1>1, <2>2 DEF Begins, Writable, NoEvents
  <2> QED  BY <1>0, <1>1, <2>1, <2>2 DEF EventStep
<1>2. CASE EpollWait
  <2>1. UNCHANGED <<live, m_fd, pendingWrite>> /\ pendingWrite = NoSocket
    BY <1>0, <1>2 DEF EpollWait, AtLoop, tcpVars, socketVars
  <2>2. \A fd \in Fds : "out" \in batch'[fd] => fdState[fd] = "up"
    BY <1>2 DEF EpollWait, Ready
  <2> QED  BY <1>0, <1>2, <2>1, <2>2 DEF EventStep, EpollWait, Writable, Up
<1>3. ASSUME NEW fd \in Fds, DispatchEvent(fd) PROVE EventStep
  <2>1. /\ phase = "dispatch" /\ phase' = "dispatch" /\ pendingWrite = NoSocket
        /\ \A g \in Fds : batch'[g] \subseteq batch[g]
    BY <1>0, <1>3 DEF DispatchEvent, AtLoop
  <2>2. \/ pendingWrite' = NoSocket
        \/ pendingWrite' = m_socketMap[fd] /\ m_socketMap[fd] # NoSocket
             /\ "out" \in batch[fd]
    BY <1>3, <2>1 DEF DispatchEvent
  <2>3. m_socketMap[fd] # NoSocket => m_fd[m_socketMap[fd]] = fd
    BY DEF Known, OwnInv, RegisteredSocketOwnsFd, Registered
  <2>4. \A t \in live : Writable(t)' /\ m_fd'[t] = m_fd[t] => Writable(t)
    BY <1>0, <2>1, <2>2, <2>3 DEF Writable
  <2>5. \A t \in live' \ live : m_state'[t] # "connecting"
    BY <1>0, <2>1 DEF Begins
  <2> QED  BY <2>1, <2>4, <2>5 DEF EventStep
<1>4. CASE DispatchWrite
  <2>1. /\ phase = "dispatch" /\ phase' = "dispatch" /\ pendingWrite' = NoSocket
        /\ batch' = batch
    BY <1>4 DEF DispatchWrite, AtLoop
  <2>2. \A t \in live : Writable(t)' /\ m_fd'[t] = m_fd[t] => Writable(t)
    BY <1>0, <2>1 DEF Writable
  <2>3. \A t \in live' \ live : m_state'[t] # "connecting"
    BY <1>0, <2>1 DEF Begins
  <2> QED  BY <2>1, <2>2, <2>3 DEF EventStep
<1>5. CASE HandleSockets \/ ScanSocket \/ ScanAdvance \/ ScanAdvanceErased
             \/ ScanEnd
  <2>1. /\ UNCHANGED <<batch, pendingWrite>> /\ batch = NoEvents
        /\ phase # "dispatch" /\ pendingWrite = NoSocket
    BY <1>0, <1>5 DEF HandleSockets, ScanSocket, ScanAdvance, ScanAdvanceErased,
                      ScanEnd, AtLoop
  <2>2. \A fd \in Fds : batch'[fd] = {}
    BY <2>1 DEF NoEvents
  <2>3. \A t \in Sockets : ~ Writable(t)'
    BY <1>0, <2>1, <2>2 DEF Writable
  <2>4. batch' = NoEvents
    BY <2>1
  <2> QED  BY <1>0, <2>3, <2>4 DEF EventStep
<1>6. CASE DispatchEnd
  <2>1. /\ UNCHANGED <<batch, pendingWrite, live>> /\ batch = NoEvents
    BY <1>6 DEF DispatchEnd, tcpVars, socketVars
  <2> QED  BY <2>1 DEF EventStep, Writable
<1>7. CASE App \/ HandlerReturns \/ Net \/ Clock \/ UNCHANGED vars
  BY <1>1, <1>7
     DEF App, AppListen, AppConnect, AppUdpListen, AppUdpConnect, AppLeak,
         AppSend, AppClose, AppSetTimeout, AppCall, HandlerReturns,
         PacketReturns, CloseReturns, Net, NetEstablish, NetRefuse, Clock,
         TimePasses, vars, loopVars
<1> QED  BY <1>2, <1>3, <1>4, <1>5, <1>6, <1>7 DEF Next, Loop, Halted

LEMMA SteadyKeeps ==
    ASSUME Known, EventInv, EventStep, \A s \in live : Closing(s) => Closing(s)',
           Steady \/ \E s \in live : Promoted(s)
    PROVE  EventInv'
<1>1. CASE Steady
  <2>1. ASSUME NEW s \in live', m_state'[s] = "connecting", Writable(s)'
        PROVE  Up(s)'
    <3>1. s \in live /\ m_state[s] = "connecting" /\ m_fd'[s] = m_fd[s]
      BY <1>1, <2>1 DEF EventStep, Steady
    <3>2. Up(s)
      BY <2>1, <3>1 DEF EventStep, EventInv
    <3> QED  BY <1>1, <3>1, <3>2 DEF Steady, Up
  <2>2. ASSUME NEW s \in live', m_state'[s] = "connected"
        PROVE  Closing(s)' \/ Up(s)'
    <3>1. CASE s \in live
      <4>1. m_state[s] = "connected" /\ m_fd'[s] = m_fd[s]
        BY <1>1, <2>2, <3>1 DEF Steady
      <4>2. Closing(s) \/ Up(s)
        BY <3>1, <4>1 DEF EventInv
      <4> QED  BY <1>1, <3>1, <4>1, <4>2 DEF Steady, Up
    <3>2. CASE s \notin live
      BY <1>1, <2>2, <3>2 DEF Steady
    <3> QED  BY <3>1, <3>2
  <2> QED  BY <2>1, <2>2 DEF EventInv, EventStep
<1>2. ASSUME NEW s \in live, Promoted(s) PROVE EventInv'
  <2>1. /\ UNCHANGED <<live, m_fd, fdState>>
        /\ \A t \in live \ {s} : m_state'[t] = m_state[t]
        /\ m_state'[s] = "connected" /\ Up(s)
    BY <1>2 DEF Promoted
  <2>2. \A t : Up(t)' <=> Up(t)
    BY <2>1 DEF Up
  <2>3. ASSUME NEW t \in live', m_state'[t] = "connecting", Writable(t)'
        PROVE  Up(t)'
    BY <2>1, <2>2, <2>3 DEF EventStep, EventInv
  <2>4. ASSUME NEW t \in live', m_state'[t] = "connected"
        PROVE  Closing(t)' \/ Up(t)'
    BY <2>1, <2>2, <2>4 DEF EventInv
  <2> QED  BY <2>3, <2>4 DEF EventInv, EventStep
<1> QED  BY <1>1, <1>2

(* Close takes a descriptor that is in no other socket. *)
LEMMA CloseKeepsEvents ==
    ASSUME Known, EventInv, EventStep, CloseReturns PROVE EventInv'
<1>0. TypeInv /\ OwnInv /\ TcpTypeOK
  BY DEF Known, TypeInv, TypeOK
<1>1. PICK s \in live : s = Top.s /\ FinishClose(s)
  BY <1>0, ClosingSocket
<1>2. /\ s \in Sockets /\ live \subseteq Sockets /\ UNCHANGED live
      /\ m_state'[s] = "close"
      /\ \A t \in Sockets \ {s} :
            m_state'[t] = m_state[t] /\ m_fd'[t] = m_fd[t]
      /\ \A g \in Fds : g # m_fd[s] => fdState'[g] = fdState[g]
  BY <1>0, <1>1 DEF FinishClose, CloseFd, ResetFd, ResetState, TcpTypeOK
<1>3. \A t : Closing(t) /\ t # s => Closing(t)'
  BY <1>0, <1>1, ClosingSocket
<1>4. ASSUME NEW t \in live \ {s}, Up(t) PROVE Up(t)'
  <2>1. m_fd[t] \in Fds /\ m_fd[t] # NoFd
    BY <1>4, ContainerAssumption DEF Up, NoFd
  <2>2. m_fd[t] # m_fd[s]
    BY <1>0, <1>2, <2>1 DEF OwnInv, FdOwnership
  <2> QED  BY <1>2, <1>4, <2>1, <2>2 DEF Up
<1>5. ASSUME NEW t \in live', m_state'[t] = "connecting", Writable(t)'
      PROVE  Up(t)'
  <2>1. t \in live \ {s} /\ m_state[t] = "connecting" /\ m_fd'[t] = m_fd[t]
    BY <1>2, <1>5
  <2>2. Up(t)
    BY <1>5, <2>1 DEF EventStep, EventInv
  <2> QED  BY <1>4, <2>1, <2>2
<1>6. ASSUME NEW t \in live', m_state'[t] = "connected"
      PROVE  Closing(t)' \/ Up(t)'
  <2>1. t \in live \ {s} /\ m_state[t] = "connected"
    BY <1>2, <1>6
  <2> QED  BY <1>3, <1>4, <2>1 DEF EventInv
<1> QED  BY <1>5, <1>6 DEF EventInv, EventStep

LEMMA NextEvents ==
    ASSUME Known, EventInv, [Next]_vars,
           \A s \in Sockets : Begins(s) => phase # "dispatch"
    PROVE  EventInv'
<1>1. EventStep
  BY StepEvents
<1>2. CASE HandleSockets
  <2>1. /\ UNCHANGED <<m_fd, m_state, fdState, stack>> /\ live' \subseteq live
    BY <1>2 DEF HandleSockets
  <2>2. \A t : (Up(t)' <=> Up(t)) /\ (Closing(t)' <=> Closing(t))
    BY <2>1, SameClosing DEF Up
  <2> QED  BY <1>1, <2>1, <2>2 DEF EventInv, EventStep
<1>3. CASE ~ CloseReturns /\ ~ HandleSockets
  <2>1. MethodStep /\ live \subseteq Sockets
    BY <1>3, EveryStep DEF Known, TypeInv, TypeOK, TcpTypeOK
  <2>2. \A s \in live : Closing(s) => Closing(s)'
    BY <2>1 DEF MethodStep, Unnoticed, OneSocket, NoteOf
  <2> QED  BY <1>1, <1>3, <2>2, StepSteady, SteadyKeeps
<1> QED  BY <1>1, <1>2, <1>3, CloseKeepsEvents

(* A socket is taken for connected too early only if it began to connect    *)
(* while events of its descriptor's previous owner could still be waiting:  *)
(* when no handler that runs for an event calls Connect, a connected socket *)
(* has an established connection.                                           *)
THEOREM StaleEventsAreTheCause ==
    Spec /\ ConnectsBetweenBatches => []ConnectedMeansEstablished
<1>1. Init => Known /\ EventInv
  <2>1. Init => Known
    BY InitKnown
  <2>2. Init => EventInv
    BY DEF Init, TcpInit, EventInv
  <2> QED  BY <2>1, <2>2
<1>2. /\ Known /\ EventInv /\ [Next]_vars
      /\ [\A s \in Sockets : Begins(s) => phase # "dispatch"]_vars
      => Known' /\ EventInv'
  <2> SUFFICES ASSUME Known, EventInv, [Next]_vars,
                      [\A s \in Sockets : Begins(s) => phase # "dispatch"]_vars
               PROVE  EventInv'
    BY NextKnown
  <2>1. \A s \in Sockets : Begins(s) => phase # "dispatch"
    BY DEF vars, tcpVars, socketVars, Begins
  <2> QED  BY <2>1, NextEvents
<1>3. EventInv => ConnectedMeansEstablished
  BY DEF EventInv, ConnectedMeansEstablished, Up
<1> QED  BY <1>1, <1>2, <1>3, PTL DEF Spec, ConnectsBetweenBatches
=============================================================================
