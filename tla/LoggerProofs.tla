----------------------------- MODULE LoggerProofs -----------------------------
(***************************************************************************)
(* Proofs about Logger, for every number of threads, lines, files and      *)
(* descriptors, every interval and every length of the execution.  Where   *)
(* it matters they assume that no period ends while a thread is inside     *)
(* maybeRotate (Straggle = FALSE): without it the statements are false.    *)
(***************************************************************************)
EXTENDS Logger, TLAPS

USE LoggerAssumption DEF LoggerAssumption

LEMMA PeriodType == \A n \in Times : Period(n) \in Nat
BY DEF Times, Period

LEMMA PeriodMonotone ==
    \A m, n \in Times : m <= n => Period(m) <= Period(n)
BY DEF Times, Period

-----------------------------------------------------------------------------
(* Types.  A thread rotates only if there is a log, and has a descriptor of *)
(* its own exactly between open and dup2.                                   *)

LocalInv ==
    /\ \A t \in Threads : pc[t] \in Rotating \cup {"exchange"} => m_fd # NoFd
    /\ \A t \in Threads : pc[t] = "dup" <=> newFd[t] # NoFd

TypeInv == TypeOK /\ LocalInv

LEMMA OpenLogType ==
    ASSUME TypeOK, NEW fd \in Fds, OpenLog(fd)
    PROVE  /\ fdTable' \in [Fds -> Files \cup {NoFile}]
           /\ logFile' \in Files \cup {NoFile}
           /\ lines' \in [Files -> SUBSET Lines]
BY DEF TypeOK, OpenLog

LEMMA InitType == Init => TypeInv
<1> SUFFICES ASSUME Init PROVE TypeInv
  OBVIOUS
<1>1. TypeOK
  <2>1. 0 \in Times /\ 0 \in Nat /\ "idle" \in Steps
    BY DEF Times, Steps
  <2>2. /\ fdTable \in [Fds -> Files \cup {NoFile}]
        /\ archive \in [Times -> Files \cup {NoFile}]
        /\ lines \in [Files -> SUBSET Lines]
    BY DEF Init
  <2>3. /\ pc \in [Threads -> Steps]
        /\ now \in [Threads -> Times]
        /\ old \in [Threads -> Times]
        /\ newFd \in [Threads -> Fds \cup {NoFd}]
    BY <2>1 DEF Init
  <2> QED  BY <2>1, <2>2, <2>3 DEF Init, TypeOK
<1>2. LocalInv
  BY DEF Init, LocalInv, Rotating
<1> QED  BY <1>1, <1>2 DEF TypeInv

LEMMA SetFileNameType ==
    ASSUME TypeInv, SetFileName \/ SetFileNameAgain PROVE TypeInv'
<1>1. CASE SetFileName
  <2>1. TypeOK'
    BY <1>1, OpenLogType DEF SetFileName, TypeInv, TypeOK, threadVars, history
  <2>2. LocalInv'
    BY <1>1 DEF SetFileName, AllIdle, TypeInv, LocalInv, Rotating, threadVars
  <2> QED  BY <2>1, <2>2 DEF TypeInv
<1>2. CASE SetFileNameAgain
  <2>1. TypeOK'
    BY <1>2 DEF SetFileNameAgain, TypeInv, TypeOK, threadVars
  <2>2. LocalInv'
    BY <1>2 DEF SetFileNameAgain, AllIdle, TypeInv, LocalInv, Rotating,
                threadVars
  <2> QED  BY <2>1, <2>2 DEF TypeInv
<1> QED  BY <1>1, <1>2

LEMMA RunType ==
    ASSUME TypeInv, NEW t \in Threads, Run(t) PROVE TypeInv'
<1>0. TypeOK /\ LocalInv /\ now[t] \in Times
  BY DEF TypeInv, TypeOK
<1> USE DEF Goto, At, fileVars, history
<1>1. CASE Log(t)
  <2>1. TypeOK'
    BY <1>0, <1>1 DEF Log, TypeOK, Steps
  <2>2. LocalInv'
    BY <1>0, <1>1 DEF Log, TypeOK, LocalInv, Rotating
  <2> QED  BY <2>1, <2>2 DEF TypeInv
<1>2. CASE Test(t)
  <2>1. TypeOK'
    BY <1>0, <1>2 DEF Test, TypeOK, Steps
  <2>2. LocalInv'
    BY <1>0, <1>2 DEF Test, TypeOK, LocalInv, Rotating
  <2> QED  BY <2>1, <2>2 DEF TypeInv
<1>3. CASE Exchange(t)
  <2>1. TypeOK'
    BY <1>0, <1>3 DEF Exchange, TypeOK, Steps
  <2>2. LocalInv'
    BY <1>0, <1>3 DEF Exchange, TypeOK, LocalInv, Rotating
  <2> QED  BY <2>1, <2>2 DEF TypeInv
<1>4. CASE Rename(t)
  <2>1. TypeOK'
    BY <1>0, <1>4 DEF Rename, TypeOK, Steps
  <2>2. LocalInv'
    BY <1>0, <1>4 DEF Rename, TypeOK, LocalInv, Rotating
  <2> QED  BY <2>1, <2>2 DEF TypeInv
<1>5. CASE Open(t)
  <2>1. /\ fdTable' \in [Fds -> Files \cup {NoFile}]
        /\ logFile' \in Files \cup {NoFile}
        /\ lines' \in [Files -> SUBSET Lines]
    BY <1>0, <1>5, OpenLogType DEF Open, TypeOK
  <2>2. newFd' \in [Threads -> Fds \cup {NoFd}] /\ gaveUp' \subseteq Times
    BY <1>0, <1>5 DEF Open, TypeOK
  <2>3. TypeOK'
    BY <1>0, <1>5, <2>1, <2>2 DEF Open, TypeOK, Steps
  <2>4. LocalInv'
    BY <1>0, <1>5 DEF Open, TypeOK, LocalInv, Rotating, NoFd
  <2> QED  BY <2>3, <2>4 DEF TypeInv
<1>6. CASE Dup(t)
  <2>1. newFd[t] \in Fds /\ m_fd \in Fds
    BY <1>0, <1>6 DEF Dup, LocalInv, TypeOK, Rotating
  <2>2. rotatedIn' \in Nat
    BY <1>0, <1>6, PeriodType DEF Dup
  <2>3. TypeOK'
    BY <1>0, <1>6, <2>1, <2>2 DEF Dup, TypeOK, Steps
  <2>4. LocalInv'
    BY <1>0, <1>6 DEF Dup, TypeOK, LocalInv, Rotating
  <2> QED  BY <2>3, <2>4 DEF TypeInv
<1>7. CASE DupFails(t)
  <2>1. TypeOK'
    BY <1>0, <1>7 DEF DupFails, TypeOK, Steps
  <2>2. LocalInv'
    BY <1>0, <1>7 DEF DupFails, TypeOK, LocalInv, Rotating
  <2> QED  BY <2>1, <2>2 DEF TypeInv
<1>8. CASE Restore(t)
  <2>1. TypeOK'
    BY <1>0, <1>8 DEF Restore, TypeOK, Steps
  <2>2. LocalInv'
    BY <1>0, <1>8 DEF Restore, TypeOK, LocalInv, Rotating
  <2> QED  BY <2>1, <2>2 DEF TypeInv
<1>9. CASE WriteLine(t)
  <2>1. TypeOK'
    BY <1>0, <1>9 DEF WriteLine, TypeOK, Steps
  <2>2. LocalInv'
    BY <1>0, <1>9 DEF WriteLine, TypeOK, LocalInv, Rotating
  <2> QED  BY <2>1, <2>2 DEF TypeInv
<1> QED  BY <1>1, <1>2, <1>3, <1>4, <1>5, <1>6, <1>7, <1>8, <1>9 DEF Run

LEMMA TickType == TypeInv /\ Tick => TypeInv'
BY DEF TypeInv, TypeOK, LocalInv, Tick, Times, fileVars, threadVars, history

LEMMA CloseLaterType ==
    ASSUME TypeInv, NEW fd \in Fds, CloseLater(fd) PROVE TypeInv'
BY DEF TypeInv, TypeOK, LocalInv, CloseLater, threadVars, history

LEMMA SameType == TypeInv /\ UNCHANGED vars => TypeInv'
BY DEF TypeInv, TypeOK, LocalInv, vars, fileVars, threadVars, history

LEMMA NextType == TypeInv /\ [Next]_vars => TypeInv'
BY SetFileNameType, RunType, TickType, CloseLaterType, SameType DEF Next

(* Every variable keeps its type, and a thread that rotates has a log.      *)
THEOREM TypeInvariant == Spec => []TypeInv
<1>1. Init => TypeInv
  BY InitType
<1>2. TypeInv /\ [Next]_vars => TypeInv'
  BY NextType
<1> QED  BY <1>1, <1>2, PTL DEF Spec

(* The logger is type correct. *)
THEOREM TypeCorrect == Spec => []TypeOK
<1>1. TypeInv => TypeOK
  BY DEF TypeInv
<1> QED  BY <1>1, TypeInvariant, PTL

-----------------------------------------------------------------------------
(* Descriptors. *)

LEMMA InitDescriptors == Init => DescriptorsAccounted
<1> SUFFICES ASSUME Init PROVE DescriptorsAccounted
  OBVIOUS
<1>1. /\ fdTable = [fd \in Fds |-> NoFile]
      /\ m_fd = NoFd /\ NoFd \notin Fds /\ closers = {} /\ leaked = {}
      /\ newFd = [t \in Threads |-> NoFd]
  BY DEF Init, NoFd
<1>2. Rotations = {}
  BY <1>1 DEF Rotations
<1> QED  BY <1>1, <1>2 DEF DescriptorsAccounted

LEMMA OpenDescriptors ==
    ASSUME TypeInv, DescriptorsAccounted, NEW fd \in Fds, OpenLog(fd)
    PROVE  /\ fd # m_fd /\ fd # NoFd /\ fd \notin closers /\ fd \notin leaked
           /\ fd \notin Rotations
           /\ fdTable'[fd] # NoFile
           /\ \A g \in Fds \ {fd} : fdTable'[g] = fdTable[g]
<1>1. fd # NoFd /\ fdTable \in [Fds -> Files \cup {NoFile}]
  BY DEF TypeInv, TypeOK, NoFd
<1>2. fdTable[fd] = NoFile
  BY DEF OpenLog
<1>3. fdTable'[fd] # NoFile /\ \A g \in Fds \ {fd} : fdTable'[g] = fdTable[g]
  BY <1>1 DEF OpenLog
<1> QED  BY <1>1, <1>2, <1>3 DEF DescriptorsAccounted

LEMMA SameDescriptors ==
    ASSUME DescriptorsAccounted, UNCHANGED <<fdTable, m_fd, closers, leaked, newFd>>
    PROVE  DescriptorsAccounted'
<1>1. Rotations' = Rotations
  BY DEF Rotations
<1> QED  BY <1>1 DEF DescriptorsAccounted

LEMMA SetFileNameDescriptors ==
    ASSUME TypeInv, DescriptorsAccounted, SetFileName \/ SetFileNameAgain
    PROVE  DescriptorsAccounted'
<1>0. /\ UNCHANGED <<closers, leaked, newFd>> /\ Rotations' = Rotations
      /\ fdTable \in [Fds -> Files \cup {NoFile}]
      /\ m_fd \in Fds \cup {NoFd}
  BY DEF SetFileName, SetFileNameAgain, threadVars, Rotations, TypeInv, TypeOK
<1>1. CASE SetFileName
  <2>1. PICK fd \in Fds : OpenLog(fd) /\ m_fd' = fd
    BY <1>1 DEF SetFileName
  <2>2. m_fd = NoFd
    BY <1>1 DEF SetFileName
  <2>3. /\ fd # NoFd /\ fd \notin closers \cup leaked \cup Rotations
        /\ fdTable'[fd] # NoFile
        /\ \A g \in Fds \ {fd} : fdTable'[g] = fdTable[g]
    BY <2>1, OpenDescriptors
  <2>4. \A g \in Fds : fdTable[g] # NoFile
           <=> g \in closers \/ g \in leaked \/ g \in Rotations
    BY <1>0, <2>2 DEF DescriptorsAccounted, TypeInv, TypeOK, NoFd
  <2>5. \A g \in Fds : fdTable'[g] # NoFile
           <=> \/ g = m_fd' \/ g \in closers'
               \/ g \in leaked' \/ g \in Rotations'
    BY <1>0, <2>1, <2>3, <2>4
  <2> QED  BY <1>0, <2>1, <2>3, <2>5 DEF DescriptorsAccounted
<1>2. CASE SetFileNameAgain
  <2>1. m_fd \in Fds /\ m_fd' = m_fd
    BY <1>0, <1>2 DEF SetFileNameAgain
  <2>2. \A g \in Fds : fdTable'[g] # NoFile <=> fdTable[g] # NoFile
    BY <1>0, <1>2, <2>1 DEF SetFileNameAgain, DescriptorsAccounted
  <2> QED  BY <1>0, <2>1, <2>2 DEF DescriptorsAccounted
<1> QED  BY <1>1, <1>2

LEMMA RunDescriptors ==
    ASSUME TypeInv, DescriptorsAccounted, NEW t \in Threads, Run(t)
    PROVE  DescriptorsAccounted'
<1>0. /\ newFd \in [Threads -> Fds \cup {NoFd}]
      /\ fdTable \in [Fds -> Files \cup {NoFile}]
      /\ closers \subseteq Fds /\ leaked \subseteq Fds /\ NoFd \notin Fds
  BY DEF TypeInv, TypeOK, NoFd
<1>1. CASE Log(t) \/ Test(t) \/ Exchange(t) \/ Rename(t) \/ Restore(t)
             \/ WriteLine(t)
  BY <1>1, SameDescriptors
     DEF Log, Test, Exchange, Rename, Restore, WriteLine, fileVars
<1>2. CASE Open(t)
  <2>1. CASE UNCHANGED <<fdTable, newFd>>
    BY <1>2, <2>1, SameDescriptors DEF Open
  <2>2. ASSUME NEW fd \in Fds, OpenLog(fd),
               newFd' = [newFd EXCEPT ![t] = fd]
        PROVE  DescriptorsAccounted'
    <3>1. newFd[t] = NoFd
      BY <1>2 DEF Open, At, TypeInv, LocalInv
    <3>2. Rotations' = Rotations \cup {fd}
      BY <1>0, <2>2, <3>1 DEF Rotations
    <3>3. UNCHANGED <<m_fd, closers, leaked>>
      BY <1>2 DEF Open
    <3>4. \A u \in Threads : newFd[u] # fd
      BY <1>0, <2>2, OpenDescriptors DEF Rotations
    <3>5. \A u, v \in Threads :
             newFd'[u] = newFd'[v] /\ newFd'[u] # NoFd => u = v
      BY <1>0, <2>2, <3>4 DEF DescriptorsAccounted
    <3>6. \A g \in Fds : fdTable'[g] # NoFile
             <=> \/ g = m_fd' \/ g \in closers'
                 \/ g \in leaked' \/ g \in Rotations'
      BY <2>2, <3>2, <3>3, OpenDescriptors DEF DescriptorsAccounted
    <3> QED  BY <2>2, <3>2, <3>3, <3>5, <3>6, OpenDescriptors
             DEF DescriptorsAccounted
  <2> QED  BY <1>2, <2>1, <2>2 DEF Open
<1>3. CASE Dup(t) \/ DupFails(t)
  <2>1. /\ newFd[t] \in Fds
        /\ newFd' = [newFd EXCEPT ![t] = NoFd]
        /\ m_fd' = m_fd /\ m_fd \in Fds
    BY <1>0, <1>3 DEF Dup, DupFails, At, TypeInv, TypeOK, LocalInv, Rotating
  <2>2. /\ newFd[t] \in Rotations
        /\ newFd[t] # m_fd /\ newFd[t] \notin closers \cup leaked
        /\ fdTable[newFd[t]] # NoFile
    <3>1. newFd[t] \in Rotations
      BY <1>0, <2>1 DEF Rotations
    <3> QED  BY <2>1, <3>1 DEF DescriptorsAccounted
  <2>3. Rotations' = Rotations \ {newFd[t]}
    BY <1>0, <2>1 DEF DescriptorsAccounted, Rotations
  <2>4. \A u, v \in Threads :
           newFd'[u] = newFd'[v] /\ newFd'[u] # NoFd => u = v
    BY <1>0, <2>1 DEF DescriptorsAccounted
  <2>5. CASE Dup(t)
    <3>1. \/ closers' = closers \cup {newFd[t]} /\ leaked' = leaked
          \/ leaked' = leaked \cup {newFd[t]} /\ closers' = closers
      BY <2>5 DEF Dup
    <3>2. \A g \in Fds : fdTable'[g] # NoFile <=> fdTable[g] # NoFile
      BY <1>0, <2>1, <2>2, <2>5 DEF Dup, DescriptorsAccounted
    <3> QED  BY <2>1, <2>2, <2>3, <2>4, <3>1, <3>2 DEF DescriptorsAccounted
  <2>6. CASE DupFails(t)
    <3>1. closers' = closers /\ leaked' = leaked
      BY <2>6 DEF DupFails
    <3>2. \A g \in Fds : fdTable'[g] = IF g = newFd[t] THEN NoFile
                                      ELSE fdTable[g]
      BY <1>0, <2>6 DEF DupFails
    <3> QED  BY <2>1, <2>2, <2>3, <2>4, <3>1, <3>2 DEF DescriptorsAccounted
  <2> QED  BY <1>3, <2>5, <2>6
<1> QED  BY <1>1, <1>2, <1>3 DEF Run

LEMMA CloseLaterDescriptors ==
    ASSUME TypeInv, DescriptorsAccounted, NEW fd \in Fds, CloseLater(fd)
    PROVE  DescriptorsAccounted'
<1>1. /\ closers' = closers \ {fd} /\ fd \in closers
      /\ \A g \in Fds : fdTable'[g] = IF g = fd THEN NoFile ELSE fdTable[g]
      /\ UNCHANGED <<m_fd, newFd, leaked>>
  BY DEF CloseLater, threadVars, TypeInv, TypeOK
<1>2. Rotations' = Rotations
  BY <1>1 DEF Rotations
<1> QED  BY <1>1, <1>2 DEF DescriptorsAccounted

LEMMA NextDescriptors ==
    ASSUME TypeInv, DescriptorsAccounted, [Next]_vars
    PROVE  DescriptorsAccounted'
<1>1. CASE Tick \/ UNCHANGED vars
  BY <1>1, SameDescriptors DEF Tick, vars, fileVars, threadVars
<1> QED  BY <1>1, SetFileNameDescriptors, RunDescriptors,
            CloseLaterDescriptors DEF Next

(* Every descriptor opened by a rotation is closed once and the log's never, *)
(* whatever the threads do to each other's rotations.                        *)
THEOREM DescriptorsClosedOnce == Spec => []DescriptorsAccounted
<1>1. Init => TypeInv /\ DescriptorsAccounted
  BY InitType, InitDescriptors
<1>2. TypeInv /\ DescriptorsAccounted /\ [Next]_vars
        => TypeInv' /\ DescriptorsAccounted'
  BY NextType, NextDescriptors
<1> QED  BY <1>1, <1>2, PTL DEF Spec

-----------------------------------------------------------------------------
(* Who rotates, when no period ends while a thread is inside maybeRotate:   *)
(* all threads inside have read a time of the current period, and whoever   *)
(* rotates has set m_realRotate to one, so that nobody else gets a value of *)
(* another period from the exchange.                                        *)

RotateInv ==
    /\ \A t \in Threads : pc[t] \in Inside => Period(now[t]) = Period(clock)
    /\ OneRotator
    /\ \A t \in Rotators : /\ Period(m_realRotate) = Period(clock)
                           /\ Period(old[t]) = rotatedIn
                           /\ rotatedIn # Period(now[t])
    /\ FailuresRetried

LEMMA InitRotate == Init => RotateInv
<1> SUFFICES ASSUME Init PROVE RotateInv
  OBVIOUS
<1>1. \A t \in Threads : pc[t] = "idle"
  BY DEF Init
<1>2. Rotators = {}
  BY <1>1 DEF Rotators, Rotating
<1>3. Period(m_realRotate) = rotatedIn
  BY DEF Init, Period
<1> QED  BY <1>1, <1>2, <1>3 DEF RotateInv, Inside, OneRotator, FailuresRetried

LEMMA SameRotate ==
    ASSUME RotateInv,
           UNCHANGED <<clock, m_realRotate, pc, now, old, rotatedIn>>
    PROVE  RotateInv'
<1>1. Rotators' = Rotators
  BY DEF Rotators
<1> QED  BY <1>1 DEF RotateInv, OneRotator, FailuresRetried, Period

LEMMA TickRotate ==
    ASSUME ~ Straggle, RotateInv, Tick PROVE RotateInv'
<1>1. UNCHANGED <<m_realRotate, pc, now, old, rotatedIn>>
  BY DEF Tick, threadVars, history
<1>2. Rotators' = Rotators
  BY <1>1 DEF Rotators
<1>3. CASE Period(clock') = Period(clock)
  BY <1>1, <1>2, <1>3 DEF RotateInv, OneRotator, FailuresRetried, Period
<1>4. CASE \A t \in Threads : pc[t] \notin Inside
  <2>1. Rotators = {}
    BY <1>4 DEF Rotators, Rotating, Inside
  <2> QED  BY <1>1, <1>2, <1>4, <2>1
           DEF RotateInv, OneRotator, FailuresRetried, Period
<1> QED  BY <1>3, <1>4 DEF Tick

(* A step of a thread that goes on rotating, or that never began to.        *)
LEMMA KeepsRotating ==
    ASSUME TypeOK, RotateInv, NEW t \in Threads, NEW step \in Inside,
           pc[t] \in Inside, step \in Rotating <=> pc[t] \in Rotating,
           Goto(t, step),
           UNCHANGED <<clock, m_realRotate, now, old, rotatedIn>>
    PROVE  RotateInv'
<1>1. Rotators' = Rotators
  BY DEF Rotators, Goto, TypeOK
<1>2. \A u \in Threads : pc'[u] \in Inside => pc[u] \in Inside
  BY DEF Goto, TypeOK
<1> QED  BY <1>1, <1>2 DEF RotateInv, OneRotator, FailuresRetried, Period

(* A thread that is outside, or goes there without rotating.                *)
LEMMA NotRotating ==
    ASSUME TypeOK, RotateInv, NEW t \in Threads,
           pc[t] \notin Rotating,
           \/ Goto(t, "write") \/ Goto(t, "idle")
           \/ Goto(t, "test") /\ now'[t] = clock
           \/ Goto(t, "exchange") /\ pc[t] \in Inside /\ now'[t] = now[t],
           \A u \in Threads \ {t} : now'[u] = now[u],
           UNCHANGED <<clock, m_realRotate, old, rotatedIn>>
    PROVE  RotateInv'
<1>1. Rotators' = Rotators /\ t \notin Rotators
  BY DEF Rotators, Rotating, Goto, TypeOK
<1>2. ASSUME NEW u \in Threads, pc'[u] \in Inside
      PROVE  Period(now'[u]) = Period(clock)
  <2>1. CASE u = t
    BY <1>2, <2>1 DEF RotateInv, Goto, Inside, TypeOK
  <2>2. CASE u # t
    BY <1>2, <2>2 DEF RotateInv, Goto, TypeOK
  <2> QED  BY <2>1, <2>2
<1>3. \A u \in Rotators : now'[u] = now[u]
  BY <1>1 DEF Rotators
<1> QED  BY <1>1, <1>2, <1>3 DEF RotateInv, OneRotator, FailuresRetried, Period

(* The only thread that rotates stops.                                      *)
LEMMA StopsRotating ==
    ASSUME TypeOK, RotateInv, NEW t \in Rotators,
           Goto(t, "write") \/ Goto(t, "idle"),
           UNCHANGED <<clock, now, old>>,
           Period(m_realRotate') = rotatedIn'
    PROVE  RotateInv'
<1>1. Rotators' = {}
  BY DEF RotateInv, OneRotator, Rotators, Rotating, Goto, TypeOK
<1>2. \A u \in Threads : pc'[u] \in Inside => pc[u] \in Inside
  BY DEF Goto, TypeOK, Inside
<1> QED  BY <1>1, <1>2 DEF RotateInv, OneRotator, FailuresRetried, Period

LEMMA ExchangeRotate ==
    ASSUME TypeOK, RotateInv, NEW t \in Threads, Exchange(t)
    PROVE  RotateInv'
<1>1. /\ t \notin Rotators
      /\ Period(now[t]) = Period(clock)
      /\ Period(m_realRotate') = Period(clock)
      /\ UNCHANGED <<clock, now, rotatedIn>>
      /\ \A u \in Threads : old'[u] = IF u = t THEN m_realRotate ELSE old[u]
  BY DEF Exchange, At, RotateInv, Inside, Rotators, Rotating, TypeOK, history
<1>2. ASSUME NEW u \in Threads, pc'[u] \in Inside
      PROVE  Period(now'[u]) = Period(clock')
  <2>1. pc[u] \in Inside
    BY <1>2 DEF Exchange, At, Goto, Inside, TypeOK
  <2> QED  BY <1>1, <2>1 DEF RotateInv, Period
<1>3. CASE Period(now[t]) = Period(m_realRotate)
  <2>1. Rotators' = Rotators
    BY <1>1, <1>3 DEF Exchange, Goto, Rotators, Rotating, TypeOK
  <2> QED  BY <1>1, <1>2, <1>3, <2>1
           DEF RotateInv, OneRotator, FailuresRetried, Period, Rotators
<1>4. CASE Period(now[t]) # Period(m_realRotate)
  <2>1. Rotators = {} /\ Period(m_realRotate) = rotatedIn
    BY <1>1, <1>4 DEF RotateInv, FailuresRetried
  <2>2. Rotators' = {t}
    BY <1>1, <1>4, <2>1 DEF Exchange, Goto, Rotators, Rotating, TypeOK
  <2> QED  BY <1>1, <1>2, <1>4, <2>1, <2>2
           DEF RotateInv, OneRotator, FailuresRetried, Period
<1> QED  BY <1>3, <1>4

LEMMA RunRotate ==
    ASSUME TypeInv, RotateInv, NEW t \in Threads, Run(t) PROVE RotateInv'
<1>0. TypeOK
  BY DEF TypeInv
<1>1. CASE Log(t)
  BY <1>0, <1>1, NotRotating DEF Log, At, Rotating, history, TypeOK
<1>2. CASE Test(t)
  BY <1>0, <1>2, NotRotating DEF Test, At, Rotating, Inside, history
<1>3. CASE Exchange(t)
  BY <1>0, <1>3, ExchangeRotate
<1>4. CASE Rename(t) \/ Open(t) \/ DupFails(t)
  <2>1. /\ pc[t] \in Rotating /\ pc[t] \in Inside
        /\ \E step \in Inside \cap Rotating : Goto(t, step)
        /\ UNCHANGED <<clock, m_realRotate, now, old, rotatedIn>>
    BY <1>4 DEF Rename, Open, DupFails, At, Rotating, Inside, history
  <2> QED  BY <1>0, <2>1, KeepsRotating
<1>5. CASE Dup(t)
  <2>1. t \in Rotators /\ pc[t] \in Inside
    BY <1>5 DEF Dup, At, Rotators, Rotating, Inside
  <2>2. Period(m_realRotate') = rotatedIn'
    BY <1>5, <2>1 DEF Dup, RotateInv, Period
  <2> QED  BY <1>0, <1>5, <2>1, <2>2, StopsRotating DEF Dup
<1>6. CASE Restore(t)
  <2>1. t \in Rotators
    BY <1>6 DEF Restore, At, Rotators, Rotating
  <2>2. Period(m_realRotate') = rotatedIn'
    BY <1>6, <2>1 DEF Restore, RotateInv, Period, history
  <2> QED  BY <1>0, <1>6, <2>1, <2>2, StopsRotating DEF Restore
<1>7. CASE WriteLine(t)
  BY <1>0, <1>7, NotRotating DEF WriteLine, At, Rotating, history
<1> QED  BY <1>1, <1>2, <1>3, <1>4, <1>5, <1>6, <1>7 DEF Run

LEMMA NextRotate ==
    ASSUME ~ Straggle, TypeInv, RotateInv, [Next]_vars PROVE RotateInv'
<1>1. CASE \/ SetFileName \/ SetFileNameAgain \/ UNCHANGED vars
           \/ \E fd \in Fds : CloseLater(fd)
  <2>1. UNCHANGED <<clock, m_realRotate, pc, now, old, rotatedIn>>
    BY <1>1 DEF SetFileName, SetFileNameAgain, CloseLater, vars, threadVars,
                history
  <2> QED  BY <2>1, SameRotate
<1> QED  BY <1>1, TickRotate, RunRotate DEF Next

(* While a thread rotates, m_realRotate lies in the period of the clock, so  *)
(* that nobody else gets past the second test of maybeRotate.                *)
THEOREM RotateInvariant ==
    ASSUME ~ Straggle PROVE Spec => []RotateInv
<1>1. Init => TypeInv /\ RotateInv
  BY InitType, InitRotate
<1>2. TypeInv /\ RotateInv /\ [Next]_vars => TypeInv' /\ RotateInv'
  BY NextType, NextRotate
<1> QED  BY <1>1, <1>2, PTL DEF Spec

(* The exchange of m_realRotate lets one thread at a time rotate.           *)
THEOREM OneAtATime ==
    ASSUME ~ Straggle PROVE Spec => []OneRotator
<1>1. RotateInv => OneRotator
  BY DEF RotateInv
<1> QED  BY <1>1, RotateInvariant, PTL

(* A rotation that fails is not forgotten.                                  *)
THEOREM FailedIsRetried ==
    ASSUME ~ Straggle PROVE Spec => []FailuresRetried
<1>1. RotateInv => FailuresRetried
  BY DEF RotateInv
<1> QED  BY <1>1, RotateInvariant, PTL
-----------------------------------------------------------------------------
(* The log has the descriptor the threads write to.  While a thread rotates *)
(* there is no file of the log's name until it has opened one, and then it  *)
(* is the one it holds.                                                     *)

Current == logFile \in {NoFile, fdTable[m_fd]}

CurrentInv ==
    m_fd # NoFd /\ ~ dupFailed =>
       /\ Rotators = {} => Current
       /\ \A t \in Threads :
             /\ pc[t] \in {"rename", "restore"} => Current
             /\ pc[t] = "open" => logFile = NoFile
             /\ pc[t] = "dup" => logFile = fdTable[newFd[t]]

LEMMA InitCurrent == Init => CurrentInv
BY DEF Init, CurrentInv

LEMMA SameCurrent ==
    ASSUME CurrentInv, UNCHANGED <<logFile, fdTable, m_fd, dupFailed, newFd, pc>>
    PROVE  CurrentInv'
<1>1. Rotators' = Rotators
  BY DEF Rotators
<1> QED  BY <1>1 DEF CurrentInv, Current

LEMMA SetFileNameCurrent ==
    ASSUME TypeInv, CurrentInv, SetFileName \/ SetFileNameAgain
    PROVE  CurrentInv'
<1>1. \A t \in Threads : pc'[t] = "idle"
  BY DEF SetFileName, SetFileNameAgain, AllIdle, threadVars
<1>2. fdTable \in [Fds -> Files \cup {NoFile}] /\ m_fd \in Fds \cup {NoFd}
  BY DEF TypeInv, TypeOK
<1>3. CASE SetFileName
  <2>1. fdTable'[m_fd'] = logFile'
    BY <1>2, <1>3 DEF SetFileName, OpenLog
  <2> QED  BY <1>1, <2>1 DEF CurrentInv, Current
<1>4. CASE SetFileNameAgain
  <2>1. dupFailed' \/ fdTable'[m_fd'] = logFile'
    BY <1>2, <1>4 DEF SetFileNameAgain
  <2> QED  BY <1>1, <2>1 DEF CurrentInv, Current
<1> QED  BY <1>3, <1>4

LEMMA CloseLaterCurrent ==
    ASSUME TypeInv, DescriptorsAccounted, CurrentInv,
           NEW fd \in Fds, CloseLater(fd)
    PROVE  CurrentInv'
<1>1. /\ \A g \in Fds \ {fd} : fdTable'[g] = fdTable[g]
      /\ fd \in closers /\ fd # m_fd
      /\ UNCHANGED <<logFile, m_fd, dupFailed, newFd, pc>>
  BY DEF CloseLater, TypeInv, TypeOK, DescriptorsAccounted, threadVars, history
<1>2. \A t \in Threads : pc[t] = "dup" => newFd[t] \in Fds \ {fd}
  BY <1>1 DEF DescriptorsAccounted, Rotations, TypeInv, TypeOK, LocalInv
<1>3. m_fd # NoFd => m_fd \in Fds \ {fd}
  BY <1>1 DEF TypeInv, TypeOK
<1>4. Rotators' = Rotators
  BY <1>1 DEF Rotators
<1> QED  BY <1>1, <1>2, <1>3, <1>4 DEF CurrentInv, Current

(* A thread that does not rotate and does not begin to.                     *)
LEMMA OutsideCurrent ==
    ASSUME TypeOK, CurrentInv, NEW t \in Threads, NEW step \in Steps \ Rotating,
           pc[t] \notin Rotating, Goto(t, step),
           UNCHANGED <<logFile, fdTable, m_fd, dupFailed, newFd>>
    PROVE  CurrentInv'
<1>1. Rotators' = Rotators
  BY DEF Rotators, Goto, TypeOK
<1>2. \A u \in Threads : pc'[u] \in Rotating => pc'[u] = pc[u]
  BY DEF Goto, TypeOK
<1> QED  BY <1>1, <1>2 DEF CurrentInv, Current, Rotating

LEMMA ExchangeCurrent ==
    ASSUME TypeOK, CurrentInv, OneRotator', NEW t \in Threads, Exchange(t)
    PROVE  CurrentInv'
<1>1. UNCHANGED <<logFile, fdTable, m_fd, dupFailed, newFd>>
  BY DEF Exchange, fileVars, history
<1>2. CASE Goto(t, "write")
  BY <1>1, <1>2, OutsideCurrent DEF Exchange, At, Rotating, Steps
<1>3. CASE Goto(t, "rename")
  <2>1. \A u \in Threads : pc'[u] = IF u = t THEN "rename" ELSE pc[u]
    BY <1>3 DEF Goto, TypeOK
  <2>2. t \in Rotators'
    BY <2>1 DEF Rotators, Rotating
  <2>3. Rotators = {} /\ \A u \in Threads \ {t} : pc[u] \notin Rotating
    BY <2>1, <2>2 DEF Exchange, At, OneRotator, Rotators, Rotating
  <2> QED  BY <1>1, <2>1, <2>2, <2>3 DEF CurrentInv, Current, Rotating
<1> QED  BY <1>2, <1>3 DEF Exchange

(* A step of the only thread that rotates.                                  *)
LEMMA RotatorCurrent ==
    ASSUME TypeOK, OneRotator, NEW t \in Rotators, NEW step \in Steps,
           Goto(t, step),
           m_fd' # NoFd /\ ~ dupFailed' =>
              /\ step \notin {"open", "dup"} => Current'
              /\ step = "open" => logFile' = NoFile
              /\ step = "dup" => logFile' = fdTable'[newFd'[t]]
    PROVE  CurrentInv'
<1>1. \A u \in Threads : pc'[u] = IF u = t THEN step ELSE pc[u]
  BY DEF Goto, TypeOK
<1>2. \A u \in Threads \ {t} : pc'[u] \notin Rotating
  BY <1>1 DEF OneRotator, Rotators
<1>3. Rotators' = {} => step \notin {"open", "dup"}
  BY <1>1 DEF Rotators, Rotating
<1> QED  BY <1>1, <1>2, <1>3 DEF CurrentInv, Rotating, Rotators

LEMMA RunCurrent ==
    ASSUME TypeInv, DescriptorsAccounted, OneRotator, OneRotator', CurrentInv,
           NEW t \in Threads, Run(t)
    PROVE  CurrentInv'
<1>0. /\ TypeOK
      /\ newFd \in [Threads -> Fds \cup {NoFd}]
      /\ fdTable \in [Fds -> Files \cup {NoFile}]
  BY DEF TypeInv, TypeOK
<1>a. pc[t] \in Rotating => t \in Rotators
  BY DEF Rotators
<1>b. {"open", "dup", "restore", "write", "idle", "test", "exchange"} \subseteq Steps
  BY DEF Steps
<1>1. CASE Log(t) \/ Test(t) \/ WriteLine(t)
  <2>1. /\ \E step \in Steps \ Rotating : Goto(t, step)
        /\ pc[t] \notin Rotating
        /\ UNCHANGED <<logFile, fdTable, m_fd, dupFailed, newFd>>
    BY <1>1 DEF Log, Test, WriteLine, At, Rotating, Steps, fileVars, history
  <2> QED  BY <1>0, <2>1, OutsideCurrent
<1>2. CASE Exchange(t)
  BY <1>0, <1>2, ExchangeCurrent
<1>3. CASE Rename(t)
  <2>1. t \in Rotators /\ pc[t] = "rename"
    BY <1>a, <1>3 DEF Rename, At, Rotating
  <2>2. UNCHANGED <<m_fd, fdTable, dupFailed>>
    BY <1>3 DEF Rename, history
  <2>3. CASE Goto(t, "open") /\ logFile' = NoFile
    BY <1>0, <1>b, <2>1, <2>3, RotatorCurrent
  <2>4. CASE Goto(t, "restore") /\ logFile' = logFile
    <3>1. m_fd' # NoFd /\ ~ dupFailed' => Current'
      BY <2>1, <2>2, <2>4 DEF CurrentInv, Current
    <3> QED  BY <1>0, <1>b, <2>1, <2>4, <3>1, RotatorCurrent
  <2> QED  BY <1>3, <2>3, <2>4 DEF Rename
<1>4. CASE Open(t)
  <2>1. t \in Rotators /\ pc[t] = "open"
    BY <1>a, <1>4 DEF Open, At, Rotating
  <2>2. ASSUME NEW fd \in Fds, OpenLog(fd), newFd' = [newFd EXCEPT ![t] = fd],
               Goto(t, "dup")
        PROVE  CurrentInv'
    <3>1. logFile' = fdTable'[newFd'[t]]
      BY <1>0, <2>2 DEF OpenLog
    <3> QED  BY <1>0, <1>b, <2>1, <2>2, <3>1, RotatorCurrent
  <2>3. CASE Goto(t, "restore") /\ UNCHANGED <<fdTable, logFile, newFd>>
    <3>1. m_fd' # NoFd /\ ~ dupFailed' => Current'
      BY <1>4, <2>1, <2>3 DEF Open, CurrentInv, Current
    <3> QED  BY <1>0, <1>b, <2>1, <2>3, <3>1, RotatorCurrent
  <2> QED  BY <1>4, <2>2, <2>3 DEF Open
<1>5. CASE Dup(t)
  <2>1. t \in Rotators /\ pc[t] = "dup" /\ m_fd \in Fds /\ newFd[t] \in Fds
    BY <1>a, <1>5 DEF Dup, At, Rotating, TypeInv, TypeOK, LocalInv
  <2>2. fdTable'[m_fd] = fdTable[newFd[t]] /\ UNCHANGED <<m_fd, logFile, dupFailed>>
    BY <1>0, <1>5, <2>1 DEF Dup
  <2>3. m_fd' # NoFd /\ ~ dupFailed' => Current'
    BY <2>1, <2>2 DEF CurrentInv, Current
  <2> QED  BY <1>0, <1>b, <1>5, <2>1, <2>3, RotatorCurrent DEF Dup
<1>6. CASE DupFails(t)
  BY <1>6 DEF DupFails, CurrentInv
<1>7. CASE Restore(t)
  <2>1. t \in Rotators /\ pc[t] = "restore"
    BY <1>a, <1>7 DEF Restore, At, Rotating
  <2>2. m_fd' # NoFd /\ ~ dupFailed' => Current'
    BY <1>7, <2>1 DEF Restore, CurrentInv, Current, fileVars, history
  <2> QED  BY <1>0, <1>b, <1>7, <2>1, <2>2, RotatorCurrent DEF Restore
<1> QED  BY <1>1, <1>2, <1>3, <1>4, <1>5, <1>6, <1>7 DEF Run

LEMMA NextCurrent ==
    ASSUME TypeInv, DescriptorsAccounted, OneRotator, OneRotator', CurrentInv,
           [Next]_vars
    PROVE  CurrentInv'
<1>1. CASE Tick \/ UNCHANGED vars
  BY <1>1, SameCurrent DEF Tick, vars, fileVars, threadVars, history
<1> QED  BY <1>1, SetFileNameCurrent, RunCurrent, CloseLaterCurrent DEF Next

(* Between rotations the threads write to the file that has the log's name.  *)
THEOREM WrittenToTheLog ==
    ASSUME ~ Straggle PROVE Spec => []LogIsCurrent
<1>1. Init => CurrentInv
  BY InitCurrent
<1>2. /\ TypeInv /\ DescriptorsAccounted /\ OneRotator /\ OneRotator'
      /\ CurrentInv /\ [Next]_vars
      => CurrentInv'
  BY NextCurrent
<1>3. CurrentInv => LogIsCurrent
  BY DEF CurrentInv, LogIsCurrent, Current
<1> QED  BY <1>1, <1>2, <1>3, TypeInvariant, DescriptorsClosedOnce, OneAtATime,
            PTL DEF Spec

-----------------------------------------------------------------------------
(* Names.  An archive is of a rotation that is under way, that was given up *)
(* half way, or of a period that has been rotated in - in which nobody      *)
(* rotates again.                                                           *)

NamesInv ==
    /\ rotatedIn <= Period(clock)
    /\ \A n \in Times : archive[n] # NoFile =>
          \/ n \in gaveUp
          \/ Period(n) <= rotatedIn
          \/ \E t \in Threads : pc[t] \in {"open", "dup"} /\ now[t] = n

LEMMA InitNames == Init => NamesInv
BY DEF Init, NamesInv, Period

LEMMA NextNames ==
    ASSUME TypeInv, RotateInv, NamesInv, [Next]_vars
    PROVE  NamesInv'
<1>0. TypeOK /\ rotatedIn \in Nat /\ clock \in Times
  BY DEF TypeInv, TypeOK
<1>1. CASE \/ Tick \/ SetFileName \/ SetFileNameAgain \/ UNCHANGED vars
           \/ \E fd \in Fds : CloseLater(fd)
  <2>1. /\ UNCHANGED <<archive, gaveUp, rotatedIn, pc, now>>
        /\ clock' \in Times /\ clock <= clock'
    BY <1>0, <1>1 DEF Tick, SetFileName, SetFileNameAgain, CloseLater, vars,
                      fileVars, threadVars, history, Times
  <2>2. rotatedIn' <= Period(clock')
    BY <1>0, <2>1, PeriodMonotone, PeriodType DEF NamesInv
  <2> QED  BY <2>1, <2>2 DEF NamesInv, Period
<1>2. ASSUME NEW t \in Threads, Run(t)
      PROVE  NamesInv'
  <2>0. UNCHANGED clock
    BY <1>2 DEF Run, Log, Test, Exchange, Rename, Open, Dup, DupFails, Restore,
                WriteLine
  <2>1. CASE pc[t] \notin {"rename", "open", "dup"}
    <3>1. /\ UNCHANGED <<archive, gaveUp, rotatedIn>>
          /\ \A u \in Threads : pc[u] \in {"open", "dup"} =>
                pc'[u] = pc[u] /\ now'[u] = now[u]
      BY <1>0, <1>2, <2>1 DEF Run, Log, Test, Exchange, Rename, Open, Dup,
            DupFails, Restore, WriteLine, At, Goto, TypeOK, fileVars, history
    <3> QED  BY <2>0, <3>1 DEF NamesInv, Period
  <2>2. CASE Rename(t)
    <3>1. /\ UNCHANGED <<gaveUp, rotatedIn, now>>
          /\ \A u \in Threads : pc[u] \in {"open", "dup"} => pc'[u] = pc[u]
      BY <1>0, <2>2 DEF Rename, At, Goto, TypeOK, history
    <3>2. CASE UNCHANGED archive
      BY <2>0, <3>1, <3>2 DEF NamesInv, Period
    <3>3. CASE archive' # archive
      <4>1. /\ pc'[t] = "open" /\ now[t] \in Times
            /\ \A n \in Times \ {now[t]} : archive'[n] = archive[n]
        BY <1>0, <2>2, <3>3 DEF Rename, Goto, TypeOK
      <4> QED  BY <2>0, <3>1, <4>1 DEF NamesInv, Period
    <3> QED  BY <3>2, <3>3
  <2>3. CASE Open(t) \/ DupFails(t)
    <3>1. /\ UNCHANGED <<archive, rotatedIn, now>> /\ gaveUp \subseteq gaveUp'
          /\ pc'[t] # "dup" => now[t] \in gaveUp'
          /\ \A u \in Threads \ {t} : pc'[u] = pc[u]
      BY <1>0, <2>3 DEF Open, DupFails, Goto, TypeOK
    <3> QED  BY <2>0, <3>1 DEF NamesInv, Period
  <2>4. CASE Dup(t)
    <3>1. /\ UNCHANGED <<archive, gaveUp, now>>
          /\ rotatedIn' = Period(now[t])
          /\ \A u \in Threads \ {t} : pc'[u] = pc[u]
      BY <1>0, <2>4 DEF Dup, Goto, TypeOK
    <3>2. Period(now[t]) = Period(clock) /\ Period(clock) \in Nat
      BY <1>0, <2>4, PeriodType DEF Dup, At, RotateInv, Inside
    <3>3. rotatedIn' = Period(clock) /\ rotatedIn <= rotatedIn'
      BY <3>1, <3>2 DEF NamesInv
    <3>4. ASSUME NEW n \in Times, archive[n] # NoFile
          PROVE  \/ n \in gaveUp'
                 \/ Period(n) <= rotatedIn'
                 \/ \E u \in Threads : pc'[u] \in {"open", "dup"} /\ now'[u] = n
      <4>1. CASE n \in gaveUp
        BY <3>1, <4>1
      <4>2. CASE Period(n) <= rotatedIn
        BY <1>0, <3>2, <3>3, <4>2, PeriodType
      <4>3. ASSUME NEW u \in Threads, pc[u] \in {"open", "dup"}, now[u] = n
            PROVE  \/ Period(n) <= rotatedIn'
                   \/ \E v \in Threads : pc'[v] \in {"open", "dup"} /\ now'[v] = n
        <5>1. CASE u = t
          BY <3>1, <3>2, <4>3, <5>1
        <5>2. CASE u # t
          BY <3>1, <4>3, <5>2
        <5> QED  BY <5>1, <5>2
      <4> QED  BY <3>4, <4>1, <4>2, <4>3 DEF NamesInv
    <3>5. \A n \in Times : Period(n)' = Period(n)
      BY DEF Period
    <3> QED  BY <2>0, <3>1, <3>2, <3>3, <3>4 DEF NamesInv, Period
  <2> QED  BY <1>2, <2>1, <2>2, <2>3, <2>4
           DEF Run, Log, Test, Exchange, Restore, WriteLine, At
<1> QED  BY <1>1, <1>2 DEF Next

(* No two rotations of a period, and none of an earlier one: the period of   *)
(* the rotator is that of the clock, which the last completed one is not     *)
(* behind of, and the rotator got a value of another period for its own.     *)
LEMMA RotatorIsAhead ==
    ASSUME TypeInv, RotateInv, NamesInv, NEW t \in Rotators
    PROVE  Period(now[t]) > rotatedIn
<1>1. /\ Period(now[t]) = Period(clock) /\ rotatedIn # Period(now[t])
      /\ rotatedIn <= Period(clock) /\ rotatedIn \in Nat
  BY DEF RotateInv, NamesInv, Rotators, Rotating, Inside, TypeInv, TypeOK
<1>2. Period(clock) \in Nat
  BY PeriodType DEF TypeInv, TypeOK
<1> QED  BY <1>1, <1>2

(* Only a rename takes a name away, of the archive of its second.            *)
LEMMA StepKeepsNames ==
    ASSUME TypeInv, RotateInv, NamesInv, [Next]_vars,
           NEW f \in Files, Named(f)
    PROVE  Named(f)' \/ \E t \in Rotators : now[t] \in gaveUp
<1>0. /\ TypeOK /\ f # NoFile
      /\ archive \in [Times -> Files \cup {NoFile}]
  BY DEF TypeInv, TypeOK
<1>1. CASE UNCHANGED archive /\ (logFile # NoFile => UNCHANGED logFile)
  BY <1>0, <1>1 DEF Named
<1>2. ASSUME NEW t \in Threads, Rename(t)
      PROVE  Named(f)' \/ now[t] \in gaveUp
  <2>1. t \in Rotators /\ now[t] \in Times /\ pc[t] = "rename"
    BY <1>0, <1>2 DEF Rename, At, Rotators, Rotating, TypeOK
  <2>2. CASE UNCHANGED <<archive, logFile>>
    BY <2>2 DEF Named
  <2>3. CASE archive' = [archive EXCEPT ![now[t]] = logFile]
    <3>1. /\ archive'[now[t]] = logFile
          /\ \A n \in Times \ {now[t]} : archive'[n] = archive[n]
      BY <1>0, <2>1, <2>3
    <3>2. CASE f = logFile
      BY <2>1, <3>1, <3>2 DEF Named
    <3>3. ASSUME NEW n \in Times, archive[n] = f
          PROVE  Named(f)' \/ now[t] \in gaveUp
      <4>1. CASE n # now[t]
        BY <3>1, <3>3, <4>1 DEF Named
      <4>2. CASE n = now[t]
        <5>1. ~ (Period(now[t]) <= rotatedIn)
          <6>1. Period(now[t]) \in Nat /\ rotatedIn \in Nat
            BY <1>0, <2>1, PeriodType DEF TypeOK
          <6> QED  BY <2>1, <6>1, RotatorIsAhead
        <5>2. ~ \E u \in Threads : pc[u] \in {"open", "dup"}
          BY <2>1 DEF RotateInv, OneRotator, Rotators, Rotating
        <5> QED  BY <1>0, <2>1, <3>3, <4>2, <5>1, <5>2 DEF NamesInv
      <4> QED  BY <4>1, <4>2
    <3> QED  BY <3>2, <3>3 DEF Named
  <2> QED  BY <1>2, <2>2, <2>3 DEF Rename
<1>3. CASE \A t \in Threads : ~ Rename(t)
  <2>1. UNCHANGED archive /\ (logFile # NoFile => UNCHANGED logFile)
    <3>1. CASE \E t \in Threads : Run(t)
      BY <1>3, <3>1 DEF Run, Log, Test, Exchange, Open, Dup, DupFails, Restore,
                        WriteLine, OpenLog, fileVars
    <3>2. CASE ~ \E t \in Threads : Run(t)
      BY <3>2 DEF Next, Tick, SetFileName, SetFileNameAgain, CloseLater, OpenLog,
                  vars, fileVars
    <3> QED  BY <3>1, <3>2
  <2> QED  BY <1>1, <2>1
<1>4. \A t \in Threads : Rename(t) => t \in Rotators
  BY DEF Rename, At, Rotators, Rotating
<1> QED  BY <1>2, <1>3, <1>4

(* What was written keeps a name, but for a rename in the second of a        *)
(* rotation that gave up half way.                                           *)
THEOREM NamesAreKept ==
    ASSUME ~ Straggle PROVE Spec => NamesKept
<1>1. Init => NamesInv
  BY InitNames
<1>2. TypeInv /\ RotateInv /\ NamesInv /\ [Next]_vars => NamesInv'
  BY NextNames
<1>3. TypeInv /\ RotateInv /\ NamesInv /\ [Next]_vars
        => [\A f \in Files :
              lines[f] # {} /\ Named(f)
                 => Named(f)' \/ \E t \in Rotators : now[t] \in gaveUp]_vars
  BY StepKeepsNames
<1> QED  BY <1>1, <1>2, <1>3, TypeInvariant, RotateInvariant, PTL
         DEF Spec, NamesKept

(* A completed rotation is of a later period than the one before it.         *)
THEOREM EachPeriodOnce ==
    ASSUME ~ Straggle PROVE Spec => RotatesForward
<1>1. Init => NamesInv
  BY InitNames
<1>2. TypeInv /\ RotateInv /\ NamesInv /\ [Next]_vars => NamesInv'
  BY NextNames
<1>3. TypeInv /\ RotateInv /\ NamesInv /\ [Next]_vars
        => [\A t \in Threads : Completes(t) => rotatedIn' > rotatedIn]_vars
  <2> SUFFICES ASSUME TypeInv, RotateInv, NamesInv, Next,
                      NEW t \in Threads, Completes(t)
               PROVE  rotatedIn' > rotatedIn
    BY DEF vars, threadVars, Completes
  <2>1. t \in Rotators /\ TypeOK
    BY DEF Completes, Rotators, Rotating, TypeInv
  <2>2. rotatedIn' = Period(now[t])
    BY <2>1 DEF Next, Tick, SetFileName, SetFileNameAgain, CloseLater, Run, Log,
                Test, Exchange, Rename, Open, Dup, DupFails, Restore, WriteLine,
                Completes, At, Goto, TypeOK, threadVars
  <2> QED  BY <2>1, <2>2, RotatorIsAhead
<1> QED  BY <1>1, <1>2, <1>3, TypeInvariant, RotateInvariant, PTL
         DEF Spec, RotatesForward
=============================================================================
