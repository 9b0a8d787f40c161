-------------------------------- MODULE Logger --------------------------------
(***************************************************************************)
(* The log file of sys/logger.cpp and its rotation.  Any number of threads *)
(* log; the first that logs in a new period renames the file to an archive *)
(* named after the second it read from the clock, opens a new one and puts *)
(* it, with dup2, under the descriptor all threads write to.  There is no  *)
(* lock: the threads decide who rotates by exchanging m_realRotate.        *)
(*                                                                         *)
(*   idle -> test -> exchange -> rename -> open -> dup -> write -> idle    *)
(*                                  \        \      \  \-> idle            *)
(*                                   +--------+------+-> restore -> write  *)
(*                                                                         *)
(* A file is what open created (an inode), and is known by its names and   *)
(* its descriptors.  setFileName is called while no thread logs: it        *)
(* assigns m_filename, a string the threads read without a lock.           *)
(***************************************************************************)
EXTENDS Integers, FiniteSets

CONSTANTS
    Threads,
    Lines,            \* what the threads write
    Files,            \* the files there can be
    NoFile,
    Fds,              \* the descriptors the kernel can hand out
    MaxTime,          \* bound: the clock stops here
    RotateInterval,   \* m_rotateInterval, in seconds
    Straggle          \* may a period end while a thread is in maybeRotate?

ASSUME LoggerAssumption ==
    /\ NoFile \notin Files
    /\ Fds \subseteq Nat
    /\ MaxTime \in Nat
    /\ RotateInterval \in Nat \ {0}
    /\ Straggle \in BOOLEAN

NoFd == -1

VARIABLES
    clock,          \* time(NULL)
    m_realRotate,   \* when the log was rotated, or is being rotated
    m_fd,           \* the descriptor of the log, NoFd: there is no file name
    fdTable,        \* [Fds -> Files or NoFile]: the process's descriptors
    closers,        \* descriptors that detached threads are about to close
    leaked,         \* descriptors that nobody will close
    logFile,        \* the file named m_filename, or NoFile
    archive,        \* [0..MaxTime -> Files or NoFile]: the files renamed
    lines,          \* [Files -> SUBSET Lines]: what is in them
    pc,
    now,            \* [Threads -> Times]: what a thread read from the clock
    old,            \* [Threads -> Times]: its lastRotateBackup
    newFd,          \* [Threads -> Fds or NoFd]: its local fd
    rotatedIn,      \* history: the period of the last complete rotation
    gaveUp,         \* history: the times of rotations that failed half way
    dupFailed       \* history: dup2 has failed

fileVars == <<fdTable, closers, leaked, logFile, archive, lines>>
threadVars == <<pc, now, old, newFd>>
history == <<rotatedIn, gaveUp, dupFailed>>
vars == <<clock, m_realRotate, m_fd, fileVars, threadVars, history>>

Times == 0..MaxTime
Period(time) == time \div RotateInterval

Steps == {"idle", "test", "exchange", "rename", "open", "dup", "restore",
          "write"}

(* The steps of a thread inside maybeRotate, and of one that rotates.       *)
Inside == {"test", "exchange", "rename", "open", "dup", "restore"}
Rotating == {"rename", "open", "dup", "restore"}
Rotators == {t \in Threads : pc[t] \in Rotating}

Named(f) == f = logFile \/ \E time \in Times : archive[time] = f
Unused(f) == f \in Files /\ ~ Named(f) /\ \A fd \in Fds : fdTable[fd] # f
Written == UNION {lines[f] : f \in Files}

Init ==
    /\ clock = 0
    /\ m_realRotate = 0
    /\ m_fd = NoFd
    /\ fdTable = [fd \in Fds |-> NoFile]
    /\ closers = {}
    /\ leaked = {}
    /\ logFile = NoFile
    /\ archive = [time \in Times |-> NoFile]
    /\ lines = [f \in Files |-> {}]
    /\ pc = [t \in Threads |-> "idle"]
    /\ now = [t \in Threads |-> 0]
    /\ old = [t \in Threads |-> 0]
    /\ newFd = [t \in Threads |-> NoFd]
    /\ rotatedIn = 0
    /\ gaveUp = {}
    /\ dupFailed = FALSE

-----------------------------------------------------------------------------
(* The kernel. *)

(* open with O_APPEND and O_CREAT: the file that has the name, or a new one. *)
OpenLog(fd) ==
    /\ fdTable[fd] = NoFile
    /\ \A g \in Fds : fdTable[g] = NoFile => fd <= g
    /\ IF logFile # NoFile
       THEN /\ fdTable' = [fdTable EXCEPT ![fd] = logFile]
            /\ UNCHANGED <<logFile, lines>>
       ELSE \E f \in Files :
               /\ Unused(f)
               /\ logFile' = f
               /\ lines' = [lines EXCEPT ![f] = {}]
               /\ fdTable' = [fdTable EXCEPT ![fd] = f]

Tick ==
    /\ clock < MaxTime
    /\ \/ Straggle
       \/ Period(clock + 1) = Period(clock)
       \/ \A t \in Threads : pc[t] \notin Inside
    /\ clock' = clock + 1
    /\ UNCHANGED <<m_realRotate, m_fd, fileVars, threadVars, history>>

-----------------------------------------------------------------------------
(* setFileName.  Called again it opens the file anew and moves it under     *)
(* m_fd; that dup2 may fail is reported but changes nothing.                *)

AllIdle == \A t \in Threads : pc[t] = "idle"

SetFileName ==
    /\ AllIdle
    /\ m_fd = NoFd
    /\ \E fd \in Fds : OpenLog(fd) /\ m_fd' = fd
    /\ UNCHANGED <<clock, m_realRotate, closers, leaked, archive, threadVars,
                   history>>

SetFileNameAgain ==
    /\ AllIdle
    /\ m_fd # NoFd
    /\ \E fd \in Fds : fdTable[fd] = NoFile
    /\ \/ /\ logFile # NoFile
          /\ fdTable' = [fdTable EXCEPT ![m_fd] = logFile]
          /\ UNCHANGED <<logFile, lines, dupFailed>>
       \/ /\ logFile = NoFile
          /\ \E f \in Files :
                /\ Unused(f)
                /\ logFile' = f
                /\ lines' = [lines EXCEPT ![f] = {}]
                /\ \/ /\ fdTable' = [fdTable EXCEPT ![m_fd] = f]
                      /\ UNCHANGED dupFailed
                   \/ /\ UNCHANGED fdTable
                      /\ dupFailed' = TRUE
    /\ UNCHANGED <<clock, m_realRotate, m_fd, closers, leaked, archive,
                   threadVars, rotatedIn, gaveUp>>

-----------------------------------------------------------------------------
(* vlog and maybeRotate. *)

Goto(t, to) == pc' = [pc EXCEPT ![t] = to]
At(t, step) == pc[t] = step

(* A line of a level that is logged: maybeRotate reads the clock. *)
Log(t) ==
    /\ At(t, "idle")
    /\ now' = [now EXCEPT ![t] = clock]
    /\ Goto(t, "test")
    /\ UNCHANGED <<clock, m_realRotate, m_fd, fileVars, old, newFd, history>>

Test(t) ==
    /\ At(t, "test")
    /\ Goto(t, IF m_fd = NoFd \/ Period(now[t]) = Period(m_realRotate)
               THEN "write" ELSE "exchange")
    /\ UNCHANGED <<clock, m_realRotate, m_fd, fileVars, now, old, newFd,
                   history>>

(* Wrong: does not look again at what it got for the new value. *)
Exchange_NoSecondTest(t) ==
    /\ At(t, "exchange")
    /\ old' = [old EXCEPT ![t] = m_realRotate]
    /\ m_realRotate' = now[t]
    /\ Goto(t, "rename")
    /\ UNCHANGED <<clock, m_fd, fileVars, now, newFd, history>>

(* Only the thread that gets a value of another period rotates. *)
Exchange(t) ==
    /\ At(t, "exchange")
    /\ old' = [old EXCEPT ![t] = m_realRotate]
    /\ m_realRotate' = now[t]
    /\ Goto(t, IF Period(now[t]) = Period(m_realRotate)
               THEN "write" ELSE "rename")
    /\ UNCHANGED <<clock, m_fd, fileVars, now, newFd, history>>

(* Wrong: the archive is named after the period only. *)
Rename_Coarse(t) ==
    /\ At(t, "rename")
    /\ \/ /\ logFile # NoFile
          /\ archive' = [archive EXCEPT ![Period(now[t])] = logFile]
          /\ logFile' = NoFile
          /\ Goto(t, "open")
       \/ /\ logFile = NoFile
          /\ Goto(t, "open")
          /\ UNCHANGED <<archive, logFile>>
       \/ /\ Goto(t, "restore")
          /\ UNCHANGED <<archive, logFile>>
    /\ UNCHANGED <<clock, m_realRotate, m_fd, fdTable, closers, leaked, lines,
                   now, old, newFd, history>>

(* rename.  That there is no log file (ENOENT) does not matter; after any   *)
(* other error the rotation is given up.                                    *)
Rename(t) ==
    /\ At(t, "rename")
    /\ \/ /\ logFile # NoFile
          /\ archive' = [archive EXCEPT ![now[t]] = logFile]
          /\ logFile' = NoFile
          /\ Goto(t, "open")
       \/ /\ logFile = NoFile
          /\ Goto(t, "open")
          /\ UNCHANGED <<archive, logFile>>
       \/ /\ Goto(t, "restore")
          /\ UNCHANGED <<archive, logFile>>
    /\ UNCHANGED <<clock, m_realRotate, m_fd, fdTable, closers, leaked, lines,
                   now, old, newFd, history>>

Open(t) ==
    /\ At(t, "open")
    /\ \/ /\ \E fd \in Fds : OpenLog(fd) /\ newFd' = [newFd EXCEPT ![t] = fd]
          /\ Goto(t, "dup")
          /\ UNCHANGED gaveUp
       \/ /\ gaveUp' = gaveUp \cup {now[t]}
          /\ Goto(t, "restore")
          /\ UNCHANGED <<fdTable, logFile, lines, newFd>>
    /\ UNCHANGED <<clock, m_realRotate, m_fd, closers, leaked, archive, now,
                   old, rotatedIn, dupFailed>>

(* Wrong: the arguments of dup2 the other way round. *)
Dup_Swapped(t) ==
    /\ At(t, "dup")
    /\ fdTable' = [fdTable EXCEPT ![newFd[t]] = fdTable[m_fd]]
    /\ closers' = closers \cup {newFd[t]}
    /\ newFd' = [newFd EXCEPT ![t] = NoFd]
    /\ rotatedIn' = Period(now[t])
    /\ Goto(t, "write")
    /\ UNCHANGED <<clock, m_realRotate, m_fd, leaked, logFile, archive, lines,
                   now, old, gaveUp, dupFailed>>

(* Wrong: the detached thread reads fd when it is gone. *)
Dup_ByReference(t) ==
    /\ At(t, "dup")
    /\ fdTable' = [fdTable EXCEPT ![m_fd] = fdTable[newFd[t]]]
    /\ newFd' = [newFd EXCEPT ![t] = NoFd]
    /\ closers' = closers \cup {newFd'[t]}
    /\ rotatedIn' = Period(now[t])
    /\ Goto(t, "write")
    /\ UNCHANGED <<clock, m_realRotate, m_fd, leaked, logFile, archive, lines,
                   now, old, gaveUp, dupFailed>>

(* dup2 replaces the file under m_fd at once; a thread of its own closes    *)
(* the other descriptor later.  If that thread cannot be created, the       *)
(* constructor throws out of vlog: nobody closes it, the line is not        *)
(* written.                                                                 *)
Dup(t) ==
    /\ At(t, "dup")
    /\ fdTable' = [fdTable EXCEPT ![m_fd] = fdTable[newFd[t]]]
    /\ newFd' = [newFd EXCEPT ![t] = NoFd]
    /\ rotatedIn' = Period(now[t])
    /\ \/ /\ closers' = closers \cup {newFd[t]}
          /\ Goto(t, "write")
          /\ UNCHANGED leaked
       \/ /\ leaked' = leaked \cup {newFd[t]}
          /\ Goto(t, "idle")
          /\ UNCHANGED closers
    /\ UNCHANGED <<clock, m_realRotate, m_fd, logFile, archive, lines, now,
                   old, gaveUp, dupFailed>>

(* Wrong: leaves the new descriptor open. *)
DupFails_Leaks(t) ==
    /\ At(t, "dup")
    /\ newFd' = [newFd EXCEPT ![t] = NoFd]
    /\ gaveUp' = gaveUp \cup {now[t]}
    /\ dupFailed' = TRUE
    /\ Goto(t, "restore")
    /\ UNCHANGED <<clock, m_realRotate, m_fd, fdTable, closers, leaked,
                   logFile, archive, lines, now, old, rotatedIn>>

DupFails(t) ==
    /\ At(t, "dup")
    /\ fdTable' = [fdTable EXCEPT ![newFd[t]] = NoFile]
    /\ newFd' = [newFd EXCEPT ![t] = NoFd]
    /\ gaveUp' = gaveUp \cup {now[t]}
    /\ dupFailed' = TRUE
    /\ Goto(t, "restore")
    /\ UNCHANGED <<clock, m_realRotate, m_fd, closers, leaked, logFile,
                   archive, lines, now, old, rotatedIn>>

(* Wrong: a rotation that failed counts as done. *)
Restore_Keeps(t) ==
    /\ At(t, "restore")
    /\ Goto(t, "write")
    /\ UNCHANGED <<clock, m_realRotate, m_fd, fileVars, now, old, newFd,
                   history>>

(* A rotation that failed is left to the next call of maybeRotate. *)
Restore(t) ==
    /\ At(t, "restore")
    /\ m_realRotate' = old[t]
    /\ Goto(t, "write")
    /\ UNCHANGED <<clock, m_fd, fileVars, now, old, newFd, history>>

(* write to the file under m_fd, or to the standard output; it may fail.    *)
WriteLine(t) ==
    /\ At(t, "write")
    /\ \/ /\ m_fd # NoFd
          /\ \E l \in Lines \ Written :
                lines' = [lines EXCEPT ![fdTable[m_fd]] = @ \cup {l}]
       \/ UNCHANGED lines
    /\ Goto(t, "idle")
    /\ UNCHANGED <<clock, m_realRotate, m_fd, fdTable, closers, leaked,
                   logFile, archive, now, old, newFd, history>>

(* The detached thread of a rotation. *)
CloseLater(fd) ==
    /\ fd \in closers
    /\ closers' = closers \ {fd}
    /\ fdTable' = [fdTable EXCEPT ![fd] = NoFile]
    /\ UNCHANGED <<clock, m_realRotate, m_fd, leaked, logFile, archive, lines,
                   threadVars, history>>

-----------------------------------------------------------------------------
Run(t) ==
    \/ Log(t) \/ Test(t) \/ Exchange(t) \/ Rename(t) \/ Open(t)
    \/ Dup(t) \/ DupFails(t) \/ Restore(t) \/ WriteLine(t)

Next ==
    \/ Tick \/ SetFileName \/ SetFileNameAgain
    \/ \E t \in Threads : Run(t)
    \/ \E fd \in Fds : CloseLater(fd)

Spec == Init /\ [][Next]_vars

-----------------------------------------------------------------------------
TypeOK ==
    /\ clock \in Times
    /\ m_realRotate \in Times
    /\ m_fd \in Fds \cup {NoFd}
    /\ fdTable \in [Fds -> Files \cup {NoFile}]
    /\ closers \subseteq Fds
    /\ leaked \subseteq Fds
    /\ logFile \in Files \cup {NoFile}
    /\ archive \in [Times -> Files \cup {NoFile}]
    /\ lines \in [Files -> SUBSET Lines]
    /\ pc \in [Threads -> Steps]
    /\ now \in [Threads -> Times]
    /\ old \in [Threads -> Times]
    /\ newFd \in [Threads -> Fds \cup {NoFd}]
    /\ rotatedIn \in Nat
    /\ gaveUp \subseteq Times
    /\ dupFailed \in BOOLEAN

(* logger.cpp:76: the exchange of m_realRotate keeps several threads from   *)
(* rotating at the same time.                                               *)
OneRotator == \A t, u \in Rotators : t = u

(* A rotation that fails at any step is tried again by the next call: while *)
(* nobody rotates, m_realRotate lies in the period of the last rotation     *)
(* that was completed.                                                      *)
FailuresRetried == Rotators = {} => Period(m_realRotate) = rotatedIn

(* What was written stays readable under some name, whatever rotations      *)
(* overlap, fail and are tried again.  A file loses its last name only in a *)
(* rename in the same second as a rotation that gave up half way: the       *)
(* archives of the two have the same name.                                  *)
NamesKept ==
    [][\A f \in Files :
          lines[f] # {} /\ Named(f)
             => Named(f)' \/ \E t \in Rotators : now[t] \in gaveUp]_vars

(* A period is rotated in at most once, and the periods in their order: a   *)
(* rotation that is completed is of a later period than the one before it,  *)
(* however many threads saw the period end and were overtaken by it.        *)
Completes(t) == pc[t] = "dup" /\ pc'[t] \in {"write", "idle"}

RotatesForward ==
    [][\A t \in Threads : Completes(t) => rotatedIn' > rotatedIn]_vars

(* Between rotations the threads write to the file that has the log's name, *)
(* if any has: nobody writes to an archive while readers look at the log.   *)
LogIsCurrent ==
    m_fd # NoFd /\ Rotators = {} /\ ~ dupFailed
        => logFile \in {NoFile, fdTable[m_fd]}

(* Every descriptor the rotations open is closed once, and that of the log  *)
(* never: each open one belongs to the logger, to one rotation or to one    *)
(* detached thread - or is lost for good, because that thread could not be  *)
(* created, and then it is none of these.                                   *)
Rotations == {newFd[t] : t \in Threads} \ {NoFd}

DescriptorsAccounted ==
    /\ \A fd \in Fds : fdTable[fd] # NoFile
          <=> fd = m_fd \/ fd \in closers \/ fd \in leaked \/ fd \in Rotations
    /\ m_fd \notin closers \cup leaked \cup Rotations
    /\ closers \cap Rotations = {}
    /\ leaked \cap (closers \cup Rotations) = {}
    /\ \A t, u \in Threads : newFd[t] = newFd[u] /\ newFd[t] # NoFd => t = u
=============================================================================
