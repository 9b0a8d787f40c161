----------------------------- MODULE ThreadQueue -----------------------------
(***************************************************************************)
(* ThreadQueue of sys/thread_queue.h, with the Locker, the ThreadMutex and *)
(* the ThreadCond it is built from.  Any number of threads call it; each   *)
(* runs through the steps of a method one at a time, at the granularity at *)
(* which the mutex would have to protect them:                             *)
(*                                                                         *)
(*   lock -> test -> insert | take | wait -> signal -> unlock -> idle      *)
(*             ^                        |                                  *)
(*             +------- relock <--------+                                  *)
(***************************************************************************)
EXTENDS QueueCalls, FiniteSets

CONSTANT NoThread

ASSUME ThreadAssumption == NoThread \notin Threads

VARIABLES
    m_queue,
    m_mutex,    \* the thread that holds it, or NoThread
    pc,         \* [Threads -> Steps]
    request,    \* [Threads -> Requests]: the call a thread is in, or Idle
    result      \* [Threads -> Results]: what the call will return

vars == <<m_queue, m_mutex, pc, request, result>>

Steps == {"idle", "lock", "test", "insert", "take", "signal", "unlock",
          "wait", "relock"}

Init ==
    /\ m_queue = <<>>
    /\ m_mutex = NoThread
    /\ pc = [t \in Threads |-> "idle"]
    /\ request = [t \in Threads |-> Idle]
    /\ result = [t \in Threads |-> NoResult]

Goto(t, to) == pc' = [pc EXCEPT ![t] = to]
At(t, step) == pc[t] = step
Decide(t, ok, got) == result' = [result EXCEPT ![t] = Result(ok, got)]

(* The threads inside pthread_cond_wait or pthread_cond_timedwait. *)
Waiters == {t \in Threads : pc[t] = "wait"}

(* Locker's constructor and destructor. *)
Call(t) ==
    /\ At(t, "idle")
    /\ \E r \in Requests : request' = [request EXCEPT ![t] = r]
    /\ Goto(t, "lock")
    /\ UNCHANGED <<m_queue, m_mutex, result>>

Lock(t) ==
    /\ pc[t] \in {"lock", "relock"}
    /\ m_mutex = NoThread
    /\ m_mutex' = t
    /\ Goto(t, "test")
    /\ UNCHANGED <<m_queue, request, result>>

Unlock(t) ==
    /\ At(t, "unlock")
    /\ m_mutex' = NoThread
    /\ request' = [request EXCEPT ![t] = Idle]
    /\ result' = [result EXCEPT ![t] = NoResult]
    /\ Goto(t, "idle")
    /\ UNCHANGED m_queue

(* The push operations: a full queue is signalled as well. *)
TestRoom(t) ==
    /\ At(t, "test") /\ request[t] \in Pushes
    /\ \/ /\ Fits(m_queue, request[t].items)
          /\ Goto(t, "insert")
          /\ UNCHANGED result
       \/ /\ ~ Fits(m_queue, request[t].items)
          /\ Goto(t, "signal")
          /\ Decide(t, FALSE, <<>>)
    /\ UNCHANGED <<m_queue, m_mutex, request>>

(* Wrong: a batch pushed to the front keeps its order. *)
Insert_Unreversed(t) ==
    /\ At(t, "insert")
    /\ m_queue' = IF request[t].op = "push_front"
                  THEN request[t].items \o m_queue
                  ELSE m_queue \o request[t].items
    /\ Decide(t, TRUE, <<>>)
    /\ Goto(t, "signal")
    /\ UNCHANGED <<m_mutex, request>>

(* Wrong: signals only when the queue was empty. *)
Insert_SignalFirst(t) ==
    /\ At(t, "insert")
    /\ m_queue' = Pushed(m_queue, request[t])
    /\ Decide(t, TRUE, <<>>)
    /\ Goto(t, IF m_queue = <<>> THEN "signal" ELSE "unlock")
    /\ UNCHANGED <<m_mutex, request>>

Insert(t) ==
    /\ At(t, "insert")
    /\ m_queue' = Pushed(m_queue, request[t])
    /\ Decide(t, TRUE, <<>>)
    /\ Goto(t, "signal")
    /\ UNCHANGED <<m_mutex, request>>

(* pthread_cond_signal wakes one waiter, if there is one. *)
Signal(t) ==
    /\ At(t, "signal")
    /\ \/ /\ Waiters = {}
          /\ Goto(t, "unlock")
       \/ \E w \in Waiters :
             pc' = [pc EXCEPT ![t] = "unlock", ![w] = "relock"]
    /\ UNCHANGED <<m_queue, m_mutex, request, result>>

(* pop_front and swap: the loop test.  Waiting releases the mutex. *)
TestItems(t) ==
    /\ At(t, "test") /\ request[t] \in Takes
    /\ \/ /\ m_queue # <<>>
          /\ Goto(t, "take")
          /\ UNCHANGED <<m_mutex, result>>
       \/ /\ m_queue = <<>> /\ request[t].wait = "none"
          /\ Decide(t, FALSE, <<>>)
          /\ Goto(t, "unlock")
          /\ UNCHANGED m_mutex
       \/ /\ m_queue = <<>> /\ request[t].wait # "none"
          /\ m_mutex' = NoThread
          /\ Goto(t, "wait")
          /\ UNCHANGED result
    /\ UNCHANGED <<m_queue, request>>

(* Wrong: after a timeout goes on without the mutex. *)
Timeout_Unlocked(t) ==
    /\ At(t, "wait") /\ request[t].wait = "some"
    /\ Goto(t, "test")
    /\ UNCHANGED <<m_queue, m_mutex, request, result>>

(* timeWait always returns true, so that a timeout is a wake-up like any    *)
(* other: the thread goes back to the loop test.                            *)
Timeout(t) ==
    /\ At(t, "wait") /\ request[t].wait = "some"
    /\ Goto(t, "relock")
    /\ UNCHANGED <<m_queue, m_mutex, request, result>>

(* A condition variable may wake a thread for no reason. *)
SpuriousWakeup(t) ==
    /\ At(t, "wait") /\ request[t].wait = "forever"
    /\ Goto(t, "relock")
    /\ UNCHANGED <<m_queue, m_mutex, request, result>>

TakeItems(t) ==
    /\ At(t, "take")
    /\ m_queue' = Left(m_queue, request[t])
    /\ Decide(t, TRUE, Taken(m_queue, request[t]))
    /\ Goto(t, "unlock")
    /\ UNCHANGED <<m_mutex, request>>

ClearOrSize(t) ==
    /\ At(t, "test") /\ request[t] \in Others
    /\ \/ /\ request[t].op = "clear"
          /\ m_queue' = <<>>
          /\ Decide(t, TRUE, <<>>)
       \/ /\ request[t].op = "size"
          /\ UNCHANGED m_queue
          /\ Decide(t, TRUE, m_queue)
    /\ Goto(t, "unlock")
    /\ UNCHANGED <<m_mutex, request>>

Run(t) ==
    \/ TestRoom(t) \/ Insert(t) \/ Signal(t)
    \/ TestItems(t) \/ Timeout(t) \/ TakeItems(t)
    \/ ClearOrSize(t) \/ Unlock(t)

Next == \E t \in Threads : Call(t) \/ Lock(t) \/ Run(t) \/ SpuriousWakeup(t)

Spec == Init /\ [][Next]_vars

(***************************************************************************)
(* A thread that can run does, a finite wait ends, and a mutex that keeps  *)
(* being released is obtained in the end.  Nobody has to make another      *)
(* call, and no thread can count on a spurious wake-up.                    *)
(***************************************************************************)
Fairness == \A t \in Threads : WF_vars(Run(t)) /\ SF_vars(Lock(t))

FairSpec == Spec /\ Fairness

-----------------------------------------------------------------------------
TypeOK ==
    /\ m_queue \in Seq(Values)
    /\ m_mutex \in Threads \cup {NoThread}
    /\ pc \in [Threads -> Steps]
    /\ request \in [Threads -> Requests \cup {Idle}]
    /\ result \in [Threads -> Results]

(* The methods touch m_queue, and size() and empty() read it, only while    *)
(* they hold m_mutex - also after a wait, which gives it up in between.     *)
Holding == {"test", "insert", "take", "signal", "unlock"}

MutualExclusion ==
    \A t \in Threads : pc[t] \in Holding <=> m_mutex = t

(* The queue never holds more than m_maxsize elements, whatever pushes of   *)
(* single elements and batches race for the last place.                     *)
Bounded == Len(m_queue) <= MaxSize

(* The concurrent queue implements the sequential one: every call takes     *)
(* effect at one moment and returns what the queue held at that moment.     *)
BQ == INSTANCE BoundedQueue

ImplementsBoundedQueue == BQ!Spec

(* No wake-up is lost: while a thread waits, each element in the queue has  *)
(* a signal on its way or a thread that has been woken, or has come by, to  *)
(* take it.                                                                 *)
Coming == {t \in Threads : \/ request[t].op \in {"pop_front", "swap"}
                              /\ pc[t] \in {"relock", "test", "take"}
                           \/ pc[t] = "signal" /\ result[t].ok}

WakeupsCoverItems ==
    Waiters # {} => Len(m_queue) <= Cardinality(Coming)

(* thread_queue.h:34: a thread waits only when there are no data.           *)
WaitsOnlyForData ==
    \A t \in Threads :
       m_queue # <<>> /\ pc[t] = "wait" ~> m_queue = <<>> \/ pc[t] # "wait"

(* thread_queue.h:35: a finite time is how long the caller is blocked.      *)
TimedCallsReturn ==
    \A t \in Threads :
       request[t].op = "pop_front" /\ request[t].wait = "some"
          ~> request[t] = Idle
=============================================================================
