---------------------------- MODULE BoundedQueue ----------------------------
(***************************************************************************)
(* What sys/thread_queue.h promises its callers: a double-ended queue that *)
(* any number of threads use at once.  Every call takes effect at a single *)
(* moment between its invocation and its return (or never, while it        *)
(* waits), and its result is the one that a sequential queue gives at that *)
(* moment.                                                                 *)
(***************************************************************************)
EXTENDS QueueCalls

VARIABLES
    m_queue,
    request,    \* [Threads -> Requests]: the call in progress, or Idle
    result      \* [Threads -> Results]

queueVars == <<m_queue, request, result>>

Init ==
    /\ m_queue = <<>>
    /\ request = [t \in Threads |-> Idle]
    /\ result = [t \in Threads |-> NoResult]

Invoke(t) ==
    /\ request[t] = Idle
    /\ \E r \in Requests : request' = [request EXCEPT ![t] = r]
    /\ UNCHANGED <<m_queue, result>>

Answer(t, ok, got) ==
    /\ ~ result[t].done
    /\ result' = [result EXCEPT ![t] = Result(ok, got)]
    /\ UNCHANGED request

Push(t) ==
    /\ request[t] \in Pushes
    /\ \/ /\ Fits(m_queue, request[t].items)
          /\ m_queue' = Pushed(m_queue, request[t])
          /\ Answer(t, TRUE, <<>>)
       \/ /\ ~ Fits(m_queue, request[t].items)
          /\ UNCHANGED m_queue
          /\ Answer(t, FALSE, <<>>)

Take(t) ==
    /\ request[t] \in Takes
    /\ \/ /\ m_queue # <<>>
          /\ m_queue' = Left(m_queue, request[t])
          /\ Answer(t, TRUE, Taken(m_queue, request[t]))
       \/ /\ m_queue = <<>> /\ request[t].wait # "forever"
          /\ UNCHANGED m_queue
          /\ Answer(t, FALSE, <<>>)

(* clear; size and empty, whose results are functions of the contents. *)
Other(t) ==
    /\ request[t] \in Others
    /\ \/ /\ request[t].op = "clear"
          /\ m_queue' = <<>>
          /\ Answer(t, TRUE, <<>>)
       \/ /\ request[t].op = "size"
          /\ UNCHANGED m_queue
          /\ Answer(t, TRUE, m_queue)

Return(t) ==
    /\ result[t].done
    /\ request' = [request EXCEPT ![t] = Idle]
    /\ result' = [result EXCEPT ![t] = NoResult]
    /\ UNCHANGED m_queue

Next == \E t \in Threads :
    Invoke(t) \/ Push(t) \/ Take(t) \/ Other(t) \/ Return(t)

Spec == Init /\ [][Next]_queueVars
=============================================================================
